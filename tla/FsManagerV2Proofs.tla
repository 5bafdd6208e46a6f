------------------------- MODULE FsManagerV2Proofs -------------------------
(***************************************************************************)
(* On v2 the leaf of every handle has its controllers, takes the tasks it  *)
(* is given and is empty before it is removed: for any tree, handles and   *)
(* tasks, when no handle's leaf is in the way of another's.                *)
(***************************************************************************)
EXTENDS FsManagerV2, SequenceTheorems, WellFoundedInduction, TLAPS

-----------------------------------------------------------------------------
(***************************************************************************)
(* Types.                                                                  *)
(***************************************************************************)

CallsOK == m \in [Clients -> Call_] /\ \A c \in Clients : m[c].i < Depth(c)

TasksOK == /\ loc \in [Tasks -> dirs]
           /\ life \in [Tasks -> {"unborn", "alive", "exiting", "gone"}]

\* The kernel's rules.
TreeOK ==
  /\ dirs \subseteq Nodes /\ Root \in dirs
  /\ ctl \in [Nodes -> SUBSET Supported]
  /\ threaded \subseteq dirs \ {Root}
  /\ \A n \in Nodes \ {Root} : /\ n \in dirs => Parent[n] \in dirs
                               /\ n \notin dirs => ctl[n] = {}
                               /\ ctl[n] \subseteq Avail(n)

NoInternal == \A n \in Nodes \ {Root} : ~(ctl[n] # {} /\ HasTasks(n))

LEMMA TypeParts ==
  /\ TypeOK <=> CallsOK /\ TasksOK /\ TreeOK /\ NoInternal
  /\ TypeOK' <=> CallsOK' /\ TasksOK' /\ TreeOK' /\ NoInternal'
  BY DEF TypeOK, CallsOK, TasksOK, TreeOK, NoInternal

\* A task that is not there any more, or not yet, is in no cgroup; only a
\* handle whose controllers are all there gets past the verification.
Elsewhere == \A t \in Tasks : ~Counted(t) => loc[t] = Root
Verified  == \A c \in Clients : m[c].pc \in {"enable", "mkdir"} => Want[c] \subseteq Supported

TypeInv == TypeOK /\ Elsewhere /\ Verified

\* Every path has a leaf, whose parent is the node before it.
LEMMA PathType ==
  ASSUME NEW c \in Clients
  PROVE  /\ Depth(c) \in Nat \ {0}
         /\ Leaf(c) \in Nodes \ {Root}
         /\ \A k \in 1 .. Depth(c) : Path[c][k] \in Nodes \ {Root}
         /\ \A k \in 0 .. Depth(c) : Node(c, k) \in Nodes
         /\ \A k \in 1 .. Depth(c) : Node(c, k) = Path[c][k] /\ Parent[Path[c][k]] = Node(c, k - 1)
  <1>1. Path[c] \in Seq(Nodes \ {Root}) /\ Path[c] # <<>> BY PathAssumption
  <1>2. Depth(c) \in Nat \ {0} BY <1>1, EmptySeq DEF Depth
  <1>3. \A k \in 1 .. Depth(c) : Path[c][k] \in Nodes \ {Root}
    BY <1>1, ElementOfSeq DEF Depth
  <1>4. \A k \in 0 .. Depth(c) : Node(c, k) \in Nodes BY <1>3, TreeAssumption DEF Node
  <1>5. ASSUME NEW k \in 1 .. Depth(c) PROVE Parent[Path[c][k]] = Node(c, k - 1)
    <2>1. CASE k = 1 BY <2>1, PathAssumption DEF Node
    <2>2. CASE k # 1
      <3>1. k - 1 \in 1 .. Len(Path[c]) - 1 /\ (k - 1) + 1 = k BY <1>2, <2>2 DEF Depth
      <3>2. Parent[Path[c][(k - 1) + 1]] = Path[c][k - 1] BY <3>1, PathAssumption
      <3>3. QED BY <2>2, <3>1, <3>2 DEF Node
    <2>3. QED BY <2>1, <2>2
  <1>6. QED BY <1>2, <1>3, <1>4, <1>5 DEF Leaf, Node

LEMMA IdleType ==
  ASSUME NEW r \in {"none", "ok", "err"}
  PROVE  Idle(r) \in Call_ /\ \A c \in Clients : Idle(r).i < Depth(c)
  <1>1. (CHOOSE t \in Tasks : TRUE) \in Tasks BY TaskAssumption
  <1>2. \A c \in Clients : 0 < Depth(c) BY PathType
  <1>3. QED BY <1>1, <1>2 DEF Idle, Call_, Labels, AllOps

\* A call that ends or goes on keeps the types.
LEMMA BecomesType ==
  ASSUME CallsOK, NEW c \in Clients, NEW r \in Call_, r.i < Depth(c), Becomes(c, r)
  PROVE  CallsOK' /\ m'[c] = r /\ \A d \in Clients \ {c} : m'[d] = m[d]
  BY DEF CallsOK, Becomes

LEMMA ReturnType ==
  ASSUME CallsOK, NEW c \in Clients, NEW r \in {"none", "ok", "err"}, Return(c, r)
  PROVE  CallsOK' /\ m'[c] = Idle(r) /\ \A d \in Clients \ {c} : m'[d] = m[d]
  BY IdleType, BecomesType DEF Return

LEMMA GotoType ==
  ASSUME CallsOK, NEW c \in Clients, NEW label \in Labels, Goto(c, label)
  PROVE  /\ CallsOK' /\ m'[c] = [m[c] EXCEPT !.pc = label]
         /\ \A d \in Clients \ {c} : m'[d] = m[d]
  <1>1. [m[c] EXCEPT !.pc = label] \in Call_ /\ [m[c] EXCEPT !.pc = label].i = m[c].i
    BY DEF CallsOK, Call_
  <1>2. m[c].i < Depth(c) BY DEF CallsOK
  <1>3. QED BY <1>1, <1>2, BecomesType DEF Goto

\* Moving live tasks to a node that may have them.
LEMMA MovedType ==
  ASSUME TasksOK, NoInternal, Elsewhere, NEW who, NEW n \in dirs, n = Root \/ ctl[n] = {},
         loc' = Moved(who, n), UNCHANGED <<tree, life>>
  PROVE  TasksOK' /\ NoInternal' /\ Elsewhere'
  BY DEF TasksOK, NoInternal, Elsewhere, Moved, HasTasks, Counted, tree

\* The steps that change only the call of a handle.
LEMMA CallOnly ==
  ASSUME TypeInv, UNCHANGED <<tree, loc, life>>, CallsOK', NEW c \in Clients,
         \A d \in Clients \ {c} : m'[d] = m[d],
         m'[c].pc \in {"enable", "mkdir"} => Want[c] \subseteq Supported
  PROVE  TypeInv'
  <1>1. TasksOK /\ TreeOK /\ NoInternal /\ Elsewhere /\ Verified BY TypeParts DEF TypeInv
  <1>2. TasksOK' /\ TreeOK' /\ NoInternal' /\ Elsewhere'
    BY <1>1 DEF tree, TasksOK, TreeOK, NoInternal, Elsewhere, HasTasks, Counted, Avail
  <1>3. Verified' BY <1>1 DEF Verified
  <1>4. QED BY <1>2, <1>3, TypeParts DEF TypeInv

LEMMA CreatedType ==
  ASSUME CallsOK, NEW c \in Clients, Created(c)
  PROVE  /\ CallsOK' /\ m'[c].pc \in {"attach", "type"}
         /\ \A d \in Clients \ {c} : m'[d] = m[d]
  <1>1. PICK l \in {"attach", "type"} : Becomes(c, [m[c] EXCEPT !.i = 0, !.left = {}, !.pc = l])
    BY DEF Created
  <1>2. 0 < Depth(c) /\ 0 \in Nat BY PathType
  <1>3. LET r == [m[c] EXCEPT !.i = 0, !.left = {}, !.pc = l]
        IN  r \in Call_ /\ r.i = 0 /\ r.pc = l
    BY <1>2 DEF CallsOK, Call_, Labels
  <1>4. QED BY <1>1, <1>2, <1>3, BecomesType

LEMMA EnableAtType ==
  ASSUME CallsOK, NEW c \in Clients, NEW i \in Nat, i < Depth(c), Want[c] \subseteq Supported,
         EnableAt(c, i)
  PROVE  /\ CallsOK' /\ m'[c].pc \in {"enable", "mkdir"}
         /\ m'[c].i = i /\ m'[c].left = Want[c] /\ (m'[c].pc = "mkdir" => Want[c] = {})
         /\ \A d \in Clients \ {c} : m'[d] = m[d]
  <1> DEFINE l == IF Want[c] = {} THEN "mkdir" ELSE "enable"
             r == [m[c] EXCEPT !.i = i, !.left = Want[c], !.pc = l]
  <1>1. Becomes(c, r) BY DEF EnableAt
  <1>2. l \in Labels BY DEF Labels
  <1>3. r \in Call_ /\ r.i = i /\ r.pc = l /\ r.left = Want[c] BY <1>2 DEF CallsOK, Call_
  <1>4. l = "mkdir" => Want[c] = {} OBVIOUS
  <1>5. l \in {"enable", "mkdir"} OBVIOUS
  <1> HIDE DEF r, l
  <1>6. QED BY <1>1, <1>3, <1>4, <1>5, BecomesType

LEMMA CallStep == ASSUME TypeInv, NEW c \in Clients, Call(c) PROVE TypeInv'
  <1>1. CallsOK BY TypeParts DEF TypeInv
  <1>2. PICK o \in Ops[c], t \in Tasks :
          Becomes(c, [m[c] EXCEPT !.op = o, !.arg = t, !.res = "none", !.pc = Entry(o)])
    BY DEF Call
  <1>3. o \in AllOps BY EnvAssumption
  <1>4. Entry(o) \in Labels \ {"enable", "mkdir"} BY <1>3 DEF Entry, Labels
  <1>5. LET r == [m[c] EXCEPT !.op = o, !.arg = t, !.res = "none", !.pc = Entry(o)]
        IN  r \in Call_ /\ r.i < Depth(c) /\ r.pc = Entry(o)
    BY <1>1, <1>3, <1>4 DEF CallsOK, Call_
  <1>6. /\ CallsOK' /\ m'[c].pc = Entry(o) /\ \A d \in Clients \ {c} : m'[d] = m[d]
    BY <1>1, <1>2, <1>5, BecomesType
  <1>7. QED BY <1>4, <1>6, CallOnly DEF Call

\* The steps of create_cgroups.
LEMMA CreateStep ==
  ASSUME TypeInv, NEW c \in Clients,
         Exists(c) \/ Verify(c) \/ Enable(c) \/ Mkdir(c) \/ MkdirFails(c)
  PROVE  TypeInv'
  <1>1. CallsOK /\ TasksOK /\ TreeOK /\ NoInternal /\ Elsewhere /\ Verified
    BY TypeParts DEF TypeInv
  <1>i. \A r \in {"none", "ok", "err"} : Idle(r).pc = "idle" BY DEF Idle
  <1>r. \A r \in {"none", "ok", "err"} : Return(c, r) =>
          CallsOK' /\ m'[c].pc = "idle" /\ \A d \in Clients \ {c} : m'[d] = m[d]
    BY <1>1, <1>i, ReturnType
  <1>g. \A l \in Labels : Goto(c, l) =>
          CallsOK' /\ m'[c].pc = l /\ \A d \in Clients \ {c} : m'[d] = m[d]
    <2>1. \A l : [m[c] EXCEPT !.pc = l].pc = l BY <1>1 DEF CallsOK, Call_
    <2>2. QED BY <1>1, <2>1, GotoType
  <1> USE DEF At
  <1>2. CASE Exists(c)
    <2>1. CASE Created(c) BY <1>1, <1>2, <2>1, CreatedType, CallOnly DEF Exists
    <2>2. CASE \E l \in {"verify", "list"} : Goto(c, l)
      BY <1>2, <1>g, <2>2, CallOnly DEF Exists, Labels
    <2>3. CASE Return(c, "ok") BY <1>2, <1>r, <2>3, CallOnly DEF Exists
    <2>4. QED BY <1>2, <2>1, <2>2, <2>3 DEF Exists
  <1>3. CASE Verify(c)
    <2>1. CASE Want[c] \subseteq Supported
      <3>1. EnableAt(c, 0) BY <1>3, <2>1 DEF Verify
      <3>2. 0 < Depth(c) /\ 0 \in Nat BY PathType
      <3>3. QED BY <1>1, <1>3, <2>1, <3>1, <3>2, EnableAtType, CallOnly DEF Verify
    <2>2. CASE Return(c, "err") BY <1>3, <1>r, <2>2, CallOnly DEF Verify
    <2>3. QED BY <1>3, <2>1, <2>2 DEF Verify
  <1>4. CASE Enable(c)
    <2> DEFINE n == Node(c, m[c].i)
    <2>1. PICK x \in m[c].left :
            /\ ctl' = IF MayEnable(n, x) THEN [ctl EXCEPT ![n] = @ \cup {x}] ELSE ctl
            /\ Becomes(c, [m[c] EXCEPT !.left = @ \ {x},
                             !.pc = IF m[c].left = {x} THEN "mkdir" ELSE "enable"])
      BY <1>4 DEF Enable
    <2>2. m[c].left \in SUBSET Supported /\ x \in Supported BY <1>1 DEF CallsOK, Call_
    <2> DEFINE l == IF m[c].left = {x} THEN "mkdir" ELSE "enable"
               r == [m[c] EXCEPT !.left = m[c].left \ {x}, !.pc = l]
    <2>3. l \in Labels BY DEF Labels
    <2>4. r \in Call_ /\ r.i < Depth(c) BY <1>1, <2>2, <2>3 DEF CallsOK, Call_
    <2>5. CallsOK' /\ \A d \in Clients \ {c} : m'[d] = m[d] BY <1>1, <2>1, <2>4, BecomesType
    <2>6. Verified' BY <1>1, <1>4, <2>5 DEF Verified, Enable
    <2>7. UNCHANGED <<dirs, threaded, loc, life>> BY <1>4 DEF Enable
    <2>8. n \in Nodes
      <3>1. m[c].i \in 0 .. Depth(c) BY <1>1, PathType DEF CallsOK, Call_
      <3>2. QED BY <3>1, PathType
    <2>9. TreeOK'
      <3>1. CASE MayEnable(n, x)
        <4>1. ctl' = [ctl EXCEPT ![n] = ctl[n] \cup {x}] BY <2>1, <3>1
        <4>2. n \in dirs /\ x \in Avail(n) BY <3>1 DEF MayEnable
        <4>3. \A k \in Nodes : ctl[k] \subseteq ctl'[k] /\ ctl'[k] \subseteq ctl[k] \cup {x}
          BY <1>1, <2>8, <4>1 DEF TreeOK
        <4>4. \A k \in Nodes \ {n} : ctl'[k] = ctl[k] BY <1>1, <2>8, <4>1 DEF TreeOK
        <4>5. ctl' \in [Nodes -> SUBSET Supported] BY <1>1, <2>2, <2>8, <4>1 DEF TreeOK
        <4>6. \A k \in Nodes \ {Root} : Parent[k] \in Nodes BY TreeAssumption
        <4>7. \A k \in Nodes \ {Root} : ctl'[k] \subseteq Avail(k)'
          BY <1>1, <4>2, <4>3, <4>4, <4>6 DEF TreeOK, Avail
        <4>8. QED BY <1>1, <2>7, <4>2, <4>4, <4>5, <4>7 DEF TreeOK
      <3>2. CASE ~MayEnable(n, x) BY <1>1, <2>1, <2>7, <3>2 DEF TreeOK, Avail
      <3>3. QED BY <3>1, <3>2
    <2>10. NoInternal'
      <3>1. CASE MayEnable(n, x)
        <4>1. ctl' = [ctl EXCEPT ![n] = ctl[n] \cup {x}] BY <2>1, <3>1
        <4>2. n # Root => ~HasTasks(n) BY <3>1 DEF MayEnable
        <4>3. \A k \in Nodes \ {n} : ctl'[k] = ctl[k] BY <1>1, <2>8, <4>1 DEF TreeOK
        <4>4. \A k \in Nodes : HasTasks(k)' <=> HasTasks(k) BY <2>7 DEF HasTasks, Counted
        <4>5. QED BY <1>1, <4>2, <4>3, <4>4 DEF NoInternal
      <3>2. CASE ~MayEnable(n, x)
        BY <1>1, <2>1, <2>7, <3>2 DEF NoInternal, HasTasks, Counted
      <3>3. QED BY <3>1, <3>2
    <2>11. TasksOK' /\ Elsewhere' BY <1>1, <2>7 DEF TasksOK, Elsewhere, Counted
    <2>12. QED BY <2>5, <2>6, <2>9, <2>10, <2>11, TypeParts DEF TypeInv
  <1>5. CASE Mkdir(c)
    <2> DEFINE i == m[c].i + 1
               new == {Path[c][k] : k \in 1 .. i}
    <2>1. dirs' = dirs \cup new /\ UNCHANGED <<ctl, threaded, loc, life>> BY <1>5 DEF Mkdir
    <2>2. i \in 1 .. Depth(c) /\ Depth(c) \in Nat BY <1>1, PathType DEF CallsOK, Call_
    <2>3. CallsOK' /\ \A d \in Clients \ {c} : m'[d] = m[d]
      <3>1. CASE i < Depth(c)
        BY <1>1, <1>5, <2>2, <3>1, EnableAtType DEF Mkdir, Verified
      <3>2. CASE ~(i < Depth(c)) BY <1>1, <1>5, <3>2, CreatedType DEF Mkdir
      <3>3. QED BY <3>1, <3>2
    <2>4. Verified' BY <1>1, <1>5, <2>3 DEF Verified, Mkdir
    <2>5. new \subseteq Nodes \ {Root} BY <2>2, PathType
    <2>6. \A n \in new : Parent[n] \in dirs \cup new
      <3>1. SUFFICES ASSUME NEW k \in 1 .. i PROVE Parent[Path[c][k]] \in dirs \cup new
        OBVIOUS
      <3>2. Parent[Path[c][k]] = Node(c, k - 1) BY <2>2, PathType
      <3>3. CASE k = 1 BY <1>1, <3>2, <3>3 DEF Node, TreeOK
      <3>4. CASE k # 1
        <4>1. k - 1 \in 1 .. i BY <2>2, <3>4
        <4>2. Node(c, k - 1) = Path[c][k - 1] BY <3>4 DEF Node
        <4>3. QED BY <3>2, <4>1, <4>2
      <3>5. QED BY <3>3, <3>4
    <2> HIDE DEF new
    <2>7. TreeOK' BY <1>1, <2>1, <2>5, <2>6 DEF TreeOK, Avail
    <2>8. TasksOK' /\ Elsewhere' /\ NoInternal'
      BY <1>1, <2>1 DEF TasksOK, Elsewhere, Counted, NoInternal, HasTasks
    <2>9. QED BY <2>3, <2>4, <2>7, <2>8, TypeParts DEF TypeInv
  <1>6. CASE MkdirFails(c) BY <1>6, <1>r, CallOnly DEF MkdirFails
  <1>7. QED BY <1>2, <1>3, <1>4, <1>5, <1>6

\* The steps that attach tasks, change the type or kill.
LEMMA AttachStep ==
  ASSUME TypeInv, NEW c \in Clients,
         \/ Attach(c) \/ Type(c) \/ AttachThread(c) \/ SetType(c) \/ FindKill(c) \/ Kill(c)
         \/ ToParent(c)
  PROVE  TypeInv'
  <1>1. CallsOK /\ TasksOK /\ TreeOK /\ NoInternal /\ Elsewhere /\ Verified
    BY TypeParts DEF TypeInv
  <1>i. \A r \in {"none", "ok", "err"} : Idle(r).pc = "idle" BY DEF Idle
  <1>r. \A r \in {"none", "ok", "err"} : Return(c, r) =>
          CallsOK' /\ m'[c].pc = "idle" /\ \A d \in Clients \ {c} : m'[d] = m[d]
    BY <1>1, <1>i, ReturnType
  <1>v. m'[c].pc = "idle" /\ (\A d \in Clients \ {c} : m'[d] = m[d]) => Verified'
    BY <1>1 DEF Verified
  <1>g. \A l \in Labels : Goto(c, l) =>
          CallsOK' /\ m'[c].pc = l /\ \A d \in Clients \ {c} : m'[d] = m[d]
    <2>1. \A l : [m[c] EXCEPT !.pc = l].pc = l BY <1>1 DEF CallsOK, Call_
    <2>2. QED BY <1>1, <2>1, GotoType
  <1>f. ASSUME Return(c, "err"), UNCHANGED <<tree, loc, life>> PROVE TypeInv'
    BY <1>f, <1>r, CallOnly
  \* The tasks that are moved.
  <1>m. ASSUME NEW who, NEW n, n = Root \/ ctl[n] = {}, n \in dirs, loc' = Moved(who, n),
               UNCHANGED <<tree, life>>, Return(c, "ok")
        PROVE  TypeInv'
    <2>1. TasksOK' /\ NoInternal' /\ Elsewhere' BY <1>1, <1>m, MovedType
    <2>2. TreeOK' BY <1>1, <1>m DEF TreeOK, tree, Avail
    <2>3. CallsOK' /\ Verified' BY <1>m, <1>r, <1>v
    <2>4. QED BY <2>1, <2>2, <2>3, TypeParts DEF TypeInv
  <1>2. CASE Attach(c) BY <1>2, <1>f, <1>m DEF Attach, MayAttach
  <1>3. CASE Type(c)
    <2>1. UNCHANGED <<tree, loc, life>> BY <1>3 DEF Type
    <2>2. CASE Goto(c, "thread") BY <2>1, <2>2, <1>g, CallOnly DEF Labels
    <2>3. CASE Becomes(c, [m[c] EXCEPT !.op = "add_proc", !.pc = "exists"])
      <3>1. LET r == [m[c] EXCEPT !.op = "add_proc", !.pc = "exists"]
            IN  r \in Call_ /\ r.i < Depth(c) /\ r.pc = "exists"
        BY <1>1 DEF CallsOK, Call_, AllOps, Labels
      <3>2. CallsOK' /\ m'[c].pc = "exists" /\ \A d \in Clients \ {c} : m'[d] = m[d]
        BY <1>1, <2>3, <3>1, BecomesType
      <3>3. QED BY <2>1, <3>2, CallOnly
    <2>4. QED BY <1>3, <1>f, <2>1, <2>2, <2>3 DEF Type
  <1>4. CASE AttachThread(c) BY <1>4, <1>f, <1>m DEF AttachThread, MayAttach
  <1>5. CASE SetType(c)
    <2>1. CASE UNCHANGED threaded /\ Return(c, "err") BY <1>5, <2>1, <1>f DEF SetType, tree
    <2>2. CASE MayThread(Leaf(c)) /\ threaded' = threaded \cup {Leaf(c)} /\ Return(c, "ok")
      <3>1. UNCHANGED <<dirs, ctl, loc, life>> BY <1>5 DEF SetType
      <3>2. Leaf(c) \in dirs \ {Root} BY <2>2 DEF MayThread
      <3>3. TreeOK' BY <1>1, <2>2, <3>1, <3>2 DEF TreeOK, Avail
      <3>4. TasksOK' /\ NoInternal' /\ Elsewhere'
        BY <1>1, <3>1 DEF TasksOK, NoInternal, Elsewhere, HasTasks, Counted
      <3>5. CallsOK' /\ Verified' BY <2>2, <1>r, <1>v
      <3>6. QED BY <3>3, <3>4, <3>5, TypeParts DEF TypeInv
    <2>3. QED BY <1>5, <2>1, <2>2 DEF SetType
  <1>6. CASE FindKill(c) BY <1>6, <1>f, <1>g, CallOnly DEF FindKill, Labels
  <1>7. CASE Kill(c)
    <2>1. UNCHANGED <<tree, loc>> BY <1>7 DEF Kill
    <2>2. CASE UNCHANGED life /\ Return(c, "err") BY <2>1, <2>2, <1>f
    <2>3. CASE Return(c, "ok") /\ Leaf(c) \in dirs \ threaded
      <3>1. PICK hit : life' = [t \in Tasks |-> IF t \in hit /\ life[t] = "alive"
                                                THEN "exiting" ELSE life[t]]
        BY <1>7, <2>3 DEF Kill
      <3>2. \A t \in Tasks : Counted(t)' <=> Counted(t) BY <3>1 DEF Counted
      <3>3. TasksOK' BY <1>1, <2>1, <3>1 DEF TasksOK, tree
      <3>4. NoInternal' /\ Elsewhere' /\ TreeOK'
        BY <1>1, <2>1, <3>2 DEF NoInternal, Elsewhere, HasTasks, TreeOK, Avail, tree
      <3>5. CallsOK' /\ Verified' BY <2>3, <1>r, <1>v
      <3>6. QED BY <3>3, <3>4, <3>5, TypeParts DEF TypeInv
    <2>4. QED BY <1>7, <2>2, <2>3 DEF Kill
  <1>8. CASE ToParent(c) BY <1>8, <1>f, <1>m DEF ToParent, MayAttach
  <1>9. QED BY <1>2, <1>3, <1>4, <1>5, <1>6, <1>7, <1>8

\* The steps of destroy.
LEMMA DestroyStep ==
  ASSUME TypeInv, NEW c \in Clients, List(c) \/ Move(c) \/ Rmdir(c)
  PROVE  TypeInv'
  <1>1. CallsOK /\ TasksOK /\ TreeOK /\ NoInternal /\ Elsewhere /\ Verified
    BY TypeParts DEF TypeInv
  <1>t. \A w \in SUBSET Tasks : \A l \in {"rmdir", "move"} :
          Becomes(c, [m[c] EXCEPT !.todo = w, !.pc = l]) =>
            CallsOK' /\ m'[c].pc = l /\ \A d \in Clients \ {c} : m'[d] = m[d]
    <2> SUFFICES ASSUME NEW w \in SUBSET Tasks, NEW l \in {"rmdir", "move"},
                        Becomes(c, [m[c] EXCEPT !.todo = w, !.pc = l])
                 PROVE  CallsOK' /\ m'[c].pc = l /\ \A d \in Clients \ {c} : m'[d] = m[d]
      OBVIOUS
    <2>1. LET r == [m[c] EXCEPT !.todo = w, !.pc = l]
          IN  r \in Call_ /\ r.i < Depth(c) /\ r.pc = l
      BY <1>1 DEF CallsOK, Call_, Labels
    <2>2. QED BY <1>1, <2>1, BecomesType
  <1>2. CASE List(c)
    <2>1. PICK pids \in SUBSET Tasks, l \in {"rmdir", "move"} :
            Becomes(c, [m[c] EXCEPT !.todo = pids, !.pc = l])
      BY <1>2, TaskAssumption, ZenonT(40) DEF List
    <2>2. QED BY <1>2, <1>t, <2>1, CallOnly DEF List
  <1>3. CASE Move(c)
    <2>1. PICK p \in m[c].todo, l \in {"rmdir", "move"} :
            /\ loc' = IF Known(p) THEN Moved(Group(p), Root) ELSE loc
            /\ Becomes(c, [m[c] EXCEPT !.todo = m[c].todo \ {p}, !.pc = l])
      BY <1>3 DEF Move
    <2>2. m[c].todo \ {p} \in SUBSET Tasks BY <1>1 DEF CallsOK, Call_
    <2>3. CallsOK' /\ m'[c].pc = l /\ \A d \in Clients \ {c} : m'[d] = m[d]
      BY <1>t, <2>1, <2>2
    <2>4. UNCHANGED <<tree, life>> BY <1>3 DEF Move
    <2>5. TasksOK' /\ NoInternal' /\ Elsewhere'
      <3>1. CASE Known(p)
        <4>1. Root \in dirs /\ loc' = Moved(Group(p), Root) BY <1>1, <2>1, <3>1 DEF TreeOK
        <4>2. QED BY <1>1, <2>4, <4>1, MovedType
      <3>2. CASE ~Known(p)
        BY <1>1, <2>1, <2>4, <3>2 DEF TasksOK, NoInternal, Elsewhere, HasTasks, Counted, tree
      <3>3. QED BY <3>1, <3>2
    <2>6. TreeOK' BY <1>1, <2>4 DEF TreeOK, tree, Avail
    <2>7. Verified' BY <1>1, <2>3 DEF Verified
    <2>8. QED BY <2>3, <2>5, <2>6, <2>7, TypeParts DEF TypeInv
  <1>4. CASE Rmdir(c)
    <2> DEFINE leaf == Leaf(c)
    <2>1. PICK r \in {"ok", "err"} : Return(c, r) BY <1>4 DEF Rmdir
    <2>2. Idle(r).pc = "idle" BY DEF Idle
    <2>3. CallsOK' /\ m'[c].pc = "idle" /\ \A d \in Clients \ {c} : m'[d] = m[d]
      BY <1>1, <2>1, <2>2, ReturnType
    <2>4. Verified' BY <1>1, <2>3 DEF Verified
    <2>5. UNCHANGED <<loc, life>> BY <1>4 DEF Rmdir
    <2>6. CASE ~Removable(leaf) BY <1>4, <2>3, <2>5, <2>6, CallOnly DEF Rmdir
    <2>7. CASE Removable(leaf)
      <3>1. /\ dirs' = dirs \ {leaf} /\ threaded' = threaded \ {leaf}
            /\ ctl' = [ctl EXCEPT ![leaf] = {}]
        BY <1>4, <2>7 DEF Rmdir
      <3>2. leaf \in dirs \ {Root} /\ ~HasTasks(leaf)
            /\ \A k \in dirs \ {Root} : Parent[k] # leaf
        BY <2>7 DEF Removable, Children
      <3>3. leaf \in Nodes /\ \A n \in Nodes \ {Root} : Parent[n] \in Nodes
        BY <1>1, <3>2, TreeAssumption DEF TreeOK
      <3>4. ctl' \in [Nodes -> SUBSET Supported] /\ ctl'[leaf] = {}
            /\ \A n \in Nodes \ {leaf} : ctl'[n] = ctl[n]
        BY <1>1, <3>1, <3>3 DEF TreeOK
      <3>5. \A n \in Nodes \ {Root} : n \notin dirs' => ctl'[n] = {}
        BY <1>1, <3>1, <3>4 DEF TreeOK
      <3>6. ASSUME NEW n \in Nodes \ {Root} PROVE ctl'[n] \subseteq Avail(n)'
        <4>1. CASE n = leaf BY <3>4, <4>1
        <4>2. CASE n # leaf /\ Parent[n] = leaf
          <5>1. n \notin dirs BY <3>2, <4>2
          <5>2. ctl'[n] = {} BY <1>1, <3>4, <4>2, <5>1 DEF TreeOK
          <5>3. QED BY <5>2
        <4>3. CASE n # leaf /\ Parent[n] # leaf
          <5>1. ctl'[n] = ctl[n] /\ Avail(n)' = ctl[Parent[n]]
            BY <3>3, <3>4, <4>3 DEF Avail
          <5>2. QED BY <1>1, <5>1 DEF TreeOK, Avail
        <4>4. QED BY <4>1, <4>2, <4>3
      <3>7. TreeOK' BY <1>1, <3>1, <3>2, <3>4, <3>5, <3>6 DEF TreeOK
      <3>8. TasksOK'
        <4>1. \A t \in Tasks : loc[t] # leaf
          BY <1>1, <3>2 DEF HasTasks, Elsewhere
        <4>2. QED BY <1>1, <2>5, <3>1, <4>1 DEF TasksOK
      <3>9. NoInternal' /\ Elsewhere'
        BY <1>1, <2>5, <3>4 DEF NoInternal, HasTasks, Elsewhere, Counted
      <3>10. QED BY <2>3, <2>4, <3>7, <3>8, <3>9, TypeParts DEF TypeInv
    <2>8. QED BY <2>6, <2>7
  <1>5. QED BY <1>2, <1>3, <1>4

\* The tasks' own steps.
LEMMA WorkloadStep == TypeInv /\ Workload => TypeInv'
  <1> SUFFICES ASSUME TypeInv, Workload PROVE TypeInv' OBVIOUS
  <1>1. CallsOK /\ TasksOK /\ TreeOK /\ NoInternal /\ Elsewhere /\ Verified
    BY TypeParts DEF TypeInv
  <1>2. UNCHANGED <<tree, m>> BY DEF Workload, Fork, Exit, Release
  <1>3. CallsOK' /\ TreeOK' /\ Verified'
    BY <1>1, <1>2 DEF CallsOK, TreeOK, Verified, tree, Avail
  <1>4. CASE \E t, u \in Tasks : Fork(t, u)
    BY <1>1, <1>2, <1>3, <1>4, TypeParts
       DEF Fork, TasksOK, NoInternal, Elsewhere, HasTasks, Counted, tree, TypeInv
  <1>5. CASE \E t \in Tasks : Exit(t)
    BY <1>1, <1>2, <1>3, <1>5, TypeParts
       DEF Exit, TasksOK, NoInternal, Elsewhere, HasTasks, Counted, tree, TypeInv
  <1>6. CASE \E t \in Tasks : Release(t)
    <2>1. PICK t \in Tasks : Release(t) BY <1>6
    <2>2. TasksOK' BY <1>1, <1>2, <2>1 DEF Release, TasksOK, TreeOK, tree
    <2>3. NoInternal' /\ Elsewhere'
      BY <1>1, <1>2, <2>1 DEF Release, TasksOK, NoInternal, Elsewhere, HasTasks, Counted, tree
    <2>4. QED BY <1>3, <2>2, <2>3, TypeParts DEF TypeInv
  <1>7. QED BY <1>4, <1>5, <1>6 DEF Workload

LEMMA TypeStep == TypeInv /\ [Next]_vars => TypeInv'
  <1>1. ASSUME TypeInv, UNCHANGED vars PROVE TypeInv'
    BY <1>1 DEF vars, TypeInv, TypeOK, Elsewhere, Verified, Avail, HasTasks, Counted
  <1>2. QED
    BY <1>1, CallStep, CreateStep, AttachStep, DestroyStep, WorkloadStep DEF Next, Step

LEMMA TypeInvariant == Spec => []TypeInv
  <1>1. Init => TypeInv
    <2> SUFFICES ASSUME Init PROVE TypeInv OBVIOUS
    <2>1. CallsOK BY IdleType DEF Init, CallsOK
    <2>2. TreeOK BY TreeAssumption DEF Init, TreeOK
    <2>3. TasksOK BY DEF Init, TasksOK
    <2>4. NoInternal BY TreeAssumption DEF Init, NoInternal
    <2>5. Elsewhere BY DEF Init, Elsewhere
    <2>6. Verified BY DEF Init, Verified, Idle
    <2>7. QED BY <2>1, <2>2, <2>3, <2>4, <2>5, <2>6, TypeParts DEF TypeInv
  <1>2. QED BY <1>1, TypeStep, PTL DEF Spec

\* Every variable keeps its type, and the tree obeys the kernel's rules.
THEOREM TypeCorrect == Spec => []TypeOK
  <1>1. TypeInv => TypeOK BY DEF TypeInv
  <1>2. QED BY <1>1, TypeInvariant, PTL

-----------------------------------------------------------------------------
(***************************************************************************)
(* The tree.                                                               *)
(***************************************************************************)

\* Induction on natural numbers, as the least counterexample.
LEMMA Least ==
  ASSUME NEW T \in SUBSET Nat, T # {}
  PROVE  \E x \in T : \A y \in T : x <= y
  <1>1. PICK x \in T : \A y \in T : <<y, x>> \notin OpToRel(<, Nat)
    BY WFMin, NatLessThanWellFounded, Zenon
  <1>2. \A y \in T : ~(y < x) BY <1>1, Zenon DEF OpToRel
  <1>3. QED BY <1>2

\* What is above a node, by the definition of Above.
LEMMA AboveDef == \A n \in Nodes : Above[n] = IF n = Root THEN {Root} ELSE {n} \cup Above[Parent[n]]
  <1> DEFINE Closed(S) == \A x \in S \ {Root} : Parent[x] \in S
             Anc(n) == {k \in Nodes : \A S \in SUBSET Nodes : n \in S /\ Closed(S) => k \in S}
             f == [n \in Nodes |-> Anc(n)]
  <1>1. ASSUME NEW n \in Nodes PROVE Anc(n) = IF n = Root THEN {Root} ELSE {n} \cup Anc(Parent[n])
    <2>1. CASE n = Root
      <3>1. {Root} \in SUBSET Nodes /\ Closed({Root}) BY TreeAssumption
      <3>2. Anc(n) \subseteq {Root} BY <2>1, <3>1
      <3>3. Root \in Anc(n) BY <2>1, TreeAssumption
      <3>4. QED BY <2>1, <3>2, <3>3
    <2>2. CASE n # Root
      <3>1. Parent[n] \in Nodes BY <2>2, TreeAssumption
      <3> DEFINE R == {n} \cup Anc(Parent[n])
      <3>2. Parent[n] \in Anc(Parent[n]) BY <3>1
      <3>3. Closed(Anc(Parent[n])) BY TreeAssumption
      <3>4. R \in SUBSET Nodes /\ Closed(R) BY <3>2, <3>3
      <3>5. Anc(n) \subseteq R BY <3>4
      <3>6. R \subseteq Anc(n) BY <2>2, <3>1
      <3>7. QED BY <2>2, <3>5, <3>6
    <2>3. QED BY <2>1, <2>2
  <1>2. \A n \in Nodes \ {Root} : Parent[n] \in Nodes BY TreeAssumption
  <1> HIDE DEF Anc
  <1>3. f = [n \in Nodes |-> IF n = Root THEN {Root} ELSE {n} \cup f[Parent[n]]] BY <1>1, <1>2
  <1>4. \E g : g = [n \in Nodes |-> IF n = Root THEN {Root} ELSE {n} \cup g[Parent[n]]] BY <1>3
  <1>5. Above = [n \in Nodes |-> IF n = Root THEN {Root} ELSE {n} \cup Above[Parent[n]]]
    BY <1>4 DEF Above
  <1>6. QED BY <1>5

\* A node outside threaded mode is its own domain; of another one it is its parent's.
LEMMA DomDef ==
  ASSUME threaded \subseteq Nodes \ {Root}
  PROVE  \A n \in Nodes : Dom[n] = IF n \in threaded THEN Dom[Parent[n]] ELSE n
  <1> DEFINE Closed(S) == \A x \in S \cap threaded : Parent[x] \in S
             Up(n) == {k \in Nodes : \A S \in SUBSET Nodes : n \in S /\ Closed(S) => k \in S}
             D(n) == CHOOSE k \in Nodes : k \in Up(n) \ threaded
             f == [n \in Nodes |-> IF n \in threaded THEN D(n) ELSE n]
  <1>1. ASSUME NEW n \in Nodes, n \notin threaded PROVE Up(n) = {n}
    <2>1. {n} \in SUBSET Nodes /\ Closed({n}) BY <1>1
    <2>2. Up(n) \subseteq {n} BY <2>1
    <2>3. n \in Up(n) OBVIOUS
    <2>4. QED BY <2>2, <2>3
  <1>2. ASSUME NEW n \in threaded PROVE Up(n) \ threaded = Up(Parent[n]) \ threaded
    <2>1. n \in Nodes \ {Root} /\ Parent[n] \in Nodes BY <1>2, TreeAssumption
    <2> DEFINE R == {n} \cup Up(Parent[n])
    <2>2. Parent[n] \in Up(Parent[n]) BY <2>1
    <2>3. \A x \in threaded : Parent[x] \in Nodes BY TreeAssumption
    <2>4. Closed(Up(Parent[n])) BY <2>3
    <2>5. R \in SUBSET Nodes /\ Closed(R) BY <2>1, <2>2, <2>4
    <2>6. Up(n) \subseteq R BY <2>1, <2>5
    <2>7. R \subseteq Up(n) BY <1>2, <2>1
    <2>8. QED BY <1>2, <2>6, <2>7
  <1> HIDE DEF Up
  <1>3. ASSUME NEW n \in threaded PROVE D(n) = f[Parent[n]]
    <2>1. Parent[n] \in Nodes BY TreeAssumption
    <2>2. CASE Parent[n] \in threaded
      <3>1. D(n) = D(Parent[n]) BY <1>2
      <3> HIDE DEF D
      <3>2. QED BY <2>1, <2>2, <3>1
    <2>3. CASE Parent[n] \notin threaded
      <3>1. Up(n) \ threaded = {Parent[n]} BY <1>1, <1>2, <2>1, <2>3
      <3>2. D(n) = Parent[n] BY <2>1, <3>1
      <3>3. QED BY <2>1, <2>3, <3>2
    <2>4. QED BY <2>2, <2>3
  <1> HIDE DEF D
  <1>4. f = [n \in Nodes |-> IF n \in threaded THEN f[Parent[n]] ELSE n] BY <1>3
  <1>5. \E g : g = [n \in Nodes |-> IF n \in threaded THEN g[Parent[n]] ELSE n] BY <1>4
  <1>6. Dom = [n \in Nodes |-> IF n \in threaded THEN Dom[Parent[n]] ELSE n]
    BY <1>5 DEF Dom
  <1>7. QED BY <1>6

\* Above a node of a path are the nodes before it.
LEMMA AbovePath ==
  ASSUME NEW c \in Clients, NEW i \in 0 .. Depth(c)
  PROVE  Above[Node(c, i)] \subseteq {Node(c, k) : k \in 0 .. i}
  <1> DEFINE Up(j) == {Node(c, k) : k \in 0 .. j}
             Bad == {j \in 0 .. Depth(c) : ~(Above[Node(c, j)] \subseteq Up(j))}
  <1>1. Depth(c) \in Nat BY PathType
  <1>2. SUFFICES ASSUME Bad # {} PROVE FALSE OBVIOUS
  <1>3. Bad \in SUBSET Nat BY <1>1
  <1>4. PICK j \in Bad : \A k \in Bad : j <= k BY <1>2, <1>3, Least
  <1>5. j # 0
    <2>1. Above[Root] = {Root} BY AboveDef, TreeAssumption
    <2>2. Node(c, 0) = Root BY DEF Node
    <2>3. Root \in Up(0) BY <2>2
    <2>4. QED BY <1>4, <2>1, <2>2, <2>3
  <1>6. j - 1 \in 0 .. Depth(c) /\ j \in 1 .. Depth(c) /\ ~(j <= j - 1) BY <1>1, <1>4, <1>5
  <1>7. Above[Node(c, j - 1)] \subseteq Up(j - 1) BY <1>4, <1>6
  <1>8. Node(c, j) \in Nodes \ {Root} /\ Parent[Node(c, j)] = Node(c, j - 1) BY <1>6, PathType
  <1>9. Above[Node(c, j)] = {Node(c, j)} \cup Above[Node(c, j - 1)] BY <1>8, AboveDef
  <1>10. Up(j - 1) \subseteq Up(j) /\ Node(c, j) \in Up(j) BY <1>6
  <1>11. Above[Node(c, j)] \subseteq Up(j) BY <1>7, <1>9, <1>10
  <1>12. QED BY <1>4, <1>11

-----------------------------------------------------------------------------
(***************************************************************************)
(* The controllers.                                                        *)
(***************************************************************************)

Inner(c) == {Path[c][k] : k \in 1 .. Depth(c) - 1}

\* No handle's leaf is above another's or shared with other controllers, tasks
\* are moved to the root only, and a cgroup becomes threaded below the root only,
\* unless its parent distributes controllers.
Arranged ==
  /\ \A c, d \in Clients : Leaf(c) \notin Inner(d)
  /\ \A c, d \in Clients : Leaf(c) = Leaf(d) => Want[c] = Want[d]
  /\ \A c \in Clients : "to_parent" \in Ops[c] => Parent[Leaf(c)] = Root
  /\ \A c \in Clients : "set_cgroup_type" \in Ops[c] => Parent[Leaf(c)] = Root \/ Want[c] # {}

\* A call is where its operation leads.
Asked ==
  \A c \in Clients :
    /\ m[c].pc = "parent" => "to_parent" \in Ops[c]
    /\ m[c].pc = "set_type" => "set_cgroup_type" \in Ops[c]

\* Tasks are not in the nodes above leaves, and nothing there is threaded.
Settled       == \A t \in Tasks, c \in Clients : loc[t] \notin Inner(c)
ThreadedAtTop == \A n \in threaded : Parent[n] = Root /\ \E c \in Clients : n = Leaf(c)

\* The nodes that a handle has been at distribute what it wants, and a leaf nothing.
Enabled(c) ==
  m[c].pc \in {"enable", "mkdir"} =>
    /\ \A k \in 0 .. m[c].i : Node(c, k) \in dirs
    /\ \A k \in 0 .. m[c].i - 1 : Want[c] \subseteq ctl[Node(c, k)]
    /\ m[c].left \subseteq Want[c] /\ Want[c] \ m[c].left \subseteq ctl[Node(c, m[c].i)]
    /\ m[c].pc = "mkdir" => m[c].left = {}

LeafBare == \A c \in Clients : ctl[Leaf(c)] = {}

ControlInv ==
  /\ Asked /\ Settled /\ ThreadedAtTop /\ LeafBare /\ LeafHasControllers
  /\ \A c \in Clients : Enabled(c)

\* The way of a call from label to label.
Edges == ({"exists"} \X {"attach", "type", "verify", "list"})
         \cup ({"verify", "enable"} \X {"enable", "mkdir"})
         \cup ({"mkdir"} \X {"enable", "mkdir", "attach", "type"})
         \cup {<<"type", "thread">>, <<"find_kill", "kill">>}
         \cup ({"list", "move"} \X {"move", "rmdir"})

Flow(c) == \/ m'[c].pc = "idle"
           \/ /\ m'[c].op = m[c].op /\ m'[c].arg = m[c].arg
              /\ <<m[c].pc, m'[c].pc>> \in Edges
           \/ /\ m[c].pc = "type" /\ m'[c].pc = "exists"
              /\ m'[c].op = "add_proc" /\ m'[c].arg = m[c].arg

LEMMA StepFlow ==
  ASSUME TypeInv, NEW c \in Clients, Step(c)
  PROVE  Flow(c) /\ \A d \in Clients \ {c} : m'[d] = m[d]
  <1>1. CallsOK BY TypeParts DEF TypeInv
  <1>b. \A r : Becomes(c, r) => m'[c] = r /\ \A d \in Clients \ {c} : m'[d] = m[d]
    BY <1>1 DEF CallsOK, Becomes
  <1>r. \A r : Return(c, r) => m'[c].pc = "idle" /\ \A d \in Clients \ {c} : m'[d] = m[d]
    BY <1>b DEF Return, Idle
  <1>g. \A l : Goto(c, l) => /\ m'[c].pc = l /\ m'[c].op = m[c].op /\ m'[c].arg = m[c].arg
                             /\ \A d \in Clients \ {c} : m'[d] = m[d]
    <2>1. \A l : [m[c] EXCEPT !.pc = l].pc = l /\ [m[c] EXCEPT !.pc = l].op = m[c].op
                 /\ [m[c] EXCEPT !.pc = l].arg = m[c].arg
      BY <1>1 DEF CallsOK, Call_
    <2>2. QED BY <1>b, <2>1 DEF Goto
  <1>c. Created(c) => /\ m'[c].pc \in {"attach", "type"}
                      /\ m'[c].op = m[c].op /\ m'[c].arg = m[c].arg
                      /\ \A d \in Clients \ {c} : m'[d] = m[d]
    <2>1. \A l : LET r == [m[c] EXCEPT !.i = 0, !.left = {}, !.pc = l]
                 IN  r.pc = l /\ r.op = m[c].op /\ r.arg = m[c].arg
      BY <1>1 DEF CallsOK, Call_
    <2>2. QED BY <1>b, <2>1 DEF Created
  <1>k. \A w, i, l : \/ Becomes(c, [m[c] EXCEPT !.i = i, !.left = w, !.pc = l])
                    \/ Becomes(c, [m[c] EXCEPT !.left = w, !.pc = l])
                    \/ Becomes(c, [m[c] EXCEPT !.todo = w, !.pc = l])
                    => /\ m'[c].pc = l /\ m'[c].op = m[c].op /\ m'[c].arg = m[c].arg
                       /\ \A d \in Clients \ {c} : m'[d] = m[d]
    <2> SUFFICES ASSUME NEW w, NEW i, NEW l,
                        NEW r, Becomes(c, r),
                        r \in {[m[c] EXCEPT !.i = i, !.left = w, !.pc = l],
                               [m[c] EXCEPT !.left = w, !.pc = l],
                               [m[c] EXCEPT !.todo = w, !.pc = l]}
                 PROVE  /\ m'[c].pc = l /\ m'[c].op = m[c].op /\ m'[c].arg = m[c].arg
                        /\ \A d \in Clients \ {c} : m'[d] = m[d]
      OBVIOUS
    <2>1. m'[c] = r /\ \A d \in Clients \ {c} : m'[d] = m[d] BY <1>b
    <2>2. r.pc = l /\ r.op = m[c].op /\ r.arg = m[c].arg
      <3>1. m[c] \in Call_ BY <1>1 DEF CallsOK
      <3>2. QED BY <3>1 DEF Call_
    <2>3. QED BY <2>1, <2>2
  <1>e. \A i : EnableAt(c, i) => /\ m'[c].pc \in {"enable", "mkdir"}
                                 /\ m'[c].op = m[c].op /\ m'[c].arg = m[c].arg
                                 /\ \A d \in Clients \ {c} : m'[d] = m[d]
    <2>1. SUFFICES ASSUME NEW i, EnableAt(c, i)
                   PROVE  /\ m'[c].pc \in {"enable", "mkdir"}
                          /\ m'[c].op = m[c].op /\ m'[c].arg = m[c].arg
                          /\ \A d \in Clients \ {c} : m'[d] = m[d]
      OBVIOUS
    <2>2. PICK l \in {"enable", "mkdir"} : Becomes(c, [m[c] EXCEPT !.i = i, !.left = Want[c], !.pc = l])
      BY ONLY <2>1 DEF EnableAt
    <2>3. /\ m'[c].pc = l /\ m'[c].op = m[c].op /\ m'[c].arg = m[c].arg
          /\ \A d \in Clients \ {c} : m'[d] = m[d]
      BY ONLY <1>k, <2>2, Zenon
    <2>4. QED BY ONLY <2>2, <2>3
  <1> USE DEF At, Flow
  <1>2. CASE Exists(c) BY <1>2, <1>r, <1>g, <1>c DEF Exists, Edges
  <1>3. CASE Verify(c) BY <1>3, <1>r, <1>e DEF Verify, Edges
  <1>4. CASE Enable(c)
    <2>1. PICK l \in {"enable", "mkdir"} : \E w : Becomes(c, [m[c] EXCEPT !.left = w, !.pc = l])
      BY <1>4 DEF Enable
    <2>2. QED BY <1>4, <1>k, <2>1 DEF Enable, Edges
  <1>5. CASE Mkdir(c) BY <1>5, <1>e, <1>c DEF Mkdir, Edges
  <1>6. CASE Attach(c) \/ AttachThread(c) \/ SetType(c) \/ ToParent(c) \/ Kill(c) \/ Rmdir(c)
             \/ MkdirFails(c)
    BY <1>6, <1>r DEF Attach, AttachThread, SetType, ToParent, Kill, Rmdir, MkdirFails
  <1>7. CASE Type(c)
    <2>1. LET r == [m[c] EXCEPT !.op = "add_proc", !.pc = "exists"]
          IN  r.pc = "exists" /\ r.op = "add_proc" /\ r.arg = m[c].arg
      BY <1>1 DEF CallsOK, Call_
    <2>2. QED BY <1>7, <1>r, <1>g, <1>b, <2>1 DEF Type, Edges
  <1>8. CASE List(c) \/ Move(c)
    <2>1. PICK l \in {"move", "rmdir"} : \E w : Becomes(c, [m[c] EXCEPT !.todo = w, !.pc = l])
      BY <1>8 DEF List, Move
    <2>2. QED BY <1>8, <1>k, <2>1 DEF List, Move, Edges
  <1>10. CASE FindKill(c) BY <1>10, <1>r, <1>g DEF FindKill, Edges
  <1>11. QED BY <1>2, <1>3, <1>4, <1>5, <1>6, <1>7, <1>8, <1>10 DEF Step

\* A call begins where its operation does.
LEMMA CallFlow ==
  ASSUME TypeInv, NEW c \in Clients, Call(c)
  PROVE  /\ UNCHANGED <<tree, loc, life>> /\ \A d \in Clients \ {c} : m'[d] = m[d]
         /\ m[c].pc = "idle" /\ m'[c].pc = Entry(m'[c].op)
         /\ m'[c].op \in Ops[c] /\ m'[c].op \in AllOps
         /\ Adding(c)' => life[m'[c].arg] # "unborn"
  <1>1. CallsOK BY TypeParts DEF TypeInv
  <1>2. PICK o \in Ops[c], t \in Tasks :
          /\ IF o \in {"add_proc", "add_thread", "to_parent"} THEN life[t] # "unborn" ELSE t = m[c].arg
          /\ Becomes(c, [m[c] EXCEPT !.op = o, !.arg = t, !.res = "none", !.pc = Entry(o)])
    BY DEF Call
  <1>3. LET r == [m[c] EXCEPT !.op = o, !.arg = t, !.res = "none", !.pc = Entry(o)]
        IN  r.op = o /\ r.arg = t /\ r.pc = Entry(o)
    BY <1>1 DEF CallsOK, Call_
  <1>4. m'[c].op = o /\ m'[c].arg = t /\ m'[c].pc = Entry(o) /\ \A d \in Clients \ {c} : m'[d] = m[d]
    BY <1>1, <1>2, <1>3 DEF CallsOK, Becomes
  <1>5. o \in AllOps BY EnvAssumption
  <1>6. QED BY <1>2, <1>4, <1>5 DEF Call, At, Adding

LEMMA AskedStep == TypeInv /\ Asked /\ [Next]_vars => Asked'
  <1> SUFFICES ASSUME TypeInv, Asked, [Next]_vars PROVE Asked' OBVIOUS
  <1>1. CASE UNCHANGED m BY <1>1 DEF Asked
  <1>2. ASSUME NEW c \in Clients, Call(c) PROVE Asked'
    <2>1. /\ m'[c].op \in Ops[c] /\ m'[c].pc = Entry(m'[c].op) /\ m'[c].op \in AllOps
          /\ \A d \in Clients \ {c} : m'[d] = m[d]
      BY <1>2, CallFlow
    <2>2. QED BY <2>1 DEF Asked, Entry, AllOps
  <1>3. ASSUME NEW c \in Clients, Step(c) PROVE Asked'
    <2>1. Flow(c) /\ \A d \in Clients \ {c} : m'[d] = m[d] BY <1>3, StepFlow
    <2>2. m'[c].pc \notin {"parent", "set_type"} BY <2>1 DEF Flow, Edges
    <2>3. QED BY <2>1, <2>2 DEF Asked
  <1>4. QED BY <1>1, <1>2, <1>3 DEF Next, Workload, Fork, Exit, Release, vars

\* What is on the way to a leaf is no leaf.
LEMMA NoLeaf ==
  ASSUME Arranged, NEW c \in Clients, NEW k \in 0 .. Depth(c) - 1
  PROVE  /\ Node(c, k) \in Nodes
         /\ k # 0 => Node(c, k) \in Inner(c) \ {Root}
         /\ \A d \in Clients : Node(c, k) # Leaf(d)
  <1>1. Depth(c) \in Nat \ {0} BY PathType
  <1>2. k \in 0 .. Depth(c) BY <1>1
  <1>3. CASE k = 0 BY <1>2, <1>3, PathType DEF Node
  <1>4. CASE k # 0
    <2>1. k \in 1 .. Depth(c) - 1 /\ k \in 1 .. Depth(c) BY <1>1, <1>4
    <2>2. Node(c, k) = Path[c][k] /\ Path[c][k] \in Nodes \ {Root} BY <2>1, PathType
    <2>3. QED BY <2>1, <2>2 DEF Inner, Arranged
  <1>5. QED BY <1>3, <1>4

\* The parent of a leaf is the last node on the way to it.
LEMMA LeafParent ==
  ASSUME NEW c \in Clients
  PROVE  Parent[Leaf(c)] = Node(c, Depth(c) - 1) /\ Depth(c) - 1 \in 0 .. Depth(c) - 1
         /\ Avail(Leaf(c)) = ctl[Parent[Leaf(c)]]
  <1>1. Depth(c) \in Nat \ {0} /\ Depth(c) \in 1 .. Depth(c) BY PathType
  <1>2. QED BY <1>1, PathType DEF Leaf, Avail

\* Only leaves are removed and stop to distribute.
LEMMA Grows ==
  ASSUME TypeInv, [Next]_vars, NEW n \in Nodes, \A d \in Clients : n # Leaf(d)
  PROVE  (n \in dirs => n \in dirs') /\ ctl[n] \subseteq ctl'[n]
  <1>1. TreeOK BY TypeParts DEF TypeInv
  <1>2. CASE UNCHANGED <<dirs, ctl>> BY <1>2
  <1>3. ASSUME NEW c \in Clients, Enable(c) PROVE dirs' = dirs /\ ctl[n] \subseteq ctl'[n]
    <2>1. PICK x \in m[c].left : ctl' = IF MayEnable(Node(c, m[c].i), x)
                                        THEN [ctl EXCEPT ![Node(c, m[c].i)] = @ \cup {x}] ELSE ctl
      BY <1>3 DEF Enable
    <2>2. QED BY <1>1, <1>3, <2>1 DEF Enable, TreeOK
  <1>4. ASSUME NEW c \in Clients, Mkdir(c) PROVE n \in dirs => n \in dirs' /\ ctl' = ctl
    BY <1>4 DEF Mkdir
  <1>5. ASSUME NEW c \in Clients, Rmdir(c) PROVE (n \in dirs => n \in dirs') /\ ctl[n] \subseteq ctl'[n]
    BY <1>1, <1>5 DEF Rmdir, TreeOK, tree
  <1>6. \/ \E c \in Clients : Enable(c) \/ Mkdir(c) \/ Rmdir(c)
        \/ UNCHANGED <<dirs, ctl>>
    BY DEF Next, Step, Call, Workload, Fork, Exit, Release, vars, tree, Exists, Verify, MkdirFails,
           Attach, Type, AttachThread, SetType, List, Move, FindKill, Kill, ToParent
  <1>7. QED BY <1>2, <1>3, <1>4, <1>5, <1>6 DEF Mkdir

\* What is below the root and on the way to a leaf is a domain like any other.
LEMMA Domains ==
  ASSUME TypeInv, Arranged, ControlInv, NEW c \in Clients, NEW i \in 0 .. Depth(c)
  PROVE  /\ \A n \in Nodes : ~ThreadRoot(n)
         /\ Node(c, i) \notin threaded => ValidDomain(Node(c, i))
  <1>1. TreeOK BY TypeParts DEF TypeInv
  <1>2. ASSUME NEW n \in Nodes PROVE ~ThreadRoot(n)
    <2>1. \A k \in threaded : Parent[k] = Root BY DEF ControlInv, ThreadedAtTop
    <2>2. QED BY <1>1, <2>1 DEF ThreadRoot, Children
  <1>3. ASSUME Node(c, i) \notin threaded,
               NEW a \in Above[Node(c, i)], a # Node(c, i), a # Root
        PROVE  a \notin threaded /\ ~ThreadRoot(a)
    <2>1. PICK k \in 0 .. i : a = Node(c, k) BY <1>3, AbovePath
    <2>2. k # i /\ Depth(c) \in Nat BY <1>3, <2>1, PathType
    <2>3. k \in 0 .. Depth(c) - 1 BY <2>1, <2>2
    <2>4. a \in Nodes /\ \A d \in Clients : a # Leaf(d) BY <2>1, <2>3, NoLeaf
    <2>5. a \notin threaded BY <2>4 DEF ControlInv, ThreadedAtTop
    <2>6. QED BY <1>2, <2>4, <2>5
  <1>4. QED BY <1>2, <1>3 DEF ValidDomain

\* No error of enabling a controller.
LEMMA EnableWorks ==
  ASSUME TypeInv, Arranged, ControlInv, NEW c \in Clients, At(c, "enable"), NEW x \in m[c].left
  PROVE  MayEnable(Node(c, m[c].i), x)
  <1> DEFINE i == m[c].i
             n == Node(c, i)
  <1>1. CallsOK /\ Verified /\ TreeOK BY TypeParts DEF TypeInv
  <1>2. i \in Nat /\ i < Depth(c) /\ Depth(c) \in Nat /\ m[c].left \subseteq Supported
    BY <1>1, PathType DEF CallsOK, Call_
  <1>3. i \in 0 .. Depth(c) - 1 /\ i \in 0 .. Depth(c) BY <1>2
  <1>4. Enabled(c) /\ m[c].pc = "enable" BY DEF ControlInv, At
  <1>5. n \in dirs BY <1>2, <1>4 DEF Enabled
  <1>6. x \in Supported BY <1>2
  <1>7. CASE i = 0
    <2>1. n = Root BY <1>7 DEF Node
    <2>2. QED BY <1>5, <1>6, <2>1 DEF MayEnable, Avail
  <1>8. CASE i # 0
    <2>1. n \in Nodes /\ n \in Inner(c) \ {Root} /\ \A d \in Clients : n # Leaf(d)
      BY <1>3, <1>8, NoLeaf
    <2>2. i \in 1 .. Depth(c) /\ i - 1 \in 0 .. i - 1 BY <1>2, <1>8
    <2>3. n = Path[c][i] /\ Parent[n] = Node(c, i - 1) BY <2>2, PathType
    <2>4. x \in Avail(n) BY <1>4, <2>1, <2>2, <2>3 DEF Enabled, Avail
    <2>5. ~HasTasks(n) BY <2>1 DEF ControlInv, Settled, HasTasks
    <2>6. n \notin threaded BY <2>1 DEF ControlInv, ThreadedAtTop
    <2>7. ValidDomain(n) /\ ~ThreadRoot(n) BY <1>3, <2>1, <2>6, Domains
    <2>8. QED BY <1>5, <2>4, <2>5, <2>7 DEF MayEnable
  <1>9. QED BY <1>7, <1>8

\* Tasks stay out of the nodes above leaves.
LEMMA SettledStep == TypeInv /\ Arranged /\ ControlInv /\ [Next]_vars => Settled'
  <1> SUFFICES ASSUME TypeInv, Arranged, ControlInv, [Next]_vars PROVE Settled' OBVIOUS
  <1>1. TasksOK BY TypeParts DEF TypeInv
  <1>2. \A d \in Clients : Root \notin Inner(d) BY PathType DEF Inner
  <1>3. \A c, d \in Clients : Leaf(c) \notin Inner(d) BY DEF Arranged
  <1>4. Settled BY DEF ControlInv
  <1>m. ASSUME NEW who, NEW n, loc' = Moved(who, n), \A d \in Clients : n \notin Inner(d)
        PROVE  Settled'
    BY <1>1, <1>4, <1>m DEF Settled, Moved
  <1>5. CASE UNCHANGED loc BY <1>4, <1>5 DEF Settled
  <1>6. ASSUME NEW c \in Clients, Step(c) PROVE Settled'
    <2>1. CASE Attach(c) BY <1>3, <1>5, <1>m, <2>1 DEF Attach
    <2>2. CASE AttachThread(c) BY <1>3, <1>5, <1>m, <2>2 DEF AttachThread
    <2>3. CASE ToParent(c)
      <3>1. Parent[Leaf(c)] = Root BY <2>3 DEF ToParent, At, ControlInv, Asked, Arranged
      <3>2. QED BY <1>2, <1>5, <1>m, <2>3, <3>1 DEF ToParent
    <2>4. CASE Move(c) BY <1>2, <1>5, <1>m, <2>4 DEF Move
    <2>5. CASE UNCHANGED loc BY <1>5, <2>5
    <2>6. QED
      BY <1>6, <2>1, <2>2, <2>3, <2>4, <2>5
         DEF Step, Exists, Verify, Enable, Mkdir, MkdirFails, Type, SetType, List, Rmdir, FindKill, Kill
  <1>7. ASSUME NEW t \in Tasks, NEW u \in Tasks, Fork(t, u) PROVE Settled'
    BY <1>1, <1>4, <1>7 DEF Fork, Settled, TasksOK
  <1>8. ASSUME NEW t \in Tasks, Release(t) PROVE Settled'
    BY <1>1, <1>2, <1>4, <1>8 DEF Release, Settled, TasksOK
  <1>9. QED BY <1>5, <1>6, <1>7, <1>8 DEF Next, Call, Workload, Exit, vars

\* A cgroup whose parent distributes controllers cannot become threaded.
LEMMA ThreadedStep == TypeInv /\ Arranged /\ ControlInv /\ [Next]_vars => ThreadedAtTop'
  <1> SUFFICES ASSUME TypeInv, Arranged, ControlInv, [Next]_vars PROVE ThreadedAtTop' OBVIOUS
  <1>1. TreeOK BY TypeParts DEF TypeInv
  <1>2. ThreadedAtTop BY DEF ControlInv
  <1>3. CASE threaded' \subseteq threaded BY <1>2, <1>3 DEF ThreadedAtTop
  <1>4. ASSUME NEW c \in Clients, SetType(c), MayThread(Leaf(c)), Leaf(c) \notin threaded
        PROVE  Parent[Leaf(c)] = Root
    <2> DEFINE p == Parent[Leaf(c)]
    <2>1. SUFFICES ASSUME p # Root PROVE FALSE OBVIOUS
    <2>2. Want[c] # {} BY <1>4, <2>1 DEF SetType, At, ControlInv, Asked, Arranged
    <2>3. p = Node(c, Depth(c) - 1) /\ Avail(Leaf(c)) = ctl[p] /\ Depth(c) - 1 \in 0 .. Depth(c) - 1
      BY LeafParent
    <2>4. Leaf(c) \in dirs BY <1>4 DEF MayThread
    <2>5. ctl[p] # {} BY <2>2, <2>3, <2>4 DEF ControlInv, LeafHasControllers
    <2>6. p \in Nodes /\ \A d \in Clients : p # Leaf(d) BY <2>3, NoLeaf
    <2>7. p \notin threaded BY <1>2, <2>6 DEF ThreadedAtTop
    <2>8. threaded \subseteq Nodes \ {Root} BY <1>1 DEF TreeOK
    <2>9. Dom[p] = p BY <2>6, <2>7, <2>8, DomDef
    <2>10. CanBeThreadRoot(p) BY <1>4, <2>9 DEF MayThread
    <2>11. QED BY <2>1, <2>5, <2>10 DEF CanBeThreadRoot
  <1>5. ASSUME NEW c \in Clients, SetType(c) PROVE ThreadedAtTop'
    <2>1. (threaded' = threaded \cup {Leaf(c)} /\ MayThread(Leaf(c))) \/ UNCHANGED threaded
      BY <1>5 DEF SetType
    <2>2. QED BY <1>2, <1>3, <1>4, <1>5, <2>1 DEF ThreadedAtTop
  <1>6. \/ \E c \in Clients : SetType(c)
        \/ threaded' \subseteq threaded
    BY DEF Next, Step, Call, Workload, Fork, Exit, Release, vars, tree, Exists, Verify, Enable,
           Mkdir, MkdirFails, Attach, Type, AttachThread, List, Move, Rmdir, FindKill, Kill, ToParent
  <1>7. QED BY <1>3, <1>5, <1>6

\* Nothing is enabled in a leaf.
LEMMA BareStep == TypeInv /\ Arranged /\ ControlInv /\ [Next]_vars => LeafBare'
  <1> SUFFICES ASSUME TypeInv, Arranged, ControlInv, [Next]_vars PROVE LeafBare' OBVIOUS
  <1>1. TreeOK /\ CallsOK BY TypeParts DEF TypeInv
  <1>2. LeafBare BY DEF ControlInv
  <1>3. CASE UNCHANGED ctl BY <1>2, <1>3 DEF LeafBare
  <1>4. ASSUME NEW c \in Clients, Enable(c) PROVE LeafBare'
    <2> DEFINE n == Node(c, m[c].i)
    <2>1. m[c].i \in 0 .. Depth(c) - 1 BY <1>1, PathType DEF CallsOK, Call_
    <2>2. n \in Nodes /\ \A d \in Clients : n # Leaf(d) BY <2>1, NoLeaf
    <2>3. PICK x : ctl' = IF MayEnable(n, x) THEN [ctl EXCEPT ![n] = @ \cup {x}] ELSE ctl
      BY <1>4 DEF Enable
    <2> HIDE DEF n
    <2>4. QED BY <1>1, <1>2, <2>2, <2>3 DEF LeafBare, TreeOK
  <1>5. ASSUME NEW c \in Clients, Rmdir(c) PROVE LeafBare'
    <2>1. Leaf(c) \in Nodes /\ \A d \in Clients : Leaf(d) \in Nodes BY PathType
    <2>2. QED BY <1>1, <1>2, <1>5, <2>1 DEF Rmdir, LeafBare, TreeOK, tree
  <1>6. \/ \E c \in Clients : Enable(c) \/ Rmdir(c)
        \/ UNCHANGED ctl
    BY DEF Next, Step, Call, Workload, Fork, Exit, Release, vars, tree, Exists, Verify, Mkdir,
           MkdirFails, Attach, Type, AttachThread, SetType, List, Move, FindKill, Kill, ToParent
  <1>7. QED BY <1>3, <1>4, <1>5, <1>6

\* A handle keeps what it has enabled and goes on.
LEMMA EnabledStep ==
  TypeInv /\ Arranged /\ ControlInv /\ [Next]_vars => \A c \in Clients : Enabled(c)'
  <1> SUFFICES ASSUME TypeInv, Arranged, ControlInv, [Next]_vars, NEW c \in Clients
               PROVE  Enabled(c)'
    OBVIOUS
  <1>1. CallsOK /\ TreeOK /\ Verified BY TypeParts DEF TypeInv
  <1>2. \A k \in 0 .. Depth(c) - 1 : /\ Node(c, k) \in Nodes
                                     /\ Node(c, k) \in dirs => Node(c, k) \in dirs'
                                     /\ ctl[Node(c, k)] \subseteq ctl'[Node(c, k)]
    BY NoLeaf, Grows
  <1>3. m[c].i \in 0 .. Depth(c) - 1 /\ Depth(c) \in Nat \ {0}
        /\ \A k \in 0 .. m[c].i : k \in 0 .. Depth(c) - 1
    BY <1>1, PathType DEF CallsOK, Call_
  <1>4. Enabled(c) BY DEF ControlInv
  <1>r. ASSUME Return(c, "err") PROVE m'[c].pc = "idle"
    <2>1. m'[c] = Idle("err") BY <1>1, <1>r, ReturnType
    <2>2. QED BY <2>1 DEF Idle
  <1>5. CASE m'[c] = m[c] BY <1>2, <1>3, <1>4, <1>5 DEF Enabled
  <1>6. CASE m'[c].pc \notin {"enable", "mkdir"} BY <1>6 DEF Enabled
  \* The i-th node comes next.
  <1>a. ASSUME NEW i \in 0 .. Depth(c) - 1, EnableAt(c, i), Want[c] \subseteq Supported,
               \A k \in 0 .. i : Node(c, k) \in dirs',
               \A k \in 0 .. i - 1 : Want[c] \subseteq ctl'[Node(c, k)]
        PROVE  Enabled(c)'
    <2>1. i \in Nat /\ i < Depth(c) BY <1>3
    <2>2. /\ m'[c].i = i /\ m'[c].left = Want[c] /\ (m'[c].pc = "mkdir" => Want[c] = {})
      BY <1>1, <1>a, <2>1, EnableAtType
    <2>3. QED BY <1>a, <2>2 DEF Enabled
  <1>7. CASE Verify(c)
    <2>1. CASE Return(c, "err")
      <3>1. m'[c].pc = "idle" BY <1>r, <2>1
      <3>2. QED BY <3>1, <1>6
    <2>2. CASE EnableAt(c, 0) /\ Want[c] \subseteq Supported
      <3>1. Node(c, 0) \in dirs' BY <1>1, <1>7 DEF Verify, tree, Node, TreeOK
      <3>2. 0 \in 0 .. Depth(c) - 1 BY <1>3
      <3>3. \A k \in 0 .. 0 : k = 0 OBVIOUS
      <3>4. \A k \in 0 .. 0 - 1 : FALSE OBVIOUS
      <3>5. QED BY <1>a, <2>2, <3>1, <3>2, <3>3, <3>4
    <2>3. QED BY <1>7, <2>1, <2>2 DEF Verify
  <1>8. CASE Enable(c)
    <2> DEFINE n == Node(c, m[c].i)
    <2>1. PICK x \in m[c].left :
            /\ ctl' = IF MayEnable(n, x) THEN [ctl EXCEPT ![n] = @ \cup {x}] ELSE ctl
            /\ Becomes(c, [m[c] EXCEPT !.left = @ \ {x},
                             !.pc = IF m[c].left = {x} THEN "mkdir" ELSE "enable"])
      BY <1>8 DEF Enable
    <2>2. MayEnable(n, x) BY <1>8, <2>1, EnableWorks DEF Enable
    <2>3. x \in ctl'[n] /\ ctl[n] \subseteq ctl'[n] BY <1>1, <1>2, <1>3, <2>1, <2>2 DEF TreeOK
    <2>4. /\ m'[c].left = m[c].left \ {x} /\ m'[c].i = m[c].i
          /\ m'[c].pc = IF m[c].left = {x} THEN "mkdir" ELSE "enable"
      BY <1>1, <2>1 DEF CallsOK, Call_, Becomes
    <2>5. m'[c].pc = "mkdir" => m'[c].left = {} BY <2>4
    <2>6. /\ \A k \in 0 .. m[c].i : Node(c, k) \in dirs'
          /\ \A k \in 0 .. m[c].i - 1 : Want[c] \subseteq ctl'[Node(c, k)]
      <3>1. \A k \in 0 .. m[c].i - 1 : k \in 0 .. Depth(c) - 1 BY <1>3
      <3>2. QED BY <1>2, <1>3, <1>4, <1>8, <3>1 DEF Enabled, Enable, At
    <2>7. m'[c].left \subseteq Want[c] /\ Want[c] \ m'[c].left \subseteq ctl'[n]
      BY <1>4, <1>8, <2>3, <2>4 DEF Enabled, Enable, At
    <2>8. QED BY <2>4, <2>5, <2>6, <2>7 DEF Enabled
  <1>9. CASE Mkdir(c)
    <2> DEFINE i == m[c].i + 1
    <2>1. CASE i < Depth(c)
      <3>1. EnableAt(c, i) /\ dirs' = dirs \cup {Path[c][k] : k \in 1 .. i} /\ ctl' = ctl
        BY <1>9, <2>1 DEF Mkdir
      <3>2. i \in 0 .. Depth(c) - 1 /\ Want[c] \subseteq Supported
        BY <1>1, <1>3, <1>9, <2>1 DEF Mkdir, At, Verified
      <3>3. ASSUME NEW k \in 0 .. i PROVE Node(c, k) \in dirs'
        <4>1. CASE k = 0 BY <1>1, <3>1, <4>1 DEF Node, TreeOK
        <4>2. CASE k # 0
          <5>1. k \in 1 .. i BY <1>3, <4>2
          <5>2. Node(c, k) = Path[c][k] BY <4>2 DEF Node
          <5>3. QED BY <3>1, <5>1, <5>2
        <4>3. QED BY <4>1, <4>2
      <3>4. ASSUME NEW k \in 0 .. i - 1 PROVE Want[c] \subseteq ctl'[Node(c, k)]
        <4>1. k \in 0 .. m[c].i - 1 \/ k = m[c].i BY <1>3
        <4>2. QED BY <1>4, <1>9, <3>1, <4>1 DEF Enabled, Mkdir, At
      <3> HIDE DEF i
      <3>5. QED BY <1>a, <3>1, <3>2, <3>3, <3>4
    <2>2. CASE ~(i < Depth(c))
      <3>1. Created(c) BY <1>9, <2>2 DEF Mkdir
      <3>2. m'[c].pc \in {"attach", "type"} BY <1>1, <3>1, CreatedType
      <3>3. QED BY <1>6, <3>2
    <2>3. QED BY <2>1, <2>2
  <1>10. ASSUME NEW d \in Clients, Step(d) PROVE Enabled(c)'
    <2>1. CASE d # c
      <3>1. m'[c] = m[c] BY <1>10, <2>1, StepFlow
      <3>2. QED BY <1>5, <3>1
    <2>2. CASE d = c /\ (Verify(c) \/ Enable(c) \/ Mkdir(c)) BY <1>7, <1>8, <1>9, <2>2
    <2>3. CASE d = c /\ ~(Verify(c) \/ Enable(c) \/ Mkdir(c))
      <3>1. Flow(c) BY <1>10, <2>3, StepFlow
      <3>2. m[c].pc \notin {"verify", "enable", "mkdir"} \/ MkdirFails(c)
        BY <1>10, <2>3 DEF Step, Exists, MkdirFails, Attach, Type, AttachThread, SetType, List,
           Move, Rmdir, FindKill, Kill, ToParent, At
      <3>3. CASE MkdirFails(c)
        <4>1. m'[c].pc = "idle" BY <1>r, <3>3 DEF MkdirFails
        <4>2. QED BY <4>1, <1>6
      <3>4. CASE ~MkdirFails(c)
        <4>1. m'[c].pc \notin {"enable", "mkdir"} BY <3>1, <3>2, <3>4 DEF Flow, Edges
        <4>2. QED BY <4>1, <1>6
      <3>5. QED BY <3>3, <3>4
    <2>4. QED BY <2>1, <2>2, <2>3
  <1>11. ASSUME NEW d \in Clients, Call(d) PROVE Enabled(c)'
    <2>1. /\ m'[d].pc = Entry(m'[d].op) /\ m'[d].op \in AllOps
          /\ \A e \in Clients \ {d} : m'[e] = m[e]
      BY <1>11, CallFlow
    <2>2. m'[d].pc \notin {"enable", "mkdir"} BY <2>1 DEF Entry, AllOps
    <2>3. QED BY <1>5, <1>6, <2>1, <2>2
  <1>12. CASE UNCHANGED m BY <1>5, <1>12
  <1>13. QED BY <1>10, <1>11, <1>12 DEF Next, Workload, Fork, Exit, Release, vars

\* A leaf appears only when the nodes above it distribute what its handle wants.
LEMMA LeafStep == TypeInv /\ Arranged /\ ControlInv /\ [Next]_vars => LeafHasControllers'
  <1> SUFFICES ASSUME TypeInv, Arranged, ControlInv, [Next]_vars,
                      NEW d \in Clients, Leaf(d) \in dirs'
               PROVE  Want[d] \subseteq Avail(Leaf(d))'
    BY DEF LeafHasControllers
  <1> DEFINE p == Parent[Leaf(d)]
  <1>1. CallsOK BY TypeParts DEF TypeInv
  <1>2. Avail(Leaf(d)) = ctl[p] /\ Avail(Leaf(d))' = ctl'[p]
    BY PathType DEF Avail
  <1>3. p = Node(d, Depth(d) - 1) /\ Depth(d) - 1 \in 0 .. Depth(d) - 1 BY LeafParent
  <1>4. p \in Nodes /\ \A c \in Clients : p # Leaf(c) BY <1>3, NoLeaf
  <1>5. ctl[p] \subseteq ctl'[p] BY <1>4, Grows
  <1>6. CASE Leaf(d) \in dirs
    <2>1. Want[d] \subseteq ctl[p] BY <1>2, <1>6 DEF ControlInv, LeafHasControllers
    <2>2. QED BY <1>2, <1>5, <2>1
  <1>7. CASE Leaf(d) \notin dirs
    <2>1. PICK c \in Clients : Mkdir(c)
      BY <1>7 DEF Next, Step, Call, Workload, Fork, Exit, Release, vars, tree, Exists, Verify,
         Enable, MkdirFails, Attach, Type, AttachThread, SetType, List, Move, Rmdir, FindKill,
         Kill, ToParent
    <2> DEFINE i == m[c].i + 1
    <2>2. m[c].i \in Nat /\ m[c].i < Depth(c) /\ Depth(c) \in Nat
      BY <1>1, PathType DEF CallsOK, Call_
    <2>3. PICK k \in 1 .. i : Leaf(d) = Path[c][k] BY <1>7, <2>1 DEF Mkdir
    <2>4. k = Depth(c)
      <3>1. SUFFICES ASSUME k # Depth(c) PROVE FALSE OBVIOUS
      <3>2. k \in 1 .. Depth(c) - 1 BY <2>2, <2>3, <3>1
      <3>3. QED BY <2>3, <3>2 DEF Inner, Arranged
    <2>5. m[c].i = Depth(c) - 1 BY <2>2, <2>3, <2>4
    <2>6. Leaf(c) = Leaf(d) /\ Want[c] = Want[d]
      <3>1. Leaf(c) = Leaf(d) BY <2>3, <2>4 DEF Leaf
      <3>2. QED BY <3>1 DEF Arranged
    <2>7. p = Node(c, m[c].i) BY <2>5, <2>6, LeafParent
    <2>8. Want[c] \subseteq ctl[p] BY <2>1, <2>7 DEF Mkdir, At, ControlInv, Enabled
    <2>9. QED BY <1>2, <1>5, <2>6, <2>8
  <1>8. QED BY <1>6, <1>7

LEMMA ControlStep == Arranged /\ TypeInv /\ ControlInv /\ [Next]_vars => ControlInv'
  BY AskedStep, SettledStep, ThreadedStep, BareStep, EnabledStep, LeafStep DEF ControlInv

LEMMA ControlInvariant == ASSUME Arranged PROVE Spec => []ControlInv
  <1>1. Init => ControlInv
    <2> SUFFICES ASSUME Init PROVE ControlInv OBVIOUS
    <2>1. \A c \in Clients : m[c].pc = "idle" BY DEF Init, Idle
    <2>2. \A c \in Clients : Leaf(c) \in Nodes \ {Root} BY PathType
    <2>3. Settled BY PathType DEF Init, Settled, Inner
    <2>4. ThreadedAtTop BY DEF Init, ThreadedAtTop
    <2>5. LeafBare /\ LeafHasControllers BY <2>2 DEF Init, LeafBare, LeafHasControllers
    <2>6. Asked /\ \A c \in Clients : Enabled(c) BY <2>1 DEF Asked, Enabled
    <2>7. QED BY <2>3, <2>4, <2>5, <2>6 DEF ControlInv
  <1>2. TypeInv /\ ControlInv /\ [Next]_vars => ControlInv' BY ControlStep
  <1>3. QED BY <1>1, <1>2, TypeInvariant, PTL DEF Spec

\* A leaf that exists has its handle's controllers, though every error of
\* enabling one is ignored.
THEOREM LeavesHaveControllers == Arranged /\ Spec => []LeafHasControllers
  <1> SUFFICES ASSUME Arranged PROVE Spec => []LeafHasControllers OBVIOUS
  <1>1. ControlInv => LeafHasControllers BY DEF ControlInv
  <1>2. QED BY <1>1, ControlInvariant, PTL

-----------------------------------------------------------------------------
(***************************************************************************)
(* Adding and destroying.                                                  *)
(***************************************************************************)

\* Every handle has a leaf of its own, and controllers that there are.
Own == /\ \A c, d \in Clients : Leaf(c) = Leaf(d) => c = d
       /\ \A c \in Clients : Want[c] \subseteq Supported

AddPath     == {"verify", "enable", "mkdir", "attach", "type", "thread"}
DestroyPath == {"list", "move", "rmdir"}

\* An operation that adds finds its leaf and a task that has been born.
AddOf(c) ==
  /\ m[c].pc \in AddPath => Adding(c)
  /\ m[c].pc = "exists" => Adding(c) \/ m[c].op = "destroy"
  /\ m[c].pc \in DestroyPath => m[c].op = "destroy"
  /\ m[c].pc \in {"find_kill", "kill"} => m[c].op = "kill"
  /\ m[c].pc = "set_type" => m[c].op = "set_cgroup_type"
  /\ m[c].pc = "parent" => m[c].op = "to_parent"
  /\ m[c].pc # "idle" /\ Adding(c) => life[m[c].arg] # "unborn"
  /\ m[c].pc \in {"attach", "type", "thread"} => Leaf(c) \in dirs
  /\ m[c].pc = "thread" => Leaf(c) \in threaded

AddInv == \A c \in Clients : AddOf(c)

\* What the listing found is what is left to move.
Listed(c) == \A t \in Alive0 : life[t] = "alive" /\ loc[t] = Leaf(c) => Tgid[t] \in m[c].todo

ListInv == /\ \A t \in Alive0 : life[t] # "unborn"
           /\ \A c \in Clients : m[c].pc = "move" => Listed(c)

\* Who has been born stays so.
LEMMA BornStep ==
  TypeInv /\ [Next]_vars => \A t \in Tasks : life[t] # "unborn" => life'[t] # "unborn"
  <1> SUFFICES ASSUME TypeInv, [Next]_vars, NEW t \in Tasks, life[t] # "unborn" PROVE life'[t] # "unborn"
    OBVIOUS
  <1>1. ASSUME NEW c \in Clients, Kill(c) PROVE life'[t] # "unborn"
    <2>1. \/ UNCHANGED life
          \/ \E hit : life' = [u \in Tasks |-> IF u \in hit /\ life[u] = "alive" THEN "exiting" ELSE life[u]]
      BY <1>1 DEF Kill
    <2>2. QED BY <2>1
  <1>2. CASE Workload BY <1>2 DEF Workload, Fork, Exit, Release, TypeInv, TypeOK
  <1>3. CASE UNCHANGED life BY <1>3
  <1>4. QED
    BY <1>1, <1>2, <1>3 DEF Next, Step, Call, vars, Exists, Verify, Enable, Mkdir, MkdirFails, Attach,
       Type, AttachThread, SetType, List, Move, Rmdir, FindKill, ToParent

\* A handle's leaf stays, and stays threaded, until the handle removes it.
LEMMA OwnLeaf ==
  ASSUME TypeInv, Own, [Next]_vars, NEW c \in Clients, m[c].pc # "rmdir"
  PROVE  (Leaf(c) \in dirs => Leaf(c) \in dirs') /\ (Leaf(c) \in threaded => Leaf(c) \in threaded')
  <1>1. CASE UNCHANGED <<dirs, threaded>> BY <1>1
  <1>2. ASSUME NEW d \in Clients, Mkdir(d) PROVE Leaf(c) \in dirs => Leaf(c) \in dirs'
    BY <1>2 DEF Mkdir
  <1>3. ASSUME NEW d \in Clients, SetType(d)
        PROVE  dirs' = dirs /\ (Leaf(c) \in threaded => Leaf(c) \in threaded')
    BY <1>3 DEF SetType
  <1>4. ASSUME NEW d \in Clients, Rmdir(d)
        PROVE  (Leaf(c) \in dirs => Leaf(c) \in dirs') /\ (Leaf(c) \in threaded => Leaf(c) \in threaded')
    <2>1. Leaf(d) # Leaf(c) BY <1>4 DEF Rmdir, At, Own
    <2>2. QED BY <1>4, <2>1 DEF Rmdir, tree
  <1>5. \/ \E d \in Clients : Mkdir(d) \/ SetType(d) \/ Rmdir(d)
        \/ UNCHANGED <<dirs, threaded>>
    BY DEF Next, Step, Call, Workload, Fork, Exit, Release, vars, tree, Exists, Verify, Enable,
           MkdirFails, Attach, Type, AttachThread, List, Move, FindKill, Kill, ToParent
  <1>6. QED BY <1>1, <1>2, <1>3, <1>4, <1>5 DEF Mkdir

LEMMA AddStep == TypeInv /\ Arranged /\ Own /\ ControlInv /\ AddInv /\ [Next]_vars => AddInv'
  <1> SUFFICES ASSUME TypeInv, Arranged, Own, ControlInv, AddInv, [Next]_vars, NEW c \in Clients
               PROVE  AddOf(c)'
    BY DEF AddInv
  <1>1. CallsOK BY TypeParts DEF TypeInv
  <1>2. AddOf(c) /\ m[c].arg \in Tasks BY <1>1 DEF AddInv, CallsOK, Call_
  <1>3. life[m[c].arg] # "unborn" => life'[m[c].arg] # "unborn" BY <1>2, BornStep
  <1>r. \A r : Return(c, r) => m'[c].pc = "idle" BY <1>1 DEF CallsOK, Return, Becomes, Idle
  <1>g. \A l : Goto(c, l) => m'[c].pc = l BY <1>1 DEF CallsOK, Call_, Goto, Becomes
  <1>4. CASE m'[c] = m[c]
    <2>1. m[c].pc # "rmdir" =>
            (Leaf(c) \in dirs => Leaf(c) \in dirs') /\ (Leaf(c) \in threaded => Leaf(c) \in threaded')
      BY OwnLeaf
    <2>2. QED BY <1>2, <1>3, <1>4, <2>1 DEF AddOf, Adding, AddPath, DestroyPath
  <1>5. CASE Call(c)
    <2>1. /\ m'[c].pc = Entry(m'[c].op) /\ m'[c].op \in AllOps
          /\ Adding(c)' => life[m'[c].arg] # "unborn" /\ life' = life
      BY <1>5, CallFlow
    <2>2. QED BY <2>1 DEF AddOf, Adding, AddPath, DestroyPath, Entry, AllOps
  <1>6. CASE Step(c)
    <2>1. Flow(c) BY <1>6, StepFlow
    <2>2. CASE m'[c].pc = "idle" BY <2>2 DEF AddOf, AddPath, DestroyPath
    <2>3. CASE m[c].pc = "type" /\ m'[c].pc = "exists" /\ m'[c].op = "add_proc" /\ m'[c].arg = m[c].arg
      BY <1>2, <1>3, <2>3 DEF AddOf, Adding, AddPath, DestroyPath
    <2>4. CASE /\ m'[c].op = m[c].op /\ m'[c].arg = m[c].arg
               /\ <<m[c].pc, m'[c].pc>> \in Edges
      <3>1. m[c].pc # "rmdir" BY <2>4 DEF Edges
      <3>2. (Leaf(c) \in dirs => Leaf(c) \in dirs') /\ (Leaf(c) \in threaded => Leaf(c) \in threaded')
        BY <3>1, OwnLeaf
      <3>3. CASE Exists(c)
        <4>1. dirs' = dirs BY <3>3 DEF Exists, tree
        <4>2. CASE Adding(c) /\ Leaf(c) \in dirs /\ Created(c)
          <5>1. m'[c].pc \in {"attach", "type"} BY <1>1, <4>2, CreatedType
          <5>2. Adding(c)' BY <2>4, <4>2 DEF Adding
          <5>3. life'[m'[c].arg] # "unborn" BY <1>2, <1>3, <2>4, <3>3, <4>2 DEF AddOf, Exists, At
          <5>4. QED BY <4>1, <4>2, <5>1, <5>2, <5>3 DEF AddOf, AddPath, DestroyPath
        <4>3. CASE Adding(c) /\ Goto(c, "verify")
          <5>1. m'[c].pc = "verify" BY <1>g, <4>3
          <5>2. Adding(c)' BY <2>4, <4>3 DEF Adding
          <5>3. life'[m'[c].arg] # "unborn" BY <1>2, <1>3, <2>4, <3>3, <4>3 DEF AddOf, Exists, At
          <5>4. QED BY <5>1, <5>2, <5>3 DEF AddOf, AddPath, DestroyPath
        <4>4. CASE ~Adding(c)
          <5>1. m[c].op = "destroy" BY <1>2, <3>3, <4>4 DEF AddOf, Exists, At
          <5>2. m'[c].pc \in {"list", "idle"} BY <1>r, <1>g, <3>3, <4>4 DEF Exists
          <5>3. QED BY <2>4, <5>1, <5>2 DEF AddOf, Adding, AddPath, DestroyPath
        <4>5. QED BY <3>3, <4>2, <4>3, <4>4 DEF Exists
      <3>4. CASE Mkdir(c)
        <4>1. Adding(c)' /\ life'[m'[c].arg] # "unborn"
          BY <1>2, <1>3, <2>4, <3>4 DEF AddOf, Mkdir, At, AddPath, Adding
        <4>2. m'[c].pc \in {"enable", "mkdir", "attach", "type"} BY <2>4, <3>4 DEF Mkdir, At, Edges
        <4>3. m'[c].pc \in {"attach", "type"} => Leaf(c) \in dirs'
          <5> DEFINE i == m[c].i + 1
          <5>1. m[c].i \in Nat /\ m[c].i < Depth(c) /\ Depth(c) \in Nat
            BY <1>1, PathType DEF CallsOK, Call_
          <5>2. CASE i < Depth(c)
            <6>1. EnableAt(c, i) /\ i \in Nat /\ Want[c] \subseteq Supported
              BY <3>4, <5>1, <5>2 DEF Mkdir, Own
            <6>2. m'[c].pc \in {"enable", "mkdir"} BY <1>1, <5>2, <6>1, EnableAtType
            <6>3. QED BY <6>2
          <5>3. CASE ~(i < Depth(c))
            <6>1. Depth(c) \in 1 .. i BY <5>1, <5>3
            <6>2. QED BY <3>4, <6>1 DEF Mkdir, Leaf
          <5>4. QED BY <5>2, <5>3
        <4>4. QED BY <4>1, <4>2, <4>3 DEF AddOf, AddPath, DestroyPath
      <3>5. CASE Type(c)
        <4>1. Leaf(c) \in dirs /\ m'[c].pc = "thread"
          BY <1>2, <2>4, <3>5 DEF AddOf, Type, At, Edges
        <4>2. ~ThreadRoot(Leaf(c))
          <5>1. 0 \in 0 .. Depth(c) /\ Leaf(c) \in Nodes BY PathType
          <5>2. QED BY <5>1, Domains
        <4>3. Leaf(c) \in threaded
          <5>1. LET r == [m[c] EXCEPT !.op = "add_proc", !.pc = "exists"] IN r.pc = "exists"
            BY <1>1 DEF CallsOK, Call_
          <5>2. CASE Becomes(c, [m[c] EXCEPT !.op = "add_proc", !.pc = "exists"])
            <6>1. m'[c].pc = "exists" BY <1>1, <5>1, <5>2 DEF CallsOK, Becomes
            <6>2. QED BY <4>1, <6>1
          <5>3. QED BY <3>5, <4>1, <4>2, <5>2 DEF Type
        <4>4. Adding(c) BY <1>2, <3>5 DEF AddOf, Type, At, AddPath
        <4>5. QED BY <1>2, <1>3, <2>4, <3>2, <3>5, <4>1, <4>3, <4>4
                  DEF AddOf, Adding, AddPath, DestroyPath, Type, At
      <3>6. CASE ~Exists(c) /\ ~Mkdir(c) /\ ~Type(c)
        <4>1. m[c].pc \notin {"exists", "mkdir", "type"} \/ m'[c].pc = "idle"
          BY <1>6, <1>r, <3>6 DEF Step, Verify, Enable, MkdirFails, Attach, AttachThread, SetType,
             List, Move, Rmdir, FindKill, Kill, ToParent, At
        <4>2. \/ <<m[c].pc, m'[c].pc>> \in {"verify", "enable"} \X {"enable", "mkdir"}
              \/ <<m[c].pc, m'[c].pc>> = <<"find_kill", "kill">>
              \/ <<m[c].pc, m'[c].pc>> \in {"list", "move"} \X {"move", "rmdir"}
          BY <2>4, <4>1 DEF Edges
        <4>3. QED BY <1>2, <1>3, <2>4, <4>2 DEF AddOf, Adding, AddPath, DestroyPath
      <3>7. QED BY <3>3, <3>4, <3>5, <3>6
    <2>5. QED BY <2>1, <2>2, <2>3, <2>4 DEF Flow
  <1>7. m'[c] = m[c] \/ Call(c) \/ Step(c)
    <2>1. ASSUME NEW d \in Clients \ {c}, Call(d) \/ Step(d) PROVE m'[c] = m[c]
      BY <2>1, CallFlow, StepFlow
    <2>2. QED BY <2>1 DEF Next, Workload, Fork, Exit, Release, vars
  <1>8. QED BY <1>4, <1>5, <1>6, <1>7

LEMMA AddInvariant == ASSUME Arranged, Own PROVE Spec => []AddInv
  <1>1. Init => AddInv
    BY DEF Init, Idle, AddInv, AddOf, AddPath, DestroyPath
  <1>2. TypeInv /\ ControlInv /\ AddInv /\ [Next]_vars => AddInv' BY AddStep
  <1>3. QED BY <1>1, <1>2, TypeInvariant, ControlInvariant, PTL DEF Spec

\* Nothing that the kernel demands is missing when a leaf gets a task.
LEMMA AttachWorks ==
  ASSUME TypeInv, Arranged, ControlInv, NEW c \in Clients, Leaf(c) \in dirs
  PROVE  MayAttach(Leaf(c)) /\ (Leaf(c) \notin threaded => Dom[Leaf(c)] = Leaf(c))
  <1>1. TreeOK BY TypeParts DEF TypeInv
  <1>2. Leaf(c) \in Nodes \ {Root} /\ Root \in Nodes BY PathType, TreeAssumption
  <1>3. threaded \subseteq Nodes \ {Root} BY <1>1 DEF TreeOK
  <1>4. ctl[Leaf(c)] = {} BY DEF ControlInv, LeafBare
  <1>5. CASE Leaf(c) \in threaded
    <2>1. Parent[Leaf(c)] = Root BY <1>5 DEF ControlInv, ThreadedAtTop
    <2>2. Dom[Leaf(c)] = Root BY <1>2, <1>3, <1>5, <2>1, DomDef
    <2>3. Above[Root] = {Root} BY <1>2, AboveDef
    <2>4. ValidDomain(Root) BY <1>3, <2>3 DEF ValidDomain
    <2>5. QED BY <1>4, <1>5, <2>2, <2>4 DEF MayAttach
  <1>6. CASE Leaf(c) \notin threaded
    <2>1. Dom[Leaf(c)] = Leaf(c) BY <1>2, <1>3, <1>6, DomDef
    <2>2. Depth(c) \in 0 .. Depth(c) /\ Node(c, Depth(c)) = Leaf(c) BY PathType DEF Node, Leaf
    <2>3. ValidDomain(Leaf(c)) BY <1>6, <2>2, Domains
    <2>4. QED BY <1>4, <2>1, <2>3 DEF MayAttach
  <1>7. QED BY <1>5, <1>6

\* Adding a task to a cgroup of one's own fails only if the task is gone, or is
\* a thread of another domain.
THEOREM AddSucceeds == Arranged /\ Own /\ Spec => AddFailsOnlyIfGone
  <1> SUFFICES ASSUME Arranged, Own PROVE Spec => AddFailsOnlyIfGone OBVIOUS
  <1> DEFINE Failed(c) == \/ life[m[c].arg] \in {"exiting", "gone"}
                          \/ Leaf(c) \in threaded /\ Dom[loc[m[c].arg]] # Dom[Leaf(c)]
             Goal == \A c \in Clients :
                       Returns(c, {"add_proc", "add_thread"}, "err") /\ ~At(c, "mkdir") => Failed(c)
  <1>1. ASSUME TypeInv, ControlInv, AddInv, [Next]_vars PROVE Goal
    <2> SUFFICES ASSUME NEW c \in Clients, Returns(c, {"add_proc", "add_thread"}, "err"),
                        ~At(c, "mkdir")
                 PROVE  Failed(c)
      OBVIOUS
    <2>1. CallsOK /\ TasksOK BY <1>1, TypeParts DEF TypeInv
    <2>2. Adding(c) /\ m[c].pc # "idle" /\ m'[c].pc = "idle" /\ m'[c].res = "err"
      BY DEF Returns, At, Adding
    <2>3. AddOf(c) /\ m[c].arg \in Tasks BY <1>1, <2>1 DEF AddInv, CallsOK, Call_
    <2>4. life[m[c].arg] # "unborn" BY <2>2, <2>3 DEF AddOf
    <2>5. ~Counted(m[c].arg) => Failed(c) BY <2>1, <2>3, <2>4 DEF Counted, TasksOK
    <2>g. \A l \in Labels \ {"idle"} : ~Goto(c, l)
      BY <2>1, <2>2 DEF CallsOK, Call_, Goto, Becomes
    <2>r. ~Return(c, "ok")
      BY <2>1, <2>2 DEF CallsOK, Return, Becomes, Idle
    <2>6. Step(c)
      <3>1. ASSUME NEW d \in Clients \ {c}, Call(d) \/ Step(d) PROVE m'[c] = m[c]
        BY <1>1, <3>1, CallFlow, StepFlow
      <3>2. ~Call(c) BY <2>2 DEF Call, At
      <3>3. QED BY <1>1, <2>2, <3>1, <3>2 DEF Next, Workload, Fork, Exit, Release, vars
    <2>7. m[c].pc \in AddPath \cup {"exists"}
      <3>1. m[c].pc \notin DestroyPath \cup {"find_kill", "kill", "set_type", "parent"}
        BY <2>2, <2>3 DEF AddOf, Adding
      <3>2. m[c].pc \in Labels BY <2>1 DEF CallsOK, Call_
      <3>3. QED BY <2>2, <3>1, <3>2 DEF Labels, AddPath, DestroyPath
    <2>8. CASE Exists(c)
      <3>1. ~Created(c)
        <4>1. Created(c) => m'[c].pc \in {"attach", "type"} BY <2>1, CreatedType
        <4>2. QED BY <2>2, <4>1
      <3>2. QED BY <2>2, <2>8, <2>g, <3>1 DEF Exists, Labels
    <2>9. CASE Verify(c)
      <3>1. EnableAt(c, 0) /\ Want[c] \subseteq Supported BY <2>9 DEF Verify, Own
      <3>2. 0 < Depth(c) /\ 0 \in Nat BY PathType
      <3>3. m'[c].pc \in {"enable", "mkdir"} BY <2>1, <3>1, <3>2, EnableAtType
      <3>4. QED BY <2>2, <3>3
    <2>10. ~Enable(c)
      <3>1. ASSUME NEW x, NEW l \in {"mkdir", "enable"},
                   Becomes(c, [m[c] EXCEPT !.left = @ \ {x}, !.pc = l])
            PROVE  FALSE
        BY <2>1, <2>2, <3>1 DEF CallsOK, Call_, Becomes
      <3>2. QED BY <3>1 DEF Enable
    <2>11. CASE Attach(c)
      <3>1. Leaf(c) \in dirs BY <2>3, <2>11 DEF AddOf, Attach, At
      <3>2. ~Known(m[c].arg) BY <1>1, <2>11, <2>r, <3>1, AttachWorks DEF Attach
      <3>3. QED BY <2>5, <3>2 DEF Known
    <2>12. CASE Type(c)
      <3>1. Leaf(c) \in dirs BY <2>3, <2>12 DEF AddOf, Type, At
      <3>2. ~Becomes(c, [m[c] EXCEPT !.op = "add_proc", !.pc = "exists"])
        BY <2>1, <2>2, ZenonT(40) DEF CallsOK, Call_, Becomes
      <3>3. QED BY <2>12, <2>g, <3>1, <3>2 DEF Type, Labels
    <2>13. CASE AttachThread(c)
      <3>1. Leaf(c) \in dirs /\ Leaf(c) \in threaded BY <2>3, <2>13 DEF AddOf, AttachThread, At
      <3>2. MayAttach(Leaf(c)) BY <1>1, <3>1, AttachWorks
      <3>3. ~(Counted(m[c].arg) /\ Dom[loc[m[c].arg]] = Dom[Leaf(c)])
        BY <2>13, <2>r, <3>2 DEF AttachThread
      <3>4. QED BY <2>5, <3>1, <3>3
    <2>14. QED
      BY <2>6, <2>7, <2>8, <2>9, <2>10, <2>11, <2>12, <2>13
         DEF Step, Mkdir, MkdirFails, SetType, List, Move, Rmdir, FindKill, Kill, ToParent,
             At, AddPath
  <1>2. Goal => \A c \in Clients :
          Returns(c, {"add_proc", "add_thread"}, "err") /\ ~At(c, "mkdir") =>
          \/ life[m[c].arg] \in {"exiting", "gone"}
          \/ Leaf(c) \in threaded /\ Dom[loc[m[c].arg]] # Dom[Leaf(c)]
    OBVIOUS
  <1> HIDE DEF Goal
  <1>3. QED
    BY <1>1, <1>2, TypeInvariant, ControlInvariant, AddInvariant, PTL DEF Spec, AddFailsOnlyIfGone

\* One entry of the list is moved out, with its group.
LEMMA MoveStep ==
  ASSUME TypeInv, NEW c \in Clients, Move(c), Listed(c)
  PROVE  Listed(c)' /\ (m'[c].pc = "rmdir" => m'[c].todo = {})
  <1>1. CallsOK /\ TasksOK BY TypeParts DEF TypeInv
  <1>2. PICK p \in m[c].todo :
          /\ loc' = IF Known(p) THEN Moved(Group(p), Root) ELSE loc
          /\ Becomes(c, [m[c] EXCEPT !.todo = @ \ {p},
                           !.pc = IF m[c].todo = {p} THEN "rmdir" ELSE "move"])
    BY DEF Move
  <1>3. m'[c].todo = m[c].todo \ {p} /\ m'[c].pc = IF m[c].todo = {p} THEN "rmdir" ELSE "move"
    BY <1>1, <1>2 DEF CallsOK, Call_, Becomes
  <1>4. ASSUME NEW t \in Alive0, life'[t] = "alive", loc'[t] = Leaf(c)
        PROVE  Tgid[t] \in m'[c].todo
    <2>1. t \in Tasks /\ Tgid[t] \in Tasks /\ Tgid[Tgid[t]] = Tgid[t] BY TaskAssumption
    <2>2. life[t] = "alive" BY <1>4 DEF Move
    <2>3. loc[t] = Leaf(c) BY <1>1, <1>2, <1>4, <2>1, PathType DEF Moved, TasksOK
    <2>4. Tgid[t] \in m[c].todo BY <2>2, <2>3 DEF Listed
    <2>5. Tgid[t] # p
      <3>1. SUFFICES ASSUME Tgid[t] = p PROVE FALSE OBVIOUS
      <3>2. t \in Group(p) BY <2>1, <3>1 DEF Group
      <3>3. Known(p) BY <2>1, <2>2, <3>1, <3>2 DEF Known, Counted
      <3>4. loc'[t] = Root BY <1>2, <2>1, <2>2, <3>2, <3>3 DEF Moved
      <3>5. QED BY <1>4, <3>4, PathType
    <2>6. QED BY <1>3, <2>4, <2>5
  <1>5. QED BY <1>3, <1>4 DEF Listed

\* The listing finds every task of a cgroup outside threaded mode.
LEMMA ListStep ==
  ASSUME TypeInv, NEW c \in Clients, List(c), Leaf(c) \notin threaded
  PROVE  Listed(c)' /\ (m'[c].pc = "rmdir" => m'[c].todo = {})
  <1>1. CallsOK /\ TasksOK /\ TreeOK BY TypeParts DEF TypeInv
  <1> DEFINE pids == IF Leaf(c) \in dirs \ threaded
                     THEN {Tgid[t] : t \in {u \in Tasks : Counted(u) /\ Dom[loc[u]] = Leaf(c)}}
                     ELSE {}
  <1>2. Becomes(c, [m[c] EXCEPT !.todo = pids, !.pc = IF pids = {} THEN "rmdir" ELSE "move"])
        /\ UNCHANGED <<tree, loc, life>>
    BY DEF List
  <1> HIDE DEF pids
  <1>3. m'[c].todo = pids /\ m'[c].pc = IF pids = {} THEN "rmdir" ELSE "move"
    BY <1>1, <1>2 DEF CallsOK, Call_, Becomes
  <1>4. ASSUME NEW t \in Alive0, life[t] = "alive", loc[t] = Leaf(c) PROVE Tgid[t] \in pids
    <2>1. t \in Tasks /\ Counted(t) BY <1>4, TaskAssumption DEF Counted
    <2>2. Leaf(c) \in dirs BY <1>1, <1>4, <2>1 DEF TasksOK
    <2>3. Dom[Leaf(c)] = Leaf(c) BY <1>1, PathType, DomDef DEF TreeOK
    <2>4. QED BY <1>4, <2>1, <2>2, <2>3 DEF pids
  <1>5. QED BY <1>2, <1>3, <1>4 DEF Listed

\* Nobody but the workload's forks brings a task into a leaf of another handle.
LEMMA ListedStep ==
  ASSUME TypeInv, Arranged, Own, ControlInv, ListInv, [Next]_vars,
         NEW c \in Clients, m[c].pc = "move", m'[c] = m[c]
  PROVE  Listed(c)'
  <1>1. TasksOK BY TypeParts DEF TypeInv
  <1>2. SUFFICES ASSUME NEW t \in Alive0, life'[t] = "alive", loc'[t] = Leaf(c)
                 PROVE  life[t] = "alive" /\ loc[t] = Leaf(c)
    BY DEF Listed, ListInv
  <1>3. t \in Tasks /\ life[t] # "unborn" /\ Leaf(c) # Root
    BY TaskAssumption, PathType DEF ListInv
  <1>m. ASSUME NEW who, NEW n, loc' = Moved(who, n), n # Leaf(c), life' = life
        PROVE  life[t] = "alive" /\ loc[t] = Leaf(c)
    BY <1>1, <1>2, <1>3, <1>m DEF Moved
  <1>4. CASE UNCHANGED <<loc, life>> BY <1>2, <1>4
  <1>5. ASSUME NEW d \in Clients, Step(d) PROVE life[t] = "alive" /\ loc[t] = Leaf(c)
    <2>1. CASE Attach(d) \/ AttachThread(d)
      <3>1. Leaf(d) # Leaf(c) BY <2>1 DEF Attach, AttachThread, At, Own
      <3>2. QED BY <1>4, <1>m, <2>1, <3>1 DEF Attach, AttachThread
    <2>2. CASE ToParent(d)
      <3>1. Parent[Leaf(d)] = Root BY <2>2 DEF ToParent, At, ControlInv, Asked, Arranged
      <3>2. QED BY <1>3, <1>4, <1>m, <2>2, <3>1 DEF ToParent
    <2>3. CASE Move(d) BY <1>3, <1>4, <1>m, <2>3 DEF Move
    <2>4. CASE Kill(d)
      <3>1. UNCHANGED loc BY <2>4 DEF Kill
      <3>2. \/ UNCHANGED life
            \/ \E hit : life' = [u \in Tasks |-> IF u \in hit /\ life[u] = "alive" THEN "exiting" ELSE life[u]]
        BY <2>4 DEF Kill
      <3>3. QED BY <1>2, <1>3, <3>1, <3>2
    <2>5. CASE UNCHANGED <<loc, life>> BY <1>4, <2>5
    <2>6. QED
      BY <1>5, <2>1, <2>2, <2>3, <2>4, <2>5
         DEF Step, Exists, Verify, Enable, Mkdir, MkdirFails, Type, SetType, List, Rmdir, FindKill
  <1>6. CASE Workload BY <1>1, <1>2, <1>3, <1>6 DEF Workload, Fork, Exit, Release, TasksOK
  <1>7. QED BY <1>4, <1>5, <1>6 DEF Next, Call, vars

LEMMA ListInvStep == TypeInv /\ Arranged /\ Own /\ ControlInv /\ ListInv /\ [Next]_vars => ListInv'
  <1> SUFFICES ASSUME TypeInv, Arranged, Own, ControlInv, ListInv, [Next]_vars PROVE ListInv'
    OBVIOUS
  <1>1. \A t \in Alive0 : life'[t] # "unborn" BY BornStep, TaskAssumption DEF ListInv
  <1>2. ASSUME NEW c \in Clients, m'[c].pc = "move" PROVE Listed(c)'
    <2>1. CASE m'[c] = m[c] BY <1>2, <2>1, ListedStep
    <2>2. ASSUME NEW d \in Clients \ {c}, Call(d) \/ Step(d) PROVE m'[c] = m[c]
      BY <2>2, CallFlow, StepFlow
    <2>3. CASE Call(c)
      <3>1. m'[c].pc = Entry(m'[c].op) /\ m'[c].op \in AllOps BY <2>3, CallFlow
      <3>2. QED BY <1>2, <3>1 DEF Entry, AllOps
    <2>4. CASE Step(c)
      <3>1. m[c].pc \in {"list", "move"} BY <1>2, <2>4, StepFlow DEF Flow, Edges
      <3>2. List(c) \/ Move(c)
        BY <2>4, <3>1 DEF Step, Exists, Verify, Enable, Mkdir, MkdirFails, Attach, Type,
           AttachThread, SetType, Rmdir, FindKill, Kill, ToParent, At
      <3>3. CASE Move(c) BY <3>3, MoveStep DEF ListInv, Move, At
      <3>4. CASE List(c)
        <4>1. CASE Leaf(c) \in threaded
          <5>1. Becomes(c, [m[c] EXCEPT !.todo = {}, !.pc = "rmdir"]) BY <3>4, <4>1 DEF List
          <5>2. m'[c].pc = "rmdir"
            <6>1. CallsOK BY TypeParts DEF TypeInv
            <6>2. QED BY <5>1, <6>1 DEF CallsOK, Call_, Becomes
          <5>3. QED BY <1>2, <5>2
        <4>2. QED BY <3>4, <4>1, ListStep
      <3>5. QED BY <3>2, <3>3, <3>4
    <2>5. QED BY <2>1, <2>2, <2>3, <2>4 DEF Next, Workload, Fork, Exit, Release, vars
  <1>3. QED BY <1>1, <1>2 DEF ListInv

\* When destroy comes to the rmdir, no live task that was not forked meanwhile is
\* left in the cgroup, unless it is threaded.
THEOREM EmptyBeforeRemoval == Arranged /\ Own /\ Spec => DomainEmptyBeforeRmdir
  <1> SUFFICES ASSUME Arranged, Own PROVE Spec => DomainEmptyBeforeRmdir OBVIOUS
  <1>1. Init => ListInv
    <2>1. Init => \A t \in Alive0 : life[t] # "unborn" BY TaskAssumption DEF Init
    <2>2. QED BY <2>1 DEF Init, Idle, ListInv
  <1>2. TypeInv /\ ControlInv /\ ListInv /\ [Next]_vars => ListInv' BY ListInvStep
  <1> DEFINE Goal == \A c \in Clients : Leaf(c) \notin threaded => MovedOut(c)
  <1>3. ASSUME TypeInv, ControlInv, ListInv, [Next]_vars PROVE Goal
    <2> SUFFICES ASSUME NEW c \in Clients, Leaf(c) \notin threaded,
                        m[c].pc # "rmdir", m'[c].pc = "rmdir"
                 PROVE  \A t \in Alive0 : life'[t] = "alive" => loc'[t] # Leaf(c)
      BY DEF MovedOut, At
    <2>1. Step(c)
      <3>1. ASSUME NEW d \in Clients \ {c}, Call(d) \/ Step(d) PROVE m'[c] = m[c]
        BY <1>3, <3>1, CallFlow, StepFlow
      <3>2. ~Call(c)
        <4>1. Call(c) => m'[c].pc = Entry(m'[c].op) /\ m'[c].op \in AllOps BY <1>3, CallFlow
        <4>2. QED BY <4>1 DEF Entry, AllOps
      <3>3. QED BY <1>3, <3>1, <3>2 DEF Next, Workload, Fork, Exit, Release, vars
    <2>2. m[c].pc \in {"list", "move"} BY <1>3, <2>1, StepFlow DEF Flow, Edges
    <2>3. List(c) \/ Move(c)
      BY <2>1, <2>2 DEF Step, Exists, Verify, Enable, Mkdir, MkdirFails, Attach, Type,
         AttachThread, SetType, Rmdir, FindKill, Kill, ToParent, At
    <2>4. Listed(c)' /\ m'[c].todo = {}
      <3>1. CASE List(c) BY <1>3, <3>1, ListStep
      <3>2. CASE Move(c) BY <1>3, <3>2, MoveStep DEF ListInv, Move, At
      <3>3. QED BY <2>3, <3>1, <3>2
    <2>5. QED BY <2>4 DEF Listed
  <1>4. Goal => \A c \in Clients : Leaf(c) \notin threaded => MovedOut(c) OBVIOUS
  <1> HIDE DEF Goal
  <1>5. QED
    BY <1>1, <1>2, <1>3, <1>4, TypeInvariant, ControlInvariant, PTL DEF Spec, DomainEmptyBeforeRmdir
=============================================================================
