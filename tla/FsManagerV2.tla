---------------------------- MODULE FsManagerV2 ----------------------------
(***************************************************************************)
(* FsManager on cgroup v2: managed cgroups are leaves of one unified tree. *)
(* Creating a leaf enables the wanted controllers on the root and on every *)
(* ancestor, top down, each with a write of its own whose error is         *)
(* ignored; handles with leaves under common ancestors interleave.         *)
(*                                                                         *)
(* The kernel's rules (who may enable what, attach where, remove which)    *)
(* are in the section "kernel".  Controllers are domain controllers        *)
(* (memory, io, hugetlb); cpu, cpuset and pids follow weaker rules.        *)
(***************************************************************************)
EXTENDS Naturals, Sequences, FiniteSets

CONSTANTS
  Nodes, Root,   \* cgroups of the tree
  Parent,        \* parent of every node but the root
  Clients,       \* Cgroup or FsManager handles
  Path,          \* per handle: from the root's child to the managed leaf
  Supported,     \* the root's cgroup.controllers
  Want,          \* per handle: specified controllers, or all supported ones
  Tasks, Tgid,   \* task ids and their thread groups
  Alive0,        \* tasks alive at the start, all in the root
  Ops,           \* what each client calls
  Faults         \* what may fail besides: "mkdir"

AllOps == {"add_proc", "add_thread", "destroy", "set_cgroup_type", "kill", "to_parent"}

ASSUME TreeAssumption == Root \in Nodes /\ Parent \in [Nodes \ {Root} -> Nodes]
ASSUME PathAssumption ==
  \A c \in Clients :
    /\ Path[c] \in Seq(Nodes \ {Root}) /\ Path[c] # <<>>
    /\ Parent[Path[c][1]] = Root
    /\ \A i \in 1 .. Len(Path[c]) - 1 : Parent[Path[c][i + 1]] = Path[c][i]
ASSUME TaskAssumption ==
  /\ Tasks # {} /\ Alive0 \subseteq Tasks
  /\ Tgid \in [Tasks -> Tasks] /\ \A t \in Tasks : Tgid[Tgid[t]] = Tgid[t]
ASSUME EnvAssumption  == Ops \in [Clients -> SUBSET AllOps] /\ Faults \subseteq {"mkdir"}

VARIABLES
  dirs,      \* nodes that exist
  ctl,       \* cgroup.subtree_control of every node
  threaded,  \* nodes of cgroup.type "threaded"
  loc,       \* node of every task
  life,      \* "unborn", "alive", "exiting", "gone", as in FsManagerV1
  m          \* call in progress of every client

tree == <<dirs, ctl, threaded>>
vars == <<dirs, ctl, threaded, loc, life, m>>

Depth(c) == Len(Path[c])
Leaf(c)  == Path[c][Depth(c)]
Node(c, i) == IF i = 0 THEN Root ELSE Path[c][i]

Labels == {"idle", "exists", "verify", "enable", "mkdir", "attach", "type",
           "thread", "list", "move", "rmdir", "set_type", "find_kill", "kill",
           "parent"}

\* No call in progress; how the last one ended.
Idle(r) == [pc |-> "idle", op |-> "destroy", arg |-> CHOOSE t \in Tasks : TRUE,
            i |-> 0, left |-> {}, todo |-> {}, res |-> r]

Init ==
  /\ dirs = {Root} /\ ctl = [n \in Nodes |-> {}] /\ threaded = {}
  /\ loc  = [t \in Tasks |-> Root]
  /\ life = [t \in Tasks |-> IF t \in Alive0 THEN "alive" ELSE "unborn"]
  /\ m = [c \in Clients |-> Idle("none")]

-----------------------------------------------------------------------------
\* The kernel.

Avail(n)    == IF n = Root THEN Supported ELSE ctl[Parent[n]]
Children(n) == {k \in dirs \ {Root} : Parent[k] = n}
Counted(t)  == life[t] \in {"alive", "exiting"}
HasTasks(n) == \E t \in Tasks : Counted(t) /\ loc[t] = n


\* n and the nodes above it.
Above[n \in Nodes] == IF n = Root THEN {Root} ELSE {n} \cup Above[Parent[n]]
Populated(n) == \E t \in Tasks : Counted(t) /\ n \in Above[loc[t]]

\* The domain that a node's resources and processes are accounted to.
Dom[n \in Nodes] == IF n \in threaded THEN Dom[Parent[n]] ELSE n
ThreadRoot(n)  == n # Root /\ n \notin threaded /\ Children(n) \cap threaded # {}
ValidDomain(n) == /\ n \notin threaded
                  /\ \A a \in Above[n] \ {n, Root} : a \notin threaded /\ ~ThreadRoot(a)
CanBeThreadRoot(n) ==
  n = Root \/ (ctl[n] = {} /\ \A k \in Children(n) : k \in threaded \/ ~Populated(k))

\* No internal processes: a node distributes domain controllers or has tasks.
MayEnable(n, x) ==
  /\ n \in dirs /\ x \in Avail(n)
  /\ n # Root => ~HasTasks(n) /\ ValidDomain(n) /\ ~ThreadRoot(n)
MayAttach(n) == n \in dirs /\ ValidDomain(Dom[n]) /\ (n = Root \/ ctl[n] = {})
MayThread(n) ==
  /\ n \in dirs \ {Root}
  /\ n \in threaded \/ LET d == Dom[Parent[n]] IN
       ~Populated(n) /\ ctl[n] = {} /\ ValidDomain(d) /\ CanBeThreadRoot(d)
Removable(n) == n \in dirs \ {Root} /\ Children(n) = {} /\ ~HasTasks(n)

Group(t) == {u \in Tasks : Tgid[u] = Tgid[t]}

\* An id can be written to cgroup.procs: a thread group leader stays visible as
\* a zombie until the last thread of its group is gone.
Known(t) == Counted(t) \/ (Tgid[t] = t /\ \E u \in Group(t) : Counted(u))

\* A task that has begun to exit stays where it is, though the write succeeds.
Moved(who, n) ==
  [t \in Tasks |-> IF t \in who /\ life[t] = "alive" THEN n ELSE loc[t]]

-----------------------------------------------------------------------------
\* Operations of the handles.

At(c, label) == m[c].pc = label

Becomes(c, r) == m' = [m EXCEPT ![c] = r]

Goto(c, label) == Becomes(c, [m[c] EXCEPT !.pc = label])

Return(c, r) == Becomes(c, Idle(r))

Adding(c) == m[c].op \in {"add_proc", "add_thread"}

\* What create_cgroups is followed by.
Created(c) ==
  Becomes(c, [m[c] EXCEPT !.i = 0, !.left = {},
                          !.pc = IF m[c].op = "add_proc" THEN "attach" ELSE "type"])

\* Where an operation begins.
Entry(op) == CASE op = "set_cgroup_type" -> "set_type"
               [] op = "kill" -> "find_kill"
               [] op = "to_parent" -> "parent"
               [] OTHER -> "exists"

Call(c) ==
  /\ At(c, "idle")
  /\ \E o \in Ops[c], t \in Tasks :
       /\ IF o \in {"add_proc", "add_thread", "to_parent"} THEN life[t] # "unborn" ELSE t = m[c].arg
       /\ Becomes(c, [m[c] EXCEPT !.op = o, !.arg = t, !.res = "none", !.pc = Entry(o)])
  /\ UNCHANGED <<tree, loc, life>>

\* Cgroup::exists: every controller has the same directory.
Exists(c) ==
  /\ At(c, "exists")
  /\ IF Adding(c) THEN IF Leaf(c) \in dirs THEN Created(c) ELSE Goto(c, "verify")
     ELSE IF Leaf(c) \in dirs THEN Goto(c, "list") ELSE Return(c, "ok")
  /\ UNCHANGED <<tree, loc, life>>

\* enable_controllers on the i-th node of the path begins, or there is nothing to enable.
EnableAt(c, i) ==
  Becomes(c, [m[c] EXCEPT !.i = i, !.left = Want[c],
                          !.pc = IF Want[c] = {} THEN "mkdir" ELSE "enable"])

\* Mutant: the root's subtree_control is left as it is.
VerifySkipsRoot(c) ==
  /\ At(c, "verify")
  /\ IF Want[c] \subseteq Supported THEN Goto(c, "mkdir") ELSE Return(c, "err")
  /\ UNCHANGED <<tree, loc, life>>

Verify(c) ==
  /\ At(c, "verify")
  /\ IF Want[c] \subseteq Supported THEN EnableAt(c, 0) ELSE Return(c, "err")
  /\ UNCHANGED <<tree, loc, life>>

\* One write of "+x" to cgroup.subtree_control; an error is ignored.
Enable(c) ==
  LET n == Node(c, m[c].i) IN
  /\ At(c, "enable")
  /\ \E x \in m[c].left :
       /\ ctl' = IF MayEnable(n, x) THEN [ctl EXCEPT ![n] = @ \cup {x}] ELSE ctl
       /\ Becomes(c, [m[c] EXCEPT !.left = @ \ {x},
                        !.pc = IF m[c].left = {x} THEN "mkdir" ELSE "enable"])
  /\ UNCHANGED <<dirs, threaded, loc, life>>

\* Mutant: one element too many gets the controllers.
MkdirTooFar(c) ==
  LET i == m[c].i + 1 IN
  /\ At(c, "mkdir")
  /\ dirs' = dirs \cup {Path[c][k] : k \in 1 .. i}
  /\ IF i <= Depth(c) THEN EnableAt(c, i) ELSE Created(c)
  /\ UNCHANGED <<ctl, threaded, loc, life>>

\* create_dir_all of the next node, and of what is missing above it.
Mkdir(c) ==
  LET i == m[c].i + 1 IN
  /\ At(c, "mkdir")
  /\ dirs' = dirs \cup {Path[c][k] : k \in 1 .. i}
  /\ IF i < Depth(c) THEN EnableAt(c, i) ELSE Created(c)
  /\ UNCHANGED <<ctl, threaded, loc, life>>

MkdirFails(c) ==
  /\ At(c, "mkdir") /\ "mkdir" \in Faults
  /\ Return(c, "err")
  /\ UNCHANGED <<tree, loc, life>>

\* add_task_by_tgid: the whole group, by one write to cgroup.procs.
Attach(c) ==
  /\ At(c, "attach")
  /\ IF MayAttach(Leaf(c)) /\ Known(m[c].arg)
     THEN loc' = Moved(Group(m[c].arg), Leaf(c)) /\ Return(c, "ok")
     ELSE UNCHANGED loc /\ Return(c, "err")
  /\ UNCHANGED <<tree, life>>

\* Mutant: no fallback to add_proc.
TypeNoFallback(c) ==
  /\ At(c, "type")
  /\ IF Leaf(c) \in threaded \/ ThreadRoot(Leaf(c)) THEN Goto(c, "thread")
     ELSE Return(c, "err")
  /\ UNCHANGED <<tree, loc, life>>

\* add_task reads cgroup.type; outside a threaded cgroup add_thread falls back
\* to add_proc, which begins with create_cgroups again.
Type(c) ==
  /\ At(c, "type")
  /\ IF Leaf(c) \notin dirs THEN Return(c, "err")
     ELSE IF Leaf(c) \in threaded \/ ThreadRoot(Leaf(c)) THEN Goto(c, "thread")
     ELSE Becomes(c, [m[c] EXCEPT !.op = "add_proc", !.pc = "exists"])
  /\ UNCHANGED <<tree, loc, life>>

\* One task, by a write to cgroup.threads, within its domain.
AttachThread(c) ==
  LET t == m[c].arg IN
  /\ At(c, "thread")
  /\ IF MayAttach(Leaf(c)) /\ Counted(t) /\ Dom[loc[t]] = Dom[Leaf(c)]
     THEN loc' = Moved({t}, Leaf(c)) /\ Return(c, "ok")
     ELSE UNCHANGED loc /\ Return(c, "err")
  /\ UNCHANGED <<tree, life>>

SetType(c) ==
  /\ At(c, "set_type")
  /\ IF MayThread(Leaf(c))
     THEN threaded' = threaded \cup {Leaf(c)} /\ Return(c, "ok")
     ELSE UNCHANGED threaded /\ Return(c, "err")
  /\ UNCHANGED <<dirs, ctl, loc, life>>

\* Cgroup::kill: the file is looked for, then written; a threaded cgroup has none
\* that can be.  The kernel ends every process of the cgroup and of those below.
FindKill(c) ==
  /\ At(c, "find_kill")
  /\ IF Leaf(c) \in dirs THEN Goto(c, "kill") ELSE Return(c, "err")
  /\ UNCHANGED <<tree, loc, life>>

Kill(c) ==
  LET hit == {t \in Tasks : \E u \in Group(t) :
                Counted(u) /\ Leaf(c) \in Above[Dom[loc[u]]]}
  IN /\ At(c, "kill")
     /\ IF Leaf(c) \in dirs \ threaded
        THEN /\ life' = [t \in Tasks |-> IF t \in hit /\ life[t] = "alive"
                                         THEN "exiting" ELSE life[t]]
             /\ Return(c, "ok")
        ELSE UNCHANGED life /\ Return(c, "err")
     /\ UNCHANGED <<tree, loc>>

\* move_task_to_parent_by_tgid.
ToParent(c) ==
  LET up == Parent[Leaf(c)] IN
  /\ At(c, "parent")
  /\ IF MayAttach(up) /\ Known(m[c].arg)
     THEN loc' = Moved(Group(m[c].arg), up) /\ Return(c, "ok")
     ELSE UNCHANGED loc /\ Return(c, "err")
  /\ UNCHANGED <<tree, life>>

\* Mutant: reads the `tasks' file of v1, which is not there.
ListTasks(c) ==
  /\ At(c, "list")
  /\ Goto(c, "rmdir")
  /\ UNCHANGED <<tree, loc, life>>

\* Cgroup::procs: cgroup.procs of a threaded cgroup cannot be read, which the
\* code takes for an empty list.
List(c) ==
  LET leaf == Leaf(c)
      pids == IF leaf \in dirs \ threaded
              THEN {Tgid[t] : t \in {u \in Tasks : Counted(u) /\ Dom[loc[u]] = leaf}}
              ELSE {}
  IN /\ At(c, "list")
     /\ Becomes(c, [m[c] EXCEPT !.todo = pids, !.pc = IF pids = {} THEN "rmdir" ELSE "move"])
     /\ UNCHANGED <<tree, loc, life>>

\* remove_task_by_tgid: to the root; an error is ignored.
Move(c) ==
  /\ At(c, "move")
  /\ \E p \in m[c].todo :
       /\ loc' = IF Known(p) THEN Moved(Group(p), Root) ELSE loc
       /\ Becomes(c, [m[c] EXCEPT !.todo = @ \ {p},
                        !.pc = IF m[c].todo = {p} THEN "rmdir" ELSE "move"])
  /\ UNCHANGED <<tree, life>>

\* Cgroup::delete: one rmdir, neither recursive nor tried again.
Rmdir(c) ==
  LET leaf == Leaf(c) IN
  /\ At(c, "rmdir")
  /\ IF Removable(leaf)
     THEN /\ dirs' = dirs \ {leaf} /\ threaded' = threaded \ {leaf}
          /\ ctl' = [ctl EXCEPT ![leaf] = {}]
          /\ Return(c, "ok")
     ELSE UNCHANGED tree /\ Return(c, "err")
  /\ UNCHANGED <<loc, life>>

Step(c) ==
  \/ Exists(c) \/ Verify(c) \/ Enable(c) \/ Mkdir(c) \/ MkdirFails(c)
  \/ Attach(c) \/ Type(c) \/ AttachThread(c) \/ SetType(c)
  \/ List(c) \/ Move(c) \/ Rmdir(c) \/ FindKill(c) \/ Kill(c) \/ ToParent(c)

-----------------------------------------------------------------------------
\* The workload.

Fork(t, u) ==
  /\ life[t] = "alive" /\ life[u] = "unborn"
  /\ Tgid[u] = Tgid[t] \/ \A v \in Group(u) : life[v] = "unborn"
  /\ life' = [life EXCEPT ![u] = "alive"]
  /\ loc' = [loc EXCEPT ![u] = loc[t]]
  /\ UNCHANGED <<tree, m>>

Exit(t) ==
  /\ life[t] = "alive"
  /\ life' = [life EXCEPT ![t] = "exiting"]
  /\ UNCHANGED <<tree, loc, m>>

Release(t) ==
  /\ life[t] = "exiting"
  /\ life' = [life EXCEPT ![t] = "gone"]
  /\ loc' = [loc EXCEPT ![t] = Root]
  /\ UNCHANGED <<tree, m>>

Workload ==
  \/ \E t, u \in Tasks : Fork(t, u)
  \/ \E t \in Tasks : Exit(t)
  \/ \E t \in Tasks : Release(t)

Next == \/ \E c \in Clients : Call(c)
        \/ \E c \in Clients : Step(c)
        \/ Workload

Spec == Init /\ [][Next]_vars

-----------------------------------------------------------------------------
\* Properties.

Call_ == [pc : Labels, op : AllOps, arg : Tasks, i : Nat, left : SUBSET Supported,
          todo : SUBSET Tasks, res : {"none", "ok", "err"}]

\* Types, and the kernel's own rules: a node's parent exists, nothing is in or
\* enabled on a node that does not exist, a node distributes only what it has.
TypeOK ==
  /\ dirs \subseteq Nodes /\ Root \in dirs
  /\ ctl \in [Nodes -> SUBSET Supported]
  /\ threaded \subseteq dirs \ {Root}
  /\ loc \in [Tasks -> dirs]
  /\ life \in [Tasks -> {"unborn", "alive", "exiting", "gone"}]
  /\ m \in [Clients -> Call_] /\ \A c \in Clients : m[c].i < Depth(c)
  /\ \A n \in Nodes \ {Root} : /\ n \in dirs => Parent[n] \in dirs
                               /\ n \notin dirs => ctl[n] = {}
                               /\ ctl[n] \subseteq Avail(n)
  /\ \A n \in Nodes \ {Root} : ~(ctl[n] # {} /\ HasTasks(n))

Returns(c, ops, r) == ~At(c, "idle") /\ m[c].op \in ops /\ At(c, "idle")' /\ m'[c].res = r

\* create_v2_cgroup "enabl[es] the controllers for all parents along the way"
\* (cgroup.rs:553-554): a leaf that exists has its handle's controllers, though
\* every error of enabling is ignored and create_cgroups skips a leaf that
\* exists.  As long as no handle's leaf is above another's or shared with other
\* controllers, and none gets tasks or threads under a node that distributes.
LeafHasControllers == \A c \in Clients : Leaf(c) \in dirs => Want[c] \subseteq Avail(Leaf(c))

\* Adding a task to a cgroup of one's own fails only if the task is gone: the
\* creation never enables controllers on the leaf itself, which would make the
\* kernel refuse the process, a handle on a sibling is not in the way, and
\* add_thread falls back to add_proc where cgroup.threads is refused.  Only a
\* threaded cgroup takes no thread from another domain.
AddFailsOnlyIfGone ==
  [][\A c \in Clients :
       Returns(c, {"add_proc", "add_thread"}, "err") /\ ~At(c, "mkdir") =>
       \/ life[m[c].arg] \in {"exiting", "gone"}
       \/ Leaf(c) \in threaded /\ Dom[loc[m[c].arg]] # Dom[Leaf(c)]]_vars

\* "Before deleting the cgroup, we should move processes in the cgroup to the
\* root cgroup. Otherwise, we'll have a `Device or resource busy' error"
\* (manager/fs.rs:775-777): when destroy comes to the rmdir, no live task that
\* was not forked meanwhile is left in the cgroup.
MovedOut(c) ==
  ~At(c, "rmdir") /\ At(c, "rmdir")' =>
    \A t \in Alive0 : life'[t] = "alive" => loc'[t] # Leaf(c)

EmptyBeforeRmdir == [][\A c \in Clients : MovedOut(c)]_vars

\* The same for the cgroups that are not in threaded mode.
DomainEmptyBeforeRmdir == [][\A c \in Clients : Leaf(c) \notin threaded => MovedOut(c)]_vars
=============================================================================
