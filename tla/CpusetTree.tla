----------------------------- MODULE CpusetTree -----------------------------
(* The cpuset hierarchy.  A fresh cpuset is empty on cgroup v1 and takes no
   task; the controller copies the CPUs and memory nodes of the nearest
   ancestor that has some into it.  FsManager sets them for one cgroup, or
   from the top of the hierarchy down to it.  Several handles do so at once,
   one file at a time.

   What the kernel does with a mkdir, a rmdir and a write is modelled in the
   actions that make the call. *)
EXTENDS Naturals, Sequences, FiniteSets

CONSTANTS
  Nodes,      \* directories of the hierarchy that may exist
  Root,       \* its mount point
  Parent,     \* the directory above each other one
  Path,       \* the directories from below the root to each one
  Clients,    \* handles
  Leaves,     \* the cgroups the handles may be on, one of these in a behaviour
  Ids,        \* the CPUs and the memory nodes there are: [Files -> sets]
  Wants,      \* the lists of CPUs that are asked for
  Mixes,      \* sets of operations, one in a behaviour
  MaxFlags,   \* how many flags are set at a time
  V2s         \* versions a behaviour may run on: a subset of BOOLEAN

Files == {"cpus", "mems"}
Ops == {"new", "set", "apply", "topdown", "delete", "attach", "flag"}

ASSUME TreeAssumption ==
  /\ Root \in Nodes /\ Parent \in [Nodes \ {Root} -> Nodes]
  /\ Path \in [Nodes -> Seq(Nodes \ {Root})]
  /\ \A n \in Nodes : Path[n] = IF n = Root THEN << >> ELSE Append(Path[Parent[n]], n)
ASSUME LeavesAssumption == Leaves \subseteq [Clients -> Nodes \ {Root}]
ASSUME IdsAssumption == Ids = [f \in Files |-> Ids[f]] /\ \A f \in Files : Ids[f] # {}
ASSUME WantsAssumption == Wants \subseteq (SUBSET Ids["cpus"]) \ {{}}
ASSUME MixesAssumption == Mixes \subseteq SUBSET Ops
ASSUME V2sAssumption == V2s \subseteq BOOLEAN

VARIABLES
  v2,       \* version of the hierarchy
  mix,      \* the operations the handles call
  leaf,     \* the cgroup of each handle
  dirs,     \* directories that exist
  allowed,  \* cpuset.cpus and cpuset.mems of each
  flags,    \* its other files that are on
  tasks,    \* directories that hold tasks
  m         \* call in progress of each handle

tree == <<dirs, allowed, flags, tasks>>
vars == <<v2, mix, leaf, tree, m>>

Exclusive == [cpus |-> "cpu_exclusive", mems |-> "mem_exclusive"]
Empty == [f \in Files |-> {}]

On(n) == {Path[n][i] : i \in DOMAIN Path[n]}
Children(n) == {k \in Nodes \ {Root} : Parent[k] = n}
Siblings(n) == Children(Parent[n]) \ {n}
Under(n) == {k \in Nodes : n \in On(k)}

Idle == [pc |-> "idle", op |-> "new", want |-> {}, level |-> 1, dir |-> Root, goal |-> Root,
         down |-> FALSE, file |-> "cpus", value |-> {}, empties |-> << >>,
         res |-> "none", seen |-> "still", widens |-> FALSE]

Init ==
  /\ v2 \in V2s /\ mix \in Mixes /\ leaf \in Leaves
  /\ dirs = {Root}
  /\ allowed = [n \in Nodes |-> IF n = Root THEN Ids ELSE Empty]
  /\ flags = [n \in Nodes |-> IF n = Root THEN {Exclusive[f] : f \in Files} ELSE {}]
  /\ tasks = {}
  /\ m = [c \in Clients |-> Idle]

-----------------------------------------------------------------------------
\* The kernel.

(* Writes to cpuset.cpus and cpuset.mems: on v1 a set lies between those of the
   children and that of the parent, is not empty under a task, and shares
   nothing with a sibling if one of the two is exclusive. *)
Accepts(n, f, ids) ==
  /\ n \in dirs
  /\ ~v2 =>
       /\ ids \subseteq allowed[Parent[n]][f]
       /\ \A k \in Children(n) : allowed[k][f] \subseteq ids
       /\ n \in tasks => ids # {}
       /\ \A s \in Siblings(n) : Exclusive[f] \in flags[n] \union flags[s]
                                   => ids \intersect allowed[s][f] = {}

Usable(n) == n \in dirs /\ (v2 \/ \A f \in Files : allowed[n][f] # {})

(* Flags are files of v1 only; an exclusive cpuset needs an exclusive parent
   and siblings that share nothing with it. *)
AcceptsFlag(n, flag, b) ==
  /\ n \in dirs /\ ~v2
  /\ \A f \in Files : flag = Exclusive[f] =>
       IF b THEN /\ flag \in flags[Parent[n]]
                 /\ \A s \in Siblings(n) : allowed[s][f] \intersect allowed[n][f] = {}
            ELSE \A k \in Children(n) : flag \notin flags[k]

-----------------------------------------------------------------------------
\* Control of one call.

At(c, label) == m[c].pc = label
Target(c) == Path[leaf[c]][m[c].level]

(* What other handles do to the tree while a call runs: "grown" if nothing more
   than new directories, copies of calls not upset themselves and sets elsewhere,
   "upset" if a cgroup on its way was set, a directory removed or a flag changed. *)
Notice(c, upsets) ==
  [k \in Clients |-> IF k = c \/ m[k].pc = "idle" \/ m[k].seen = "upset" THEN m[k]
                     ELSE [m[k] EXCEPT !.seen = IF leaf[k] \in upsets THEN "upset" ELSE "grown"]]

Becomes(c, r) == m' = [m EXCEPT ![c] = r]
BecomesSeen(c, r, upsets) == m' = [Notice(c, upsets) EXCEPT ![c] = r]

Done(c, r) == [Idle EXCEPT !.op = m[c].op, !.res = r]

(* The file f of n is written by a copy or, otherwise, by a setter. *)
Put(c, n, f, ids, r) ==
  /\ allowed' = [allowed EXCEPT ![n][f] = ids]
  /\ BecomesSeen(c, r, IF At(c, "fill") /\ m[c].seen # "upset" THEN {} ELSE Under(n))
  /\ UNCHANGED <<v2, mix, leaf, dirs, flags, tasks>>

Local(c, r) == Becomes(c, r) /\ UNCHANGED <<v2, mix, leaf, tree>>

-----------------------------------------------------------------------------
\* Cgroup::new of one directory: create_dir_all, then post_create.

\* Mutant: the levels count from 0.
CreatingFromZero(c, r, level) ==
  LET to == IF v2 THEN Path[leaf[c]][1] ELSE Path[leaf[c]][level]
  IN  [r EXCEPT !.pc = "mkdir", !.level = level - 1, !.down = FALSE, !.goal = to, !.dir = to]

(* v1 makes the whole path at once, v2 one element of it after the other. *)
Creating(c, r, level) ==
  LET to == IF v2 THEN Path[leaf[c]][1] ELSE Path[leaf[c]][level]
  IN  [r EXCEPT !.pc = "mkdir", !.level = level, !.down = FALSE, !.goal = to, !.dir = to]

\* Mutant: the deepest directory is filled first.
FirstEmptyFromBelow(empties) == <<Head(empties), Tail(empties)>>

(* parents.iter().rev(): the directory to fill, those that remain. *)
FirstEmpty(empties) ==
  <<empties[Len(empties)], SubSeq(empties, 1, Len(empties) - 1)>>

(* What follows the creation of the target: the end of new, or the write of the
   level by enable_cpus_topdown. *)
Created(c) ==
  IF m[c].op = "topdown" THEN [m[c] EXCEPT !.pc = "level"] ELSE Done(c, "ok")

Toward(n, t) == CHOOSE k \in On(t) : Parent[k] = n

(* A mkdir of create_dir_all, which tries the goal itself first and climbs while
   the directory above is missing; then it goes down and tries each once more. *)
Mkdir(c) ==
  LET n == m[c].dir
      after == IF n # m[c].goal THEN [m[c] EXCEPT !.dir = Toward(n, m[c].goal), !.down = TRUE]
               ELSE IF n # Target(c)
               THEN [m[c] EXCEPT !.dir = Toward(n, Target(c)), !.goal = Toward(n, Target(c)),
                                 !.down = FALSE]
               ELSE IF v2 THEN Created(c)
               ELSE [m[c] EXCEPT !.pc = "find", !.file = "cpus", !.empties = << >>]
  IN  /\ At(c, "mkdir")
      /\ \/ n \in dirs /\ Local(c, after)
         \/ /\ n \notin dirs /\ Parent[n] \in dirs
            /\ dirs' = dirs \union {n}
            /\ BecomesSeen(c, after, {})
            /\ UNCHANGED <<v2, mix, leaf, allowed, flags, tasks>>
         \/ /\ n \notin dirs /\ Parent[n] \notin dirs
            /\ Local(c, IF m[c].down THEN Done(c, "err")
                        ELSE [m[c] EXCEPT !.dir = Parent[n]])

(* The end of copy_from_parent, whose error is only logged. *)
Copied(c) ==
  IF m[c].file = "cpus"
  THEN [m[c] EXCEPT !.pc = "find", !.file = "mems", !.dir = Target(c),
                    !.value = {}, !.empties = << >>]
  ELSE [Created(c) EXCEPT !.value = {}, !.empties = << >>]

\* Mutant: every directory up to the root is to be filled.
FindAll(c) ==
  LET n == m[c].dir
  IN  /\ At(c, "find")
      /\ Local(c, IF n \notin dirs THEN Copied(c)
                  ELSE IF n = Root
                  THEN IF m[c].empties = << >> THEN Copied(c)
                       ELSE [m[c] EXCEPT !.pc = "fill", !.value = allowed[n][m[c].file]]
                  ELSE [m[c] EXCEPT !.dir = Parent[n], !.empties = Append(@, n)])

(* find_no_empty_parent reads one file, from the target up to the first that is
   not empty; a file that cannot be read ends the copy. *)
find_no_empty_parent(c) ==
  LET n == m[c].dir
      ids == allowed[n][m[c].file]
  IN  /\ At(c, "find")
      /\ Local(c, IF n \notin dirs THEN Copied(c)
                  ELSE IF ids = {}
                  THEN [m[c] EXCEPT !.dir = Parent[n], !.empties = Append(@, n)]
                  ELSE IF m[c].empties = << >> THEN Copied(c)
                  ELSE [m[c] EXCEPT !.pc = "fill", !.value = ids])

(* copy_from_parent writes the set it has found, from the top down, and stops
   at the first write that fails. *)
copy_from_parent(c) ==
  LET n == FirstEmpty(m[c].empties)[1]
      rest == FirstEmpty(m[c].empties)[2]
  IN  /\ At(c, "fill")
      /\ IF Accepts(n, m[c].file, m[c].value)
         THEN Put(c, n, m[c].file, m[c].value,
                  IF rest = << >> THEN Copied(c) ELSE [m[c] EXCEPT !.empties = rest])
         ELSE Local(c, Copied(c))

-----------------------------------------------------------------------------
\* The calls.

Start(c, op) == At(c, "idle") /\ op \in mix

New(c) ==
  /\ Start(c, "new")
  /\ Local(c, Creating(c, [Idle EXCEPT !.op = "new"], Len(Path[leaf[c]])))

Writes(c, op, want) ==
  /\ Start(c, op)
  /\ Local(c, [Idle EXCEPT !.op = op, !.pc = "write", !.want = want])

(* Both write the CPUs, then the memory nodes; set_cpuset stops at an error. *)
set_cpuset(c, want) == Writes(c, "set", want)
apply(c, want) == Writes(c, "apply", want)

Write(c) ==
  LET ids == IF m[c].file = "cpus" THEN m[c].want ELSE Ids["mems"]
      next == IF m[c].file = "cpus" THEN [m[c] EXCEPT !.file = "mems"] ELSE Done(c, "ok")
  IN  /\ At(c, "write")
      /\ IF Accepts(leaf[c], m[c].file, ids)
         THEN Put(c, leaf[c], m[c].file, ids, next)
         ELSE Local(c, IF m[c].op = "set" THEN Done(c, "err") ELSE next)

(* The levels set_controller_topdown goes through: path.ancestors() begins with
   the path itself. *)
Levels(c) == Path[leaf[c]]

\* Mutant: from the cgroup up to the top.
LevelsUpwards(c) ==
  LET n == Len(Levels(c)) IN [first |-> n, last |-> 1, after |-> [i \in 1 .. n |-> i - 1]]

\* Mutant: the directory below the root is left out with it.
LevelsBelowTop(c) ==
  LET n == Len(Levels(c))
  IN  [first |-> IF n = 1 THEN 1 ELSE 2, last |-> n, after |-> [i \in 1 .. n |-> i + 1]]

(* The stack is popped from the directory below the root down to the cgroup. *)
PathStack(c) ==
  LET n == Len(Levels(c)) IN [first |-> 1, last |-> n, after |-> [i \in 1 .. n |-> i + 1]]

enable_cpus_topdown(c, want) ==
  /\ Start(c, "topdown")
  /\ Local(c, Creating(c, [Idle EXCEPT !.op = "topdown", !.want = want,
                             !.widens = \A n \in Under(Path[leaf[c]][1]) : allowed[n]["cpus"] \subseteq want],
                       PathStack(c).first))

SetLevel(c) ==
  LET n == Target(c)
      next == IF m[c].level = PathStack(c).last THEN Done(c, "ok")
              ELSE Creating(c, m[c], PathStack(c).after[m[c].level])
  IN  /\ At(c, "level")
      /\ IF Accepts(n, "cpus", m[c].want)
         THEN Put(c, n, "cpus", m[c].want, next)
         ELSE Local(c, Done(c, "err"))

(* A task of the workload is attached to the cgroup in one write. *)
Attach(c) ==
  /\ Start(c, "attach")
  /\ tasks' = IF Usable(leaf[c]) THEN tasks \union {leaf[c]} ELSE tasks
  /\ Becomes(c, [Idle EXCEPT !.op = "attach", !.res = IF Usable(leaf[c]) THEN "ok" ELSE "err"])
  /\ UNCHANGED <<v2, mix, leaf, dirs, allowed, flags>>

Exit(n) ==
  /\ n \in tasks
  /\ tasks' = tasks \ {n}
  /\ UNCHANGED <<v2, mix, leaf, dirs, allowed, flags, m>>

Delete(c) ==
  /\ Start(c, "delete")
  /\ Local(c, [Idle EXCEPT !.op = "delete", !.pc = "rmdir"])

Removed(n) ==
  /\ dirs' = dirs \ {n}
  /\ allowed' = [allowed EXCEPT ![n] = Empty]
  /\ flags' = [flags EXCEPT ![n] = {}]
  /\ UNCHANGED <<v2, mix, leaf, tasks>>

Removable(n) == n \in dirs \ tasks /\ Children(n) \intersect dirs = {}

(* On v2 there is one rmdir, on v1 remove_dir removes the directories below
   first; a task in one of them is an error (FsManagerV1 has the tries). *)
Rmdir(c) ==
  LET below == Under(leaf[c])
  IN  /\ At(c, "rmdir")
      /\ \/ /\ v2 /\ Removable(leaf[c])
            /\ Removed(leaf[c]) /\ BecomesSeen(c, Done(c, "ok"), Nodes)
         \/ v2 /\ ~Removable(leaf[c]) /\ Local(c, Done(c, "err"))
         \/ ~v2 /\ leaf[c] \notin dirs /\ Local(c, Done(c, "ok"))
         \/ ~v2 /\ below \intersect tasks # {} /\ Local(c, Done(c, "err"))
         \/ \E n \in {k \in below : ~v2 /\ Removable(k)} :
              Removed(n) /\ BecomesSeen(c, m[c], Nodes)

-----------------------------------------------------------------------------
\* The setters of the flags: one write each.

WriteFlag(c, flag, b) ==
  LET n == leaf[c]
  IN  /\ Start(c, "flag")
      /\ b => Cardinality(UNION {{<<k, x>> : x \in flags[k]} : k \in Nodes \ {Root}}) < MaxFlags
      /\ IF AcceptsFlag(n, flag, b)
         THEN /\ flags' = [flags EXCEPT ![n] = IF b THEN @ \union {flag} ELSE @ \ {flag}]
              /\ BecomesSeen(c, [Idle EXCEPT !.op = "flag", !.res = "ok"], Nodes)
              /\ UNCHANGED <<v2, mix, leaf, dirs, allowed, tasks>>
         ELSE Local(c, [Idle EXCEPT !.op = "flag", !.res = "err"])

set_cpu_exclusive(c, b) == WriteFlag(c, "cpu_exclusive", b)
set_mem_exclusive(c, b) == WriteFlag(c, "mem_exclusive", b)
set_hardwall(c, b) == WriteFlag(c, "mem_hardwall", b)
set_load_balancing(c, b) == WriteFlag(c, "sched_load_balance", b)
set_memory_migration(c, b) == WriteFlag(c, "memory_migrate", b)
set_memory_spread_page(c, b) == WriteFlag(c, "memory_spread_page", b)
set_memory_spread_slab(c, b) == WriteFlag(c, "memory_spread_slab", b)

(* A level is a number; "on" is any but the default -1. *)
set_rebalance_relax_domain_level(c, b) == WriteFlag(c, "sched_relax_domain_level", b)

(* The file is in the root only, where no handle is. *)
set_enable_memory_pressure(c) ==
  /\ Start(c, "flag")
  /\ Local(c, [Idle EXCEPT !.op = "flag", !.res = "err"])

SetFlag(c) ==
  \/ \E b \in BOOLEAN :
       \/ set_cpu_exclusive(c, b) \/ set_mem_exclusive(c, b) \/ set_hardwall(c, b)
       \/ set_load_balancing(c, b) \/ set_memory_migration(c, b)
       \/ set_memory_spread_page(c, b) \/ set_memory_spread_slab(c, b)
       \/ set_rebalance_relax_domain_level(c, b)
  \/ set_enable_memory_pressure(c)

-----------------------------------------------------------------------------
Next ==
  \/ \E c \in Clients :
       \/ New(c) \/ Attach(c) \/ Delete(c) \/ SetFlag(c)
       \/ \E want \in Wants : set_cpuset(c, want) \/ apply(c, want) \/ enable_cpus_topdown(c, want)
       \/ Mkdir(c) \/ find_no_empty_parent(c) \/ copy_from_parent(c)
       \/ Write(c) \/ SetLevel(c) \/ Rmdir(c)
  \/ \E n \in Nodes : Exit(n)

Spec == Init /\ [][Next]_vars

-----------------------------------------------------------------------------
\* Properties.

Call == [pc : {"idle", "mkdir", "find", "fill", "write", "level", "rmdir"}, op : Ops,
         want : Wants \union {{}}, level : Nat \ {0}, dir : Nodes, goal : Nodes, down : BOOLEAN,
         file : Files, value : SUBSET UNION {Ids[f] : f \in Files}, empties : Seq(Nodes),
         res : {"none", "ok", "err"}, seen : {"still", "grown", "upset"}, widens : BOOLEAN]

(* Types, and the kernel's own rules: no directory without the one above, on v1
   no set outside the parent's and no task in an empty cpuset. *)
TypeOK ==
  /\ v2 \in BOOLEAN /\ mix \in Mixes /\ leaf \in Leaves
  /\ Root \in dirs /\ dirs \subseteq Nodes /\ \A n \in dirs \ {Root} : Parent[n] \in dirs
  /\ \A n \in Nodes, f \in Files : allowed[n][f] \subseteq IF n \in dirs THEN Ids[f] ELSE {}
  /\ \A n \in Nodes \ {Root}, f \in Files : ~v2 => allowed[n][f] \subseteq allowed[Parent[n]][f]
  /\ \A n \in tasks : Usable(n)
  /\ m \in [Clients -> Call]

Returns(c, op, r) == ~At(c, "idle") /\ m[c].op = op /\ At(c, "idle")' /\ m'[c].res = r

(* No cpuset on the way to n is kept apart from its siblings. *)
Shared(n) ==
  \A k \in On(n) : \A s \in Siblings(k) \union {k}, f \in Files : Exclusive[f] \notin flags[s]

(* A new cgroup takes tasks: post_create has filled it, and every empty ancestor
   that was made on the way, though other handles create cgroups in the same
   directories at the same time (cpuset.rs:120).  Only a handle that removes a
   directory or changes a set that was there, or an exclusive sibling, prevents it. *)
CreatedUsable ==
  [][\A c \in Clients : Returns(c, "new", "ok") /\ m[c].seen # "upset" /\ Shared(leaf[c])
       => Usable(leaf[c])']_vars

(* The copy fills only empty files ("if the file's contents are 0",
   cpuset.rs:170) as long as nobody else sets one meanwhile. *)
CopyKeepsSets ==
  [][\A c \in Clients :
       At(c, "fill") /\ m[c].seen # "upset" /\ m'[c].empties # m[c].empties
         => \A n \in Nodes, f \in Files : allowed[n][f] \in {{}, allowed'[n][f]}]_vars

(* enable_cpus_topdown that returns Ok has given the CPUs to every level above the
   cgroup, from the directory below the root to its parent (manager/fs.rs:442). *)
TopdownCovers ==
  [][\A c \in Clients : Returns(c, "topdown", "ok") /\ m[c].seen # "upset" =>
       \A n \in On(leaf[c]) \ {leaf[c]} : allowed'[n]["cpus"] = m[c].want]_vars

(* None of its writes is to the CPUs of the cgroup itself, which is "not included"
   (manager/fs.rs:448): the caller sets them (manager/mod.rs:58). *)
TopdownSparesOwn ==
  [][\A c \in Clients : At(c, "level") /\ ~ At(c, "level")' =>
       allowed'[leaf[c]]["cpus"] = allowed[leaf[c]]["cpus"]]_vars

(* Left alone, it succeeds whenever no cgroup below has more CPUs than it asks
   for: each level is widened before the one below needs it. *)
WideningSucceeds ==
  [][\A c \in Clients : Returns(c, "topdown", "err") /\ m[c].seen = "still" /\ Shared(leaf[c])
       => ~ m[c].widens]_vars
=============================================================================
