---------------------------- MODULE FsManagerV1 ----------------------------
(***************************************************************************)
(* FsManager on cgroup v1: the life of one managed cgroup that exists once *)
(* per mounted hierarchy ("subsystem").  Clients are FsManager handles on  *)
(* that cgroup, in one process or in several.  Every directory or file     *)
(* access is one step, so that handles, and the workload that forks, exits *)
(* and nests cgroups of its own, interleave between any two of them.       *)
(*                                                                         *)
(* What the kernel does with a mkdir, a rmdir or a write to `tasks' and    *)
(* `cgroup.procs' is modelled in the actions that make the call.           *)
(***************************************************************************)
EXTENDS Naturals, FiniteSets

CONSTANTS
  NSub,      \* number of hierarchies; 1..NSub in the order of V1::subsystems
  Clients,   \* FsManager handles
  Tasks,     \* task ids, never reused
  Tgid,      \* thread group of a task
  Alive0,    \* tasks alive at the start
  Born,      \* hierarchies where the cgroup exists at the start, with Alive0
  Ops,       \* what the clients call
  Faults,    \* what the kernel may refuse: "mkdir", "attach"
  Nesting,   \* may the workload create a cgroup below the managed one?
  MaxTries   \* tries of remove_dir in delete (5 in the code)

Subs  == 1 .. NSub
Tries == 1 .. MaxTries
AllOps == {"add_proc", "add_thread", "destroy"}

ASSUME NSubAssumption  == NSub \in Nat \ {0}
ASSUME TgidAssumption  == Tasks # {} /\ Tgid \in [Tasks -> Tasks]
ASSUME TriesAssumption == MaxTries \in Nat \ {0}
ASSUME StartAssumption == Alive0 \subseteq Tasks /\ Born \subseteq Subs
ASSUME EnvAssumption   == /\ Ops \subseteq AllOps
                          /\ Faults \subseteq {"mkdir", "attach"}
                          /\ Nesting \in BOOLEAN

VARIABLES
  dirs,   \* hierarchies in which the cgroup's directory exists
  kids,   \* hierarchies in which it has a child cgroup
  loc,    \* cgroup of each task in each hierarchy: "root", "cg" or "kid"
  life,   \* "unborn", "alive", "exiting" (still counted), "gone" (zombie or reaped)
  m       \* call in progress of each client

kernel == <<dirs, kids, loc, life>>
vars   == <<dirs, kids, loc, life, m>>

Labels == {"idle", "exists", "mkdir", "attach", "list", "move", "delete",
           "rm", "rm_exists", "rm_list", "rm_kid", "rm_dir"}
Manager == [pc : Labels, op : AllOps, arg : Tasks, sub : Subs,
            tries : Tries, todo : SUBSET Tasks, res : {"none", "ok", "err"}]

Init ==
  /\ dirs = Born
  /\ kids = {}
  /\ loc  = [t \in Tasks |-> [s \in Subs |->
               IF t \in Alive0 /\ s \in Born THEN "cg" ELSE "root"]]
  /\ life = [t \in Tasks |-> IF t \in Alive0 THEN "alive" ELSE "unborn"]
  /\ m = [c \in Clients |->
            [pc |-> "idle", op |-> "destroy", arg |-> CHOOSE t \in Tasks : TRUE,
             sub |-> 1, tries |-> 1, todo |-> {}, res |-> "none"]]

-----------------------------------------------------------------------------
\* Control of one call.

At(c, label) == m[c].pc = label

Becomes(c, r) == m' = [m EXCEPT ![c] = r]

\* Go on with the first hierarchy at a label.
Enter(c, label) == Becomes(c, [m[c] EXCEPT !.pc = label, !.sub = 1, !.tries = 1])

Return(c, r) == Becomes(c, [m[c] EXCEPT !.pc = "idle", !.res = r, !.sub = 1,
                               !.tries = 1, !.todo = {}])

\* Mutant: the loop runs once too often.
NextSubTooFar(c, after) ==
  IF m[c].sub <= NSub THEN Becomes(c, [m[c] EXCEPT !.sub = @ + 1, !.tries = 1]) ELSE after

\* The loop over self.subsystems(): the next hierarchy, or what follows the loop.
NextSub(c, after) ==
  IF m[c].sub < NSub THEN Becomes(c, [m[c] EXCEPT !.sub = @ + 1, !.tries = 1]) ELSE after

Group(t) == {u \in Tasks : Tgid[u] = Tgid[t]}

\* A write of t to `cgroup.procs' of cgroup g moves the live threads of the
\* whole group, a write to `tasks' only t; both only in hierarchy s.  A task
\* that has begun to exit stays where it is, though the write succeeds.
Moved(who, s, g) ==
  [t \in Tasks |-> IF t \in who /\ life[t] = "alive" THEN [loc[t] EXCEPT ![s] = g] ELSE loc[t]]

Populated(s, g) == \E t \in Tasks : life[t] \in {"alive", "exiting"} /\ loc[t][s] = g

Removable(s) == s \in dirs /\ s \notin kids /\ ~Populated(s, "cg")

-----------------------------------------------------------------------------
\* Operations of the manager.

Call(c) ==
  /\ At(c, "idle")
  /\ \E o \in Ops, t \in Tasks :
       /\ o = "destroy" => t = m[c].arg
       /\ o # "destroy" => life[t] # "unborn"
       /\ Becomes(c, [m[c] EXCEPT !.pc = "exists", !.op = o, !.arg = t, !.res = "none"])
  /\ UNCHANGED kernel

\* Cgroup::exists, one directory after the other, true at the first found.
\* create_cgroups and destroy both begin with it.
Exists(c) ==
  /\ At(c, "exists")
  /\ IF m[c].sub \in dirs
     THEN Enter(c, IF m[c].op = "destroy" THEN "list" ELSE "attach")
     ELSE NextSub(c, IF m[c].op = "destroy" THEN Return(c, "ok") ELSE Enter(c, "mkdir"))
  /\ UNCHANGED kernel

\* Cgroup::create, one hierarchy after the other, stopping at the first error.
Mkdir(c) ==
  /\ At(c, "mkdir")
  /\ dirs' = dirs \cup {m[c].sub}
  /\ NextSub(c, Enter(c, "attach"))
  /\ UNCHANGED <<kids, loc, life>>

MkdirFails(c) ==
  /\ At(c, "mkdir") /\ "mkdir" \in Faults /\ m[c].sub \notin dirs
  /\ Return(c, "err")
  /\ UNCHANGED kernel

\* Mutant: add_proc writes to `tasks' as add_thread does.
AttachOne(c) ==
  /\ At(c, "attach") /\ m[c].sub \in dirs
  /\ loc' = Moved({m[c].arg}, m[c].sub, "cg")
  /\ NextSub(c, Return(c, "ok"))
  /\ UNCHANGED <<dirs, kids, life>>

\* add_task_by_tgid and add_task, one hierarchy after the other.
Attach(c) ==
  LET s == m[c].sub
      who == IF m[c].op = "add_proc" THEN Group(m[c].arg) ELSE {m[c].arg}
  IN /\ At(c, "attach") /\ s \in dirs
     /\ loc' = Moved(who, s, "cg")
     /\ NextSub(c, Return(c, "ok"))
     /\ UNCHANGED <<dirs, kids, life>>

\* Mutant: a hierarchy that fails is skipped.
AttachFailsSkips(c) ==
  /\ At(c, "attach")
  /\ m[c].sub \notin dirs \/ life[m[c].arg] = "gone" \/ "attach" \in Faults
  /\ NextSub(c, Return(c, "err"))
  /\ UNCHANGED kernel

\* No such file, no such process, or the kernel refuses: the loop stops.
AttachFails(c) ==
  /\ At(c, "attach")
  /\ m[c].sub \notin dirs \/ life[m[c].arg] = "gone" \/ "attach" \in Faults
  /\ Return(c, "err")
  /\ UNCHANGED kernel

\* Mutant: the tasks of the last hierarchy only.
ListLast(c) ==
  LET s == m[c].sub
      found == {t \in Tasks : life[t] \in {"alive", "exiting"} /\ loc[t][s] = "cg"}
  IN /\ At(c, "list")
     /\ IF s < NSub THEN Becomes(c, [m[c] EXCEPT !.sub = s + 1, !.todo = found])
        ELSE Becomes(c, [m[c] EXCEPT !.sub = 1, !.todo = found,
                                     !.pc = IF found = {} THEN "delete" ELSE "move"])
     /\ UNCHANGED kernel

\* Cgroup::tasks, the union of the `tasks' files; a missing file is empty.
List(c) ==
  LET s == m[c].sub
      found == {t \in Tasks : life[t] \in {"alive", "exiting"} /\ loc[t][s] = "cg"}
      all == m[c].todo \cup found
  IN /\ At(c, "list")
     /\ IF s < NSub THEN Becomes(c, [m[c] EXCEPT !.sub = s + 1, !.todo = all])
        ELSE Becomes(c, [m[c] EXCEPT !.sub = 1, !.todo = all,
                                     !.pc = IF all = {} THEN "delete" ELSE "move"])
     /\ UNCHANGED kernel

\* The migration of task t is over: the next one, or the deletion.
Dropped(c, t) ==
  Becomes(c, [m[c] EXCEPT !.sub = 1, !.todo = @ \ {t},
                 !.pc = IF m[c].todo \subseteq {t} THEN "delete" ELSE "move"])

Migrating(c, t) ==
  /\ At(c, "move")
  /\ t \in m[c].todo
  /\ m[c].sub > 1 => t = m[c].arg

\* Mutant: only the first hierarchy's root gets the task.
MoveFirst(c) ==
  \E t \in Tasks :
    /\ Migrating(c, t)
    /\ loc' = Moved({t}, m[c].sub, "root")
    /\ Dropped(c, t)
    /\ UNCHANGED <<dirs, kids, life>>

\* Cgroup::remove_task: a write to the root's `tasks' in every hierarchy.
Move(c) ==
  \E t \in Tasks :
    /\ Migrating(c, t)
    /\ loc' = Moved({t}, m[c].sub, "root")
    /\ IF m[c].sub < NSub THEN Becomes(c, [m[c] EXCEPT !.sub = @ + 1, !.arg = t])
       ELSE Dropped(c, t)
    /\ UNCHANGED <<dirs, kids, life>>

\* The first error ends the migration of t, and is ignored.
MoveFails(c) ==
  \E t \in Tasks :
    /\ Migrating(c, t)
    /\ life[t] = "gone" \/ "attach" \in Faults
    /\ Dropped(c, t)
    /\ UNCHANGED kernel

\* Controller::delete of one hierarchy begins.
Delete(c) ==
  /\ At(c, "delete")
  /\ IF m[c].sub \in dirs THEN Becomes(c, [m[c] EXCEPT !.pc = "rm", !.tries = 1])
     ELSE NextSub(c, Return(c, "ok"))
  /\ UNCHANGED kernel

\* This hierarchy is done, on to the next one.
Deleted(c) ==
  IF m[c].sub < NSub
  THEN Becomes(c, [m[c] EXCEPT !.sub = @ + 1, !.tries = 1, !.pc = "delete"])
  ELSE Return(c, "ok")

\* Mutants: the last error is ignored; the tries are not counted.
TryFailedGoesOn(c) ==
  IF m[c].tries < MaxTries THEN Becomes(c, [m[c] EXCEPT !.tries = @ + 1, !.pc = "rm"])
  ELSE Deleted(c)

TryFailedForever(c) == Becomes(c, [m[c] EXCEPT !.pc = "rm"])

\* A call of remove_dir failed: sleep and try again, or give up.
TryFailed(c) ==
  IF m[c].tries < MaxTries THEN Becomes(c, [m[c] EXCEPT !.tries = @ + 1, !.pc = "rm"])
  ELSE Return(c, "err")

\* remove_dir, first lines: the fast path.
Rm(c) ==
  /\ At(c, "rm")
  /\ \/ /\ Removable(m[c].sub)
        /\ dirs' = dirs \ {m[c].sub}
        /\ Deleted(c)
     \/ /\ ~Removable(m[c].sub)
        /\ Becomes(c, [m[c] EXCEPT !.pc = "rm_exists"])
        /\ UNCHANGED dirs
  /\ UNCHANGED <<kids, loc, life>>

\* dir.exists(): someone else may have removed it.
RmExists(c) ==
  /\ At(c, "rm_exists")
  /\ IF m[c].sub \in dirs THEN Becomes(c, [m[c] EXCEPT !.pc = "rm_list"]) ELSE Deleted(c)
  /\ UNCHANGED kernel

\* read_dir: an error if the directory is gone by now.
RmList(c) ==
  /\ At(c, "rm_list")
  /\ IF m[c].sub \in dirs
     THEN Becomes(c, [m[c] EXCEPT !.pc = IF m[c].sub \in kids THEN "rm_kid" ELSE "rm_dir"])
     ELSE TryFailed(c)
  /\ UNCHANGED kernel

\* The recursive call on the child.
RmKid(c) ==
  /\ At(c, "rm_kid")
  /\ \/ /\ ~Populated(m[c].sub, "kid")
        /\ kids' = kids \ {m[c].sub}
        /\ Becomes(c, [m[c] EXCEPT !.pc = "rm_dir"])
     \/ /\ Populated(m[c].sub, "kid")
        /\ TryFailed(c)
        /\ UNCHANGED kids
  /\ UNCHANGED <<dirs, loc, life>>

RmDir(c) ==
  /\ At(c, "rm_dir")
  /\ \/ /\ Removable(m[c].sub)
        /\ dirs' = dirs \ {m[c].sub}
        /\ Deleted(c)
     \/ /\ ~Removable(m[c].sub)
        /\ TryFailed(c)
        /\ UNCHANGED dirs
  /\ UNCHANGED <<kids, loc, life>>

Step(c) ==
  \/ Exists(c) \/ Mkdir(c) \/ MkdirFails(c) \/ Attach(c) \/ AttachFails(c)
  \/ List(c) \/ Move(c) \/ MoveFails(c) \/ Delete(c)
  \/ Rm(c) \/ RmExists(c) \/ RmList(c) \/ RmKid(c) \/ RmDir(c)

-----------------------------------------------------------------------------
\* The workload.

\* A new thread of t's group, or a new process, starts where t is.
Fork(t, u) ==
  /\ life[t] = "alive" /\ life[u] = "unborn"
  /\ Tgid[u] = Tgid[t] \/ \A v \in Group(u) : life[v] = "unborn"
  /\ life' = [life EXCEPT ![u] = "alive"]
  /\ loc' = [loc EXCEPT ![u] = loc[t]]
  /\ UNCHANGED <<dirs, kids, m>>

Exit(t) ==
  /\ life[t] = "alive"
  /\ life' = [life EXCEPT ![t] = "exiting"]
  /\ UNCHANGED <<dirs, kids, loc, m>>

Release(t) ==
  /\ life[t] = "exiting"
  /\ life' = [life EXCEPT ![t] = "gone"]
  /\ loc' = [loc EXCEPT ![t] = [s \in Subs |-> "root"]]
  /\ UNCHANGED <<dirs, kids, m>>

\* The workload creates a child cgroup if there is none and moves a task there.
Nest(t, s) ==
  /\ Nesting /\ life[t] = "alive" /\ loc[t][s] = "cg"
  /\ kids' = kids \cup {s}
  /\ loc' = [loc EXCEPT ![t][s] = "kid"]
  /\ UNCHANGED <<dirs, life, m>>

Workload ==
  \/ \E t, u \in Tasks : Fork(t, u)
  \/ \E t \in Tasks : Exit(t)
  \/ \E t \in Tasks : Release(t)
  \/ \E t \in Tasks, s \in Subs : Nest(t, s)

Next == \/ \E c \in Clients : Call(c)
        \/ \E c \in Clients : Step(c)
        \/ Workload

Spec == Init /\ [][Next]_vars

\* A client's call makes progress, a caller whose destroy has not succeeded
\* calls it again, an exited task is released in the end.
Fairness == /\ \A c \in Clients : WF_vars(Step(c)) /\ WF_vars(Call(c))
            /\ \A t \in Tasks : WF_vars(Release(t))
FairSpec == Spec /\ Fairness

-----------------------------------------------------------------------------
\* Properties.

\* Every variable keeps its type, and the kernel's own rule: a task is only
\* ever in a cgroup that exists.
TypeOK ==
  /\ dirs \subseteq Subs /\ kids \subseteq dirs
  /\ loc \in [Tasks -> [Subs -> {"root", "cg", "kid"}]]
  /\ life \in [Tasks -> {"unborn", "alive", "exiting", "gone"}]
  /\ m \in [Clients -> Manager]
  /\ \A t \in Tasks, s \in Subs : /\ loc[t][s] = "cg" => s \in dirs
                                  /\ loc[t][s] = "kid" => s \in kids
                                  /\ life[t] \in {"unborn", "gone"} => loc[t][s] = "root"

\* A step in which client c's call of o returns r.
Returns(c, o, r) == ~At(c, "idle") /\ m[c].op = o /\ At(c, "idle")' /\ m'[c].res = r

Alone(t) == \A s \in Subs : loc[t][s] = "root"

\* hierarchies.rs:124-126 orders the hierarchies so that a task joins the
\* blkio cgroup before the memory cgroup.  As long as nobody destroys the
\* cgroup, a task is in a later hierarchy's cgroup only if it is in every
\* earlier one's, whatever fails in between, whoever else adds or forks.
JoinOrder ==
  \A t \in Tasks : \A s, r \in Subs : s < r /\ loc[t][r] # "root" => loc[t][s] # "root"

\* add_proc that returns Ok has every live thread of the process inside the
\* cgroup of every hierarchy, those cloned while it ran included.
AddProcMovesGroup ==
  [][\A c \in Clients : Returns(c, "add_proc", "ok") =>
       \A t \in Group(m[c].arg) : life'[t] = "alive" =>
         \A s \in Subs : loc'[t][s] # "root"]_vars

\* destroy that returns Ok leaves no directory behind in any hierarchy, also
\* when an earlier destroy stopped half-way or another one runs at the same time.
DestroyLeavesNothing ==
  [][\A c \in Clients : Returns(c, "destroy", "ok") => dirs' = {} /\ kids' = {}]_vars

\* When destroy begins to delete, every live task that was not forked since the
\* start has been moved out of every hierarchy, so that no removal fails with
\* EBUSY for a task that was there all along (manager/fs.rs:775-777).
EmptyBeforeDelete ==
  [][\A c \in Clients : ~At(c, "delete") /\ At(c, "delete")' /\ m'[c].sub = 1 =>
       \A t \in Alive0 : life'[t] = "alive" =>
         \A s \in Subs : loc'[t][s] # "cg"]_vars

\* A caller that repeats destroy gets rid of the cgroup in every hierarchy once
\* the workload has stopped forking and no live task is left in a child cgroup
\* of its own, which destroy does not list (manager/fs.rs:784).
DestroyConverges ==
  <>[](\A s \in Subs : ~Populated(s, "kid")) => <>[](dirs = {})

\* Every call returns.
CallsReturn == \A c \in Clients : ~At(c, "idle") ~> At(c, "idle")

=============================================================================
