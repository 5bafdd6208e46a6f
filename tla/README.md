# A TLA+ model of cgroups-rs

cgroups-rs manages Linux control groups: it creates, populates, limits and
removes cgroups on cgroup v1 (one directory per mounted hierarchy) and v2 (one
unified tree), directly through the cgroup file system or through systemd.
The program itself has little concurrency, but everything it touches is shared:
the kernel's tree, systemd's units, and the processes in a cgroup, which fork
and exit while they are being moved. The modules here make each file access and
each D-Bus call one step and let all parties interleave between any two.

File references are relative to the crate's `src/`.

## Inventory

| Part | State | Operations | Talks to | What must hold |
|---|---|---|---|---|
| `FsManager` on v1 (`manager/fs.rs`, `fs/cgroup.rs`, `fs/mod.rs`) | none of its own; the cgroup's directory and tasks in every hierarchy | `create_cgroups`, `add_proc`, `add_thread`, `destroy` | kernel, other handles, the workload | order of joining, whole process moved, nothing left after destroy, bounded retries |
| `FsManager` on v2 (`create_v2_cgroup`, `add_task*`, `delete`) | the tree, `cgroup.subtree_control`, `cgroup.type` | the same, `set_cgroup_type`, `kill`, `move_task_to_parent_by_tgid` | the same, handles on sibling cgroups | a leaf has its controllers; adding works; domain cgroups are emptied before the rmdir |
| `SystemdManager`, `SystemdClient` (`manager/systemd.rs`, `systemd/dbus/client.rs`) | the properties kept for the unit | `add_proc`, `destroy`, `set`, `freeze`; `start`, `stop`, `set_properties`, `freeze`, `thaw` | systemd over D-Bus | no missed signal, no foreign signal, no lost property, every call returns |
| OOM events (`fs/events.rs`) | watcher thread, baseline, channel | `register_oom_event` | kernel (inotify, eventfd), receiver | each message is news, no OOM missed, channel closed at the end |
| Memory limits (`fs/memory.rs`, `manager/fs.rs`, `manager/conv.rs`) | limit files | `set_memory`, `set_mem`, `apply` | kernel, the workload's usage | limit and memory+swap limit change in the right order, nothing dropped, a rejected request changes nothing |
| CPU bandwidth (`fs/cpu.rs`, `manager/conv.rs`) | `cpu.max`, `cpu.cfs_*`, `cpu.rt_*` | `set_cfs_quota`, `set_cfs_period`, `set_rt_*` | kernel, other writers | a change of one half of `cpu.max` keeps the other |
| Other controllers (`pid`, `hugetlb`, `blkio`, `devices`, `net_cls`, `net_prio`) | one file per value, blkio per disk | `set_*`, `apply` | kernel | an Ok means in force; order and partial failure of `update_and_test!` |
| Freezer (`fs/freezer.rs`) | `freezer.state`, `cgroup.freeze` | `freeze` | kernel, which freezes later (v1) | |
| Cpuset tree (`fs/cpuset.rs`, `set_controller_topdown`) | `cpuset.cpus`, `cpuset.mems` and flags of every directory | `post_create`, `set_cpuset`, `apply`, `enable_cpus_topdown`, the flags' setters | kernel, handles above, below and beside | a new cpuset takes tasks, a copy does not replace what another has filled, every level above is reached |
| Statistics (`FsManager::stats`, the readers and parsers of `fs/*.rs`, `stats.rs`) | none; counters in the kernel | `stats`, `reset_*` | kernel, the workload, handles that reset | the numbers of one call fit each other; no panic |
| Builder, discovery of hierarchies, systemd's properties and names, D-Bus proxy, errors, CI | | | | setters, parsing, pure functions, generated code: not modelled |

Hard to test in this code: the workload's forks and exits between a listing and
a rmdir; several handles on one cgroup, in one process or in several; calls that
stop half-way through the hierarchies; migration and enabling errors that are
ignored; D-Bus signals that overtake the caller; a kernel that notifies late and
drops events; names that are taken again; numbers read from a dozen files while
they move; cpusets filled while others fill or widen them. `PROJECT.json` lists each at its line.

## Modules

| Module | Models |
|---|---|
| `FsManagerV1` | life of one managed cgroup in `NSub` v1 hierarchies |
| `FsManagerV1Proofs` | theorems about it |
| `FsManagerV2` | leaves of the unified tree, handles with common ancestors |
| `FsManagerV2Proofs` | theorems for every tree: controllers, adding, emptying |
| `SystemdManager` | handles on one transient unit, and systemd's jobs and signals |
| `SystemdManagerProofs` | theorems: signals, ends of jobs, the limit |
| `OomChannel` | what `register_oom_event` promises |
| `OomEvents` | the watcher of v2 (inotify) and v1 (eventfd), which implements `OomChannel` |
| `OomEventsProofs` | that it does, for every size |
| `FsResources` | the control files of a cgroup; `FsManager::set`, `Cgroup::apply`, `set_mem`, `freeze` |
| `FsResourcesProofs` | theorems for every request: types, tested values, order of limits, rejected requests |
| `FsSetProofs` | theorems for every request of `set`: what it leaves in the files, and what it leaves alone |
| `CpusetTree` | the cpusets of a hierarchy: copy on create, sets, `enable_cpus_topdown`, flags |
| `CpusetTreeProofs` | theorems for every tree: types, copies, levels, new cgroups |
| `StatFiles` | the parsers of the statistics files, as operators on their text |
| `Statistics` | `FsManager::stats`, file by file; extends `StatFiles` |
| `StatisticsProofs` | theorems for every machine: types, usage and maximum, throttling, limits, failures, CPU times, I/O lists, no panic |
| `MC*` | small instances for TLC |

The modules are not composed with each other: `set`, `stats`, `freeze` and
`enable_cpus_topdown` of `FsManager` work on files of an existing cgroup that the
life of the cgroup does not read, and their modules have its removal and return
where they can meet it (`Statistics`, `CpusetTree`).

### FsManagerV1

Clients are handles. `m[c]` is the call in progress: its label, operation,
argument, current hierarchy, current try, the tasks still to migrate, and the
last result. `dirs` and `kids` are the directories that exist per hierarchy,
`loc` is the cgroup of every task in every hierarchy, `life` its life; a task
that has exited but is still counted by the kernel is `"exiting"`.
`create_cgroups` is `Exists`, `Mkdir`, `MkdirFails`; `add_task*` is `Attach`,
`AttachFails`; `destroy` is `List`, `Move`, `MoveFails`, then per hierarchy
`Delete` and the recursive `remove_dir` (`Rm`, `RmExists`, `RmList`, `RmKid`,
`RmDir`), `TryFailed` and `Deleted`. The workload is `Fork` (processes and
threads), `Exit`, `Release`, and, where `Nesting` is TRUE, `Nest`: a task makes
a cgroup of its own below the managed one. A task id is never reused. The depth
of nesting is one, enough for a directory whose removal needs a recursion.

### FsManagerV2

The same calls on one tree. A handle's `Path` goes from a child of the root to
its leaf. Creation verifies the controllers against `cgroup.controllers`, then
enables them on the root and on each ancestor, one write per controller whose
error is ignored, and makes each directory. The kernel's rules (no processes in
a node that distributes domain controllers, what makes a threaded domain, which
rmdir is refused) are operators of the section "kernel". The controllers are
domain controllers; cpu, cpuset and pids, which are allowed in threaded
subtrees, are not distinguished. `kill` looks for its file and writes it (two
steps): the processes of the cgroup begin to exit, the kernel releases them
later, so a destroy right after it may fail. `move_task_to_parent_by_tgid` is
called by the handle whose parent is the root. `AddFailsOnlyIfGone` and `LeafHasControllers`
are checked for handles none of whose leaves is above another's.

### SystemdManager

Every D-Bus call of `add_proc`, `destroy`, `set` and `freeze` is one action. `props[c]` is
the handle's own copy of the unit's properties, reduced to the PIDs and one
limit. systemd (`StartEnds`, `StopEnds`, `ScopeEnds`) runs jobs when it likes, a
stop replaces a queued start, a scope whose processes had to be killed stays
loaded as failed, `JobRemoved` reaches whoever has its listener installed.
A unit is frozen or
thawed only while it is active without a job, and thawed by a stop.
`CallFails` is a D-Bus failure before or after systemd has acted. Creation of
the cgroups after the start is one step here that works or fails.

### OomEvents

`count` is the `oom` line of `memory.events`; the kernel notifies changes late
and merged (`Notify`), other lines change too (`Touch`), removal of siblings
fills the queue (`Sibling`), a full queue takes one overflow event and drops the
rest. Registration is three steps (`WatchParent`, `WatchFile`, `Baseline`); the
thread reads the whole queue and looks at its events one by one, each with a new
read of the file. On v1 the eventfd counts OOMs and the removal;
`notify_memory_pressure` (`events.rs:144`) runs the same code on another file.
`ooms`, `seen`, `told`, `ends` are auxiliary variables: they record what happened and no action
of the program reads them. `OomChannel` is the abstract specification, and
`KeepsPromise == Channel!Spec` is checked as a refinement and proved: `INSTANCE
OomChannel WITH` maps its variables to the watcher's, and every other step of
the watcher and the kernel is a stutter of the channel.

### FsResources

`FsManager::set`, `Cgroup::apply`, `MemController::set_mem` and
`FsManager::freeze` are sequences of file accesses, and the model writes them as
such: `Set(r)`, `Apply(r)`, `SetMem(r)` and `SetFreezer(r)` are the sequences of
steps for a request `r`, `call.todo` is what is left of one. A step is a write whose
error ends the call (`Write`), one whose error is ignored (`Update`, the macro
`update!`), a readback (`Test`, the second half of `update_and_test!`), an error
of the code itself (`Fail`), or a read whose value decides the steps that take
its place (`ReadMemory` for `memory_stat()`, `ReadCpuMax`). `file` holds the
values in force, on v1 and v2 under one name per purpose. The kernel's part is
`Refused`, `Busy` and `Written`: on v1 the limit of memory may not exceed that of
memory and swap, a limit below the usage needs reclaim that may fail, shares are
clamped, huge page limits rounded, a quota may not exceed the parent's.
`Charge` changes the usage between any two steps. `Wanted(r, b)` is the
reference for `set`: what each file but the freezer's should hold after request `r` if it held
`b`; a disk, an interface or a device that is named twice gets what comes last (so
`OnlyRequested`, which looks at every moment of a call, is about requests that are
`Distinct`). On v2 it does not hold for requests without a swap limit (`Handled`): with a
positive memory limit swap is turned off (`conv.rs:46` returns 0 for "unset" and
`manager/fs.rs:271` writes it), without one nothing is written; the run
`resources_unlimited` shows the latter. `apply` promises less: only the values
it reads back are in force when it returns Ok (`OkMeansTested`); those of memory
may have been refused. Files that a kernel or the I/O scheduler of the moment may
not have (`Missing`) fail at any time; a device or an interface that is not
there is refused. A device of `set` whose type the code does not know ends the call
(`Rule`, an error of its own); `apply` takes types only that it knows (`Typed`). On
v2 `set` fails for want of a devices controller, also with an empty list of devices. blkio is one operator, `Blkio`, that `set` uses with
writes and `apply` with updates; the throttling rates of v2 are the four numbers of a
line of `io.max`. On v1 a frozen cgroup is first `"freezing"`, and the kernel
says when it is frozen (`Freezes`).

Lists of CPUs are numbers here (n stands for 0 to n-1; the sets themselves are in
`CpusetTree`), custom attributes are one file, and there is one size of huge
pages; `set` skips sizes that the system does not support. Not in it: a second
caller of the same cgroup.

### CpusetTree

`allowed[n]` is the content of `cpuset.cpus` and `cpuset.mems` of directory `n`,
`flags[n]` its other files that are on. `new` is `create_dir_all` (`Mkdir`,
directory by directory, up and then down again as the standard library does it)
and, on v1, `post_create` for the CPUs and then the memory nodes: the read
upwards of `find_no_empty_parent` and the writes downwards of
`copy_from_parent`, whose error is logged only. `enable_cpus_topdown` is the
same for each level, followed by its write (`SetLevel`); the levels go down to the
cgroup itself, as in the code. Every handle has a leaf
of its own, below, above or beside that of the other. The kernel's rules (a set
lies within the parent's and around the children's, no empty set under a task,
exclusive siblings share nothing; none of these on v2) are `Accepts` and
`AcceptsFlag`. `seen` is auxiliary: it records whether others have changed
something while a call runs, since the properties say what a call does when it
is left alone or when others only create.

### StatFiles and Statistics

`StatFiles` has one operator per parser, on texts that are sequences of lines of
tokens; a parser yields a value, an error, or a panic where the code unwraps or, in a
build that checks overflow, subtracts below zero. The times of `cpuacct.stat` (ticks)
and of `cpuacct.usage` (ns) are counted in one unit: the code converts neither, and
`CpuTimesWithinTotal` is about the order in which the two files are read.
`Statistics` has the kernel's numbers for one cgroup (`kernel`), the texts of
its files (`FilesOf`), and the sequence `Reads` of the files that
`FsManager::stats` opens, in the order of the code; `ReadFile` reads one of them,
or takes its default. The expressions of the result (`memory_stats`,
`cpu_acct_stats`, ...) are functions of what was read. Around it the workload
moves the numbers, other handles reset them, and the cgroup goes and comes back.
`start` and `upset` are auxiliary: the numbers at the begin of the call, and what
was reset or removed since.

## Runs

| Run | Expect | Shows |
|---|---|---|
| `v1_add` | pass | two handles add, two threads and one more process, mkdir and attach may fail: `JoinOrder`, `AddProcMovesGroup` |
| `v1_destroyers` | pass | two handles destroy a populated cgroup whose tasks fork, exit and nest: `DestroyLeavesNothing`, `EmptyBeforeDelete`, `DestroyConverges`, `CallsReturn` |
| `v2_life` | pass | three handles on two subtrees that add, kill, move out and destroy: `LeafHasControllers`, `AddFailsOnlyIfGone`, `DomainEmptyBeforeRmdir` |
| `v2_threaded` | violation of `EmptyBeforeRmdir` | destroy of a threaded cgroup moves nobody (`manager/fs.rs:779`) |
| `systemd_jobs` | pass | two handles on one unit that add, set, freeze and destroy, D-Bus failures: `NoLostSignal`, `StartOkMeansDone`, `LimitInSync`, `CallsReturn` |
| `systemd_failed` | violation of `DestroyedNotFailed` | the failed state is reset too early (`client.rs:136`) |
| `resources` | pass | both versions, calls one after the other: `OkMeansInForce`, `OnlyRequested`, `LimitsInOrder`, `InvalidChangesNothing`, `OkMeansTested` |
| `resources_unlimited` | violation of `UnlimitedHonoured` | a request for unlimited memory is dropped on v2 (`manager/fs.rs:252`) |
| `oom` | pass | both versions: `KeepsPromise` (refinement), `OomReported`, `ClosedAfterRemoval` |
| `cpuset` | pass | two handles create, set, widen, flag, fill and remove: `CreatedUsable`, `CopyKeepsSets`, `TopdownCovers`, `WideningSucceeds` |
| `cpuset_topdown` | violation of `TopdownSparesOwn` | `enable_cpus_topdown` also writes the CPUs of the cgroup itself (`manager/fs.rs:472`) |
| `stats` | pass | a call on either version while one part of the numbers moves: `UsageWithinMax`, `FailuresBracketed`, `CpuTimesWithinTotal`, `ThrottledWithinPeriods`, `ServicesBracketed`, `LimitsReported`, `NeverPanics` |

Every passing run but `v1_destroyers`, whose four properties are all temporal,
also checks the `TypeOK` of its module.

Bounds. Two hierarchies are enough for every property that compares an earlier
with a later one, two handles for every race between handles (a third on a
separate subtree in `v2_life`), two threads of one process and one other process
for what is said of thread groups. `v1_destroyers` uses two tries
instead of the five of `fs/mod.rs`: a first failure that is retried and a last
one. `v2_life` has two tasks of different processes, one of which is forked.
`systemd_jobs` has four job ids, which are taken again when nobody holds them,
and two signals under way; one pid, and one limit that is set or not. `oom` has
at most two OOMs per cgroup and a queue of two events, so that overflow is
common; the name is taken again at most once. In `resources` sizes are 1 to 3
and unlimited: enough for a limit below, equal to and above another with the usage between them; the requests come in ten families
(memory, reservations, CPU, counts and devices, blkio, network, CPU lists and
real time, `set_mem`, freezer, and one of everything), and callers of one cgroup
keep to one family, since files of different families do not affect each other
except by the order of the steps, which the last family covers. There is one
disk and one interface that exist and one of each that does not.
In `cpuset` the tree has a directory with two children, one of which has a child;
two CPUs, one memory node; a behaviour keeps to one of four mixes of operations,
of which at most one flag is on at a time: enough for the empty directory below
an empty one that another handle fills at that moment, and for a level that the
one above does not allow yet. In `stats` the numbers move twice during all calls
of a behaviour, and only one part of them: enough for a change between any two
files; the factor between units is 4 instead of 1024, with sizes at the bounds
of a unit; of three devices two share their major number and one has a minor
number that does not fit 16 bits. There is no symmetry anywhere: clients have different roles, and the runs with liveness could not use it.

`CHECK_DEADLOCK FALSE` in the run `oom`: after the thread has ended and the
cgroup has gone, the system has stopped.

Fairness. `v1_destroyers`: weak fairness of each handle's calls (a running
thread), of repeating destroy (the caller of `DestroyConverges` repeats) and of
the kernel's release of an exiting task; none of the workload, so a task may
live for ever. `FsManagerV1` never reuses a task id, hence forking ends by itself.
`systemd_jobs`: each handle's next step and the timer, nothing of systemd and no
failure, so `CallsReturn` covers a systemd that never answers with a signal.
`oom`: the thread, the kernel's notification and, on v1, the kernel's signal
at the end of a cgroup; on v2 `IN_IGNORED` may never come.

## Theorems

`FsManagerV1Proofs` (for all numbers of hierarchies, handles and tasks, any
thread groups, faults and starts allowed by the assumptions of the module):

- `TypeCorrect`: `TypeOK` is inductive together with `KernelOK`, that nobody is
  in a cgroup without a directory; each action preserves both.
- `JoinOrderHolds`: `OnlyAdds /\ Spec => []JoinOrder`. The order is inductive
  with the fact that the calls in progress add, since an attach goes to
  hierarchy `s` only after the same task's attach to all earlier ones; the
  strengthening `JoinInv` says so. The premise is needed: a destroy moves tasks
  out of the hierarchies in the same order.
- `DestroyHolds`: `OnlyDestroys /\ Spec => DestroyLeavesNothing`. The invariant
  `ClearedInv` says that the hierarchies before the one a destroy works on are
  cleared; with handles that only destroy, nobody makes them again.
- `GroupMoved`: `OnlyAdds /\ Spec => AddProcMovesGroup`, from `JoinInv`: what the
  call has moved so far, the whole group, is in all the hierarchies before the one
  it is at, and a thread cloned meanwhile starts where its parent is.
- `EmptiedFirst`: `OnlyDestroys /\ "attach" \notin Faults /\ Spec =>
  EmptyBeforeDelete`. By `EmptyInv` what a handle has listed covers whoever is still
  inside the hierarchies it has looked at, and the task it is moving has left those
  behind it; the migrations of other handles and the workload only take tasks of the
  start out. The premise on `Faults` is needed: `destroy` ignores a write to `tasks`
  that the kernel refuses (`manager/fs.rs:777`) and deletes nevertheless.

`OomEventsProofs`: `ChannelImplemented`, that `OomEvents` implements
`OomChannel` for any `MaxOoms` and `QueueMax`, if names are taken again on v2
only. The invariant relates the counts: on v2 the rise of `count` over `base` is
never more than the OOMs untold; on v1 a positive eventfd means an OOM untold
as long as the cgroup is there.

`SystemdManagerProofs` (for any number of handles, job ids, pids and signals
under way; every handle calls something, `ClientAssumption`):

- `TypeCorrect`: types, with the fact that exactly the calls which have asked for
  a job and have not returned hold its id.
- `SignalNotLost` (`NoLostSignal`) and `OkMeansDone` (`StartOkMeansDone`) follow
  from `JobInv`: for a handle that waits, its job is still queued, or the signal
  of its end is in the handle's own queue; and no signal with its id was sent
  before the job ended. The second half is needed since systemd's job ids are
  taken again: without it a signal of an earlier job of that id would be enough.
- `LimitCorrect`: `"exists" \notin Faults /\ Spec => []LimitInSync`. `LimitInv`
  adds where the copy `props` is ahead of the unit: only inside `set`, between
  the change of the copy and `SetUnitProperties`. The premise is the hazard at
  `client.rs:190`: if a failure of `GetUnit` may be taken for absence, `set`
  returns Ok without having told the running unit. Whether other D-Bus calls fail
  does not matter.

`FsManagerV2Proofs` (for every tree, handles, tasks, thread groups, controllers
and faults):

- `TypeCorrect`: the kernel's rules (`TreeOK`, `NoInternal`) hold after each step;
  inductive with the facts that a task that is not counted is in the root and
  that only a handle whose controllers exist gets past the verification.
- `LeavesHaveControllers`: `Arranged /\ Spec => []LeafHasControllers`. Errors of
  enabling a controller are ignored in the code, so the proof has to show that
  there are none: `ControlInv` says that no task is in a node above a leaf, that
  nothing above a leaf is threaded, that leaves distribute nothing, and that what
  a handle has enabled so far stays enabled while it goes on, though other
  handles create and remove next to it.
- `AddSucceeds` and `EmptyBeforeRemoval`: `Arranged /\ Own /\ Spec =>
  AddFailsOnlyIfGone`, and the same for `DomainEmptyBeforeRmdir`. `AddInv` follows
  a call from label to label; `ListInv` says that a task of the leaf that was
  alive when the listing was made is still to be moved.

`Arranged` says that no handle's leaf is above another's, handles with the same
leaf ask for the same controllers, `move_task_to_parent_by_tgid` is called for
children of the root only, and `set_cgroup_type` only for those or for cgroups
that ask for controllers. `Own` says that each handle has a leaf of its own, with
controllers that the kernel has. They are what the caller has to see to, not
the code: with a leaf above another, the tasks in it make the enabling fail and
the error is lost. The instances of `v2_life` satisfy both.
`Above` and `Dom` are recursive functions of a node, whose equations tlapm does
not derive; `AboveDef` and `DomDef` exhibit a function that satisfies them, built
from the paths to a node, and take its uniqueness from the least counterexample
(`Least`).

`FsResourcesProofs` (for all requests of the types of `Request`, in families as
`FamiliesAssumption` says, every parent, disk, interface and memory size):

- `TypeCorrect`: what each file may hold (`FilesOK`), with `mem <= swap` and
  usage below the limits, which the kernel keeps by refusing writes; every call
  is a sequence of known steps (`CallsType`).
- `TestedInForce` (`OkMeansTested`): for each file that `apply` tests, the test is
  still to come with nothing after it that disturbs the file, or the file holds the
  value and nothing that remains disturbs it (`Settled`). `ApplyShape` shows that
  all of `apply` is so built: no controller writes what another has tested.
- `InvalidRequests` (`InvalidChangesNothing`): before the memory part `set` changes
  no limit (`Waiting`), and after it has changed one it never fails as invalid.
- `RightOrder` (`LimitsInOrder`): after the memory state has been read, the writes
  of the two limits that remain are in an order in which the kernel takes the next
  one, and taking it leaves the rest in such an order (`OrderInv`).

Sequences of steps are concatenations of pieces, one per controller;
`FlattenType` and the `*Pieces` lemmas give their elements.

`FsSetProofs` (under the same assumptions) compares all of `set` with `Wanted`.
The unit is a cell: a file, an entry of a table (`weight`, `leaf`, `rate`, `prio`)
or whether one device may be used.

- Of each step it is defined which cells it sets (`Sets`) and to what (`Leaves`);
  `WriteCell` shows that this is what `Written`, the kernel, does to the files.
- A list of steps takes a cell from one value to another (`Ends`: the last step that
  sets it leaves that value, or a step of the list fails), and is `Mild` if what it
  leaves there on the way is in a given set. Both are kept when lists are appended.
- `Piece(s, F, r)`: the steps `s` take the cells of the files `F` from what they hold
  to what `Wanted` says, and set no other cell. There is one lemma for each
  controller, and for each list of disks, rates, priorities and devices, of any
  length and with any repetitions; `PieceJoin` puts them together to `SetPiece`.
- The memory controller decides from what it reads in the middle of the call, so
  that its cells are outside `SetPiece`. `SetInv`, the inductive invariant, says
  that as long as the read is still to come they rest as they were (`Resting`), and
  of all others, and of these once they have been read, that the steps that are left
  lead from what the files hold now to what is wanted (`Heading`, as long as the
  call has not failed) and do not leave the two values on the way (`Keeping`). The
  read of `cpu.max` is replaced by a write of the same two cells (`ProgressReads`).
- `RequestInForce` (`OkMeansInForce`): with no steps left and no error, `Heading`
  says that each cell holds what is wanted, and a file is its cells (`FromCells`).
- `NothingElse` (`OnlyRequested`): from `Keeping`.

`CpusetTreeProofs` (for every tree, sets of CPUs and memory nodes, handles, leaves
and mixes of operations). The tree is given by `Parent` and `Path`, a constant that
satisfies the equation of `TreeAssumption`: the path to a directory is that to the
one above it and the directory itself. That there are no cycles, and that what is on
a path is ordered, follows from it (`PathPrefix`, `PathStep`).

- `TypeCorrect`: the kernel's rules (`TreeOK`), inductive with what a call does at
  each label (`CallIs`) and with the form of a copy: what it has found empty lies
  one above the other, beginning at the target (`ClimbIs`).
- The other four follow from `KeptInv`, which says of each call that is not upset:
  what it has found empty is empty or has been filled with the set above it, and
  what it copies is still that set (`FillIs`); the levels that it has gone through
  have the CPUs (`LevelIs`); what it has made is there, and its target has CPUs when
  it turns to the memory nodes (`ThereIs`); left alone, no cgroup below the top has
  other CPUs than those it asks for (`WideIs`). For its own steps there is one lemma
  per action; for those of others, `OthersKept` shows once that nothing is lost if
  each set on its way remains or is filled by a copy (`Watches`, `Keeps`). That is
  where the interleaving of copies is: two of them that fill the same directories
  write the same set (`FillsGrows`), because each relies on `FillIs` of the other.
- `CopiesKeepSets`, `LevelsCovered` (every level above the cgroup), `NewUsable` and
  `WideningWorks` look at the step of the call that returns or copies. For `NewUsable` the kernel must not
  refuse the copy (`FillAccepted`), hence the premise `Shared` of the property: an
  exclusive sibling is the only reason left.

`StatisticsProofs` (for any number of CPUs, disks and sizes of huge pages, and any
number of moves of the kernel's numbers; the assumptions on the machine are below):

- The list of reads: `Ordered` says that of each counter the usage is read before the
  maximum, and `Legit` that nothing else is read into one of the fields that the
  theorems are about. Both are kept when lists are appended (`Appended`) or
  flattened (`FlatList`), so that they hold for `Reads`, a list whose length depends
  on the sizes of huge pages (`ReadsList`).
- The kernel: a usage is never above its maximum, and the maximum falls only by a
  reset or with the cgroup (`KernelOK`, `Grows`).
- `TypeCorrect` from `CallOK`: what a call has read are the fields before `at`.
- `UsageBelowMax` (`UsageWithinMax`) from `UsageOK`, which has to speak of the call
  in the middle: a usage that has been read is at most what a read of the maximum
  would give now, the default included, until the maximum is read. The pairs are those
  of memory, swap and kernel memory, and on v1 one for each size of huge pages.
- `ThrottledBelowPeriods` (`ThrottledWithinPeriods`): what was read of `cpu.stat` is
  its three lines at one moment, or nothing (`ThrottleOK`), and of both the parser
  makes numbers in order (`ThrottleValues`).
- `LimitsCorrect` (`LimitsReported`): a limit that was read is what the file shows
  (`InForce`), since limits change only with the cgroup.

- The counts need a second invariant, `CountsInv`: `StatsInv` of the points above and
  - `CountsOK`: the types of what the kernel counts, one record for each device, and
    that the times of the CPUs add up to those of `cpuacct.stat` until
    `cpuacct.usage` is reset (`Sum` over any number of CPUs: `SumAdd`);
  - `SinceOK`: what the kernel had when the call began is not above what it has now,
    unless `upset` notes a reset or the end of the cgroup;
  - `FailsOK`, `FaultsOK`, `TimesOK`: a count that has been read lies between the two.

  `CountsStep` has one lemma for each kind of count (`TimesStep`, `StatStep`,
  `FailStep`, `IoStep`); `ReadsExact` says that each field of these counts has
  one read in the call, the one the theorem speaks of, on the right file.
- `FailuresCorrect` (`FailuresBracketed`): the file of a size of huge pages is found
  only if the name `custom_size` computes is the name the kernel gives it, for all
  sizes (`PowerOrder`, `SizeNames`).
- `CpuTimesCorrect` (`CpuTimesWithinTotal`): `cpuacct.stat` is read before
  `cpuacct.usage`, both in the model's one unit of time (`TimesOK` says both what the first read gave and that the second,
  when it comes, is not below its sum).
- `ServicesCorrect` (`ServicesBracketed`), from `ServicesInv`, `CountsInv` with
  `ServicesOK`: a list that has been read has grown from the kernel's at the beginning
  and the kernel's has grown from it. It needs that `parse_io_service` returns, for a
  text of any length, the records the kernel wrote (`ServiceTextRead`): six lines for
  a device (`Blocks`), after which the parser has begun the next record
  (`LinesOfOne`, `LinesOfAll`).
- `NoPanic` (`NeverPanics`): the parsers that unwrap are those of `memory.numa_stat`,
  `memory.oom_control`, `io.stat` and of the files of one number for each device; on
  the texts the kernel writes none of them fails (`NumaSafe`, `OomSafe`,
  `IoStatSafe`, `DataSafe`), the others never do (`SafeParsers`).

`StatisticsProofs` assumes of the machine: `NoLimit` is not a number; the number of CPUs is a natural number
(`CpusAssumption`); a disk has a major number other than 0, which the parser takes
for "no device yet" (`TransfersAssumption`); the unit of sizes is above 1
(`KiloAssumption`); the kernel names the sizes of huge pages in kB, powers of two below
a terabyte (`PageDirsAssumption`).

Proving `NeverPanics` showed that it had been stated wrongly: it said of every step
after which the call has panicked that some device's number is too large, so a
later removal or reset of the cgroup, which takes the device from the list, violated
it. With `Moves = 2` no run was long enough to show this, with `Moves = 3` TLC finds
it. It now speaks of the step in which a call panics.

The provers cannot use a schema of induction. Where a proof is about a list, a sum or
a text of any length, it takes the least number for which the claim fails
(`Least`, from the well-foundedness of `<` on `Nat`) and refutes it.

Every invariant and every action property of a passing run is stated by a theorem.
TLC has checked all of these on the small instances above; the parts of
`ServicesInv` from `CountsOK` on hold in all states of `stats` as well.
Model-checked only: liveness
(`DestroyConverges`, `CallsReturn`, `OomReported`, `ClosedAfterRemoval`), which is
beyond the prover.

## Plan

1. Done: `FsManagerV1` with proofs, `FsManagerV2` with `kill`, `SystemdManager`
   with `freeze`, `OomChannel`/`OomEvents` with its refinement proof.
2. Done: `FsResources` with all files of `set` and `apply`; `CpusetTree`;
   `StatFiles` and `Statistics`.
3. Done: the proofs above.
4. `FsResources` with a second writer of `cpu.max`.
5. `SystemdManager` composed with the cgroups systemd makes, for the start that
   succeeds after its timeout.
6. Pure functions of `systemd/` against reference definitions: the quota with
   64-bit arithmetic, list to mask, `expand_slice`.

## What the code does otherwise than one may think

The four runs that expect a violation are disagreements between the code and its
own comments or tests. In one of them the test is on the code's side: the
documentation of `set_controller_topdown` (`manager/fs.rs:442`) says twice that the
cgroup itself is "not included", and the `Manager` trait (`manager/mod.rs:58`) that
the caller has to update it. The code begins with the path itself
(`path.ancestors()`), and `test_enable_cpus_topdown` asserts that the CPUs of the
managed cgroup have changed. `cpuset_topdown` shows that it writes them;
`TopdownCovers` says what code, test and documentation agree on, that every level
above is set.

Met while modelling, and in the models, but without a run of their own:

- A cgroup that exists in one v1 hierarchy, because a create failed half-way or
  another handle is still creating, is taken for a whole one: `create_cgroups`
  makes nothing more (`manager/fs.rs:87`), and the attach fails in the hierarchies
  without it.
- On v2 every number of a device is reported as 0: `get_value` splits the fields of
  `io.stat` at a colon (`fs/blkio.rs:151`), where the kernel, and the comment at
  `:160`, have an equals sign. `StatFiles` does the same.
- On v1 the end of a cgroup is sent as an OOM if a cgroup of the same name exists
  when the thread looks (`fs/events.rs:194`).
- A new v1 cpuset stays empty when an exclusive sibling holds the CPUs of the
  parent: the copy fails, and `create` returns Ok (`fs/cpuset.rs:128`). A copy that
  has decided what to fill replaces a set made by another handle meanwhile.
- `usage_percpu` is empty with two CPUs or more: the file is one line
  (`fs/cpuacct.rs:48`), the code parses each line as one number
  (`manager/fs.rs:506`).
- A v2 `memory.swap.max` of "max" is read as a number, fails, and is reported as
  a limit of 0 (`fs/memory.rs:733`); no limit on processes is reported as 0
  (`manager/fs.rs:648`); the v2 hugetlb maximum is a file that does not exist,
  hence 0 (`fs/hugetlb.rs:160`).
- Device numbers are read into 16 bits with a sign (`fs/blkio.rs:118`, `:169`): a
  number above 32767 is an error that drops the list on v1 and a panic on v2.
- `CpuAcctController::reset` resets `cpuacct.usage` but not `cpuacct.stat`
  (`fs/cpuacct.rs:149`), so the times may exceed their total afterwards.
- `memory_cgroup_stats` reads all files of memory twice (`manager/fs.rs:590`), so
  its `stat` may be newer than its usage.
- `FreezerController::freeze` returns before a v1 cgroup is frozen, and on v2
  `state` reads back the request, not whether the tasks have stopped.
- `kill` followed at once by `destroy` fails on v2 as long as the kernel has not
  released the tasks; the rmdir is not tried again.

## Not modelled

In `FsResources` as listed there. `CgroupBuilder` (setters), the discovery of
hierarchies (parsing of /proc), systemd's properties and names (pure functions of
strings and numbers), the generated D-Bus proxy, the errors' texts, CI and
tools. `rdma`, `perf_event` and the v1 `systemd` hierarchy: their `apply` does
nothing. `set_notify_on_release` and `set_release_agent`: one write in each
hierarchy that nothing in the crate reads. Symbolic links and permissions of the cgroup file system are
not distinguished from other refusals by the kernel.
