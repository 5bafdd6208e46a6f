--------------------------- MODULE SystemdManager ---------------------------
(***************************************************************************)
(* SystemdManager and its SystemdClient: handles on one transient unit of  *)
(* systemd, in one process or in several, each with its own copy of the    *)
(* unit's properties.  Every D-Bus call is one step.  systemd itself runs  *)
(* the jobs the calls queue and tells the end of each, by a JobRemoved     *)
(* signal, to whoever listens at that moment.                              *)
(***************************************************************************)
EXTENDS Naturals, Sequences, FiniteSets

CONSTANTS
  Clients,    \* SystemdManager handles
  Pids,       \* processes to add
  Limits,     \* values of a resource property; Unset is one of them
  Unset,
  Ops,        \* what each client calls
  Faults,     \* "call": a method call fails; "exists": GetUnit fails;
              \* "stream": the signal stream closes; "create": create_cgroups fails
  NumJobs,    \* job ids, taken again when nobody knows them any more
  MaxSignals  \* signals under way to one client

AllOps  == {"add_proc", "destroy", "set", "freeze", "thaw"}
Jobs    == 1 .. NumJobs
NoJob   == 0
Results == {"done", "failed", "canceled"}

ASSUME ClientAssumption == Clients # {}
ASSUME PidAssumption   == Pids # {} /\ Unset \in Limits
ASSUME OpsAssumption   == Ops \in [Clients -> SUBSET AllOps]
ASSUME FaultAssumption == Faults \subseteq {"call", "exists", "stream", "create"}
ASSUME JobAssumption   == NumJobs \in Nat \ {0} /\ MaxSignals \in Nat \ {0}

VARIABLES
  unit,     \* the unit as systemd has it
  outcome,  \* result of every job
  signals,  \* JobRemoved signals under way to each client
  props,    \* each client's properties of the unit: its PIDs and its limit
  m         \* call in progress of each client

vars == <<unit, outcome, signals, props, m>>

AnyPid == CHOOSE p \in Pids : TRUE
NoUnit == [state |-> "none", job |-> NoJob, kind |-> "start", pids |-> {}, frozen |-> FALSE,
           limit |-> Unset, by |-> CHOOSE c \in Clients : TRUE]

Init ==
  /\ unit = NoUnit
  /\ outcome = [j \in Jobs |-> "pending"]
  /\ signals = [c \in Clients |-> <<>>]
  /\ props = [c \in Clients |-> [pids |-> {}, limit |-> Unset]]
  /\ m = [c \in Clients |-> [pc |-> "idle", op |-> "destroy", pid |-> AnyPid,
                             val |-> Unset, job |-> NoJob, res |-> "ok", set |-> "ok"]]

-----------------------------------------------------------------------------
\* systemd.

Loaded == unit.state # "none"

\* Mutant of Listening: the listener is installed when the job is there.
ListensLate(c) == m[c].pc = "wait"

Listening(c) == m[c].pc \in {"queue", "reply", "wait"}

\* JobRemoved of job j reaches everybody that listens now.
Tell(j, r) ==
  /\ \A c \in Clients : Listening(c) => Len(signals[c]) < MaxSignals
  /\ outcome' = [outcome EXCEPT ![j] = r]
  /\ signals' = [c \in Clients |->
                   IF Listening(c) THEN Append(signals[c], <<j, r>>) ELSE signals[c]]

Fresh(j) == /\ unit.job # j
            /\ \A c \in Clients : /\ m[c].job # j
                                  /\ \A i \in 1 .. Len(signals[c]) : signals[c][i][1] # j

NewJob(j) == Fresh(j) /\ \A k \in Jobs : k < j => ~Fresh(k)

\* StartTransientUnit for client c queues job j.
StartJob(c, j) ==
  /\ ~Loaded
  /\ NewJob(j)
  /\ unit' = [NoUnit EXCEPT !.state = "inactive", !.job = j,
                             !.pids = props[c].pids, !.limit = props[c].limit, !.by = c]
  /\ outcome' = [outcome EXCEPT ![j] = "pending"]

\* StopUnit thaws what it stops; mode "replace" cancels a start job that is still queued.
StopJob ==
  /\ Loaded
  /\ IF unit.job # NoJob /\ unit.kind = "stop" THEN UNCHANGED <<unit, outcome, signals>>
     ELSE \E j \in Jobs :
            /\ NewJob(j)
            /\ unit' = [unit EXCEPT !.job = j, !.kind = "stop", !.frozen = FALSE]
            /\ IF unit.job = NoJob
               THEN outcome' = [outcome EXCEPT ![j] = "pending"] /\ UNCHANGED signals
               ELSE Tell(unit.job, "canceled")

\* The scope gets its processes and becomes active, or its start fails.
StartEnds ==
  /\ unit.job # NoJob /\ unit.kind = "start"
  /\ \/ /\ Tell(unit.job, "done")
        /\ unit' = [unit EXCEPT !.state = "active", !.job = NoJob]
     \/ /\ Tell(unit.job, "failed")
        /\ unit' \in {NoUnit, [unit EXCEPT !.state = "failed", !.job = NoJob, !.pids = {}]}
  /\ UNCHANGED <<props, m>>

\* The processes are killed.  A scope that had to be killed the hard way, like
\* one that had failed before, stays loaded as failed.
StopEnds ==
  /\ unit.job # NoJob /\ unit.kind = "stop"
  /\ Tell(unit.job, "done")
  /\ unit' \in (IF unit.state = "failed" THEN {} ELSE {NoUnit})
               \cup (IF unit.state = "inactive" THEN {}
                     ELSE {[unit EXCEPT !.state = "failed", !.job = NoJob, !.pids = {}]})
  /\ UNCHANGED <<props, m>>

\* The last process of the scope exits.
ScopeEnds ==
  /\ unit.state = "active" /\ unit.job = NoJob
  /\ unit' = NoUnit
  /\ UNCHANGED <<outcome, signals, props, m>>

Systemd == StartEnds \/ StopEnds \/ ScopeEnds

-----------------------------------------------------------------------------
\* The calls.

At(c, label) == m[c].pc = label

Goto(c, label) == m' = [m EXCEPT ![c].pc = label]

\* Mutant of Return: the job is kept when the call is over.
ReturnKeepsJob(c, r) ==
  m' = [m EXCEPT ![c].pc = "idle", ![c].pid = AnyPid, ![c].res = r,
                 ![c].set = IF m[c].op = "set" THEN r ELSE @]

Return(c, r) ==
  m' = [m EXCEPT ![c] = [@ EXCEPT !.pc = "idle", !.pid = AnyPid, !.job = NoJob, !.res = r,
                                  !.set = IF m[c].op = "set" THEN r ELSE m[c].set]]

\* SystemdClient::exists: an error of any kind is taken for "no".
Sees(found) == IF Loaded THEN found \/ "exists" \in Faults ELSE ~found

Call(c) ==
  /\ At(c, "idle")
  /\ \/ /\ "add_proc" \in Ops[c]
        /\ \E p \in Pids : m' = [m EXCEPT ![c].pc = "exists", ![c].op = "add_proc", ![c].pid = p]
     \/ /\ "destroy" \in Ops[c]
        /\ m' = [m EXCEPT ![c].pc = "stop", ![c].op = "destroy"]
     \/ /\ "set" \in Ops[c]
        /\ \E v \in Limits \ {Unset} :
             m' = [m EXCEPT ![c].pc = "cache", ![c].op = "set", ![c].val = v]
     \/ \E o \in Ops[c] \cap {"freeze", "thaw"} :
          m' = [m EXCEPT ![c].pc = "freezer", ![c].op = o]
  /\ UNCHANGED <<unit, outcome, signals, props>>

\* add_proc: start a unit, or attach to the one there is.
Exists(c) ==
  /\ At(c, "exists")
  /\ \E found \in BOOLEAN :
       /\ Sees(found)
       /\ Goto(c, IF found THEN "attach" ELSE "set_pid")
  /\ UNCHANGED <<unit, outcome, signals, props>>

\* set_pid_prop looks once more whether the unit exists and leaves the PIDs
\* alone if it does.  Appending a u64 to the array of u32 that is there is an error.
SetPid(c) ==
  /\ At(c, "set_pid")
  /\ \E found \in BOOLEAN :
       /\ Sees(found)
       /\ \/ found /\ Goto(c, "subscribe") /\ UNCHANGED props
          \/ ~found /\ props[c].pids # {} /\ Return(c, "err") /\ UNCHANGED props
          \/ /\ ~found /\ props[c].pids = {}
             /\ props' = [props EXCEPT ![c].pids = {m[c].pid}]
             /\ Goto(c, "subscribe")
  /\ UNCHANGED <<unit, outcome, signals>>

\* start: the PIDs must be there; listen before the job is queued.
Subscribe(c) ==
  /\ At(c, "subscribe")
  /\ IF props[c].pids = {} THEN Return(c, "err") ELSE Goto(c, "queue")
  /\ UNCHANGED <<unit, outcome, signals, props>>

Queue(c) ==
  /\ At(c, "queue")
  /\ \E j \in Jobs :
       /\ StartJob(c, j)
       /\ m' = [m EXCEPT ![c].pc = "reply", ![c].job = j]
  /\ UNCHANGED <<signals, props>>

\* The reply tells the job.
Reply(c) ==
  /\ At(c, "reply")
  /\ Goto(c, "wait")
  /\ UNCHANGED <<unit, outcome, signals, props>>

\* The unit has appeared meanwhile.
QueueRefused(c) ==
  /\ At(c, "queue") /\ Loaded
  /\ Return(c, "err")
  /\ signals' = [signals EXCEPT ![c] = <<>>]
  /\ UNCHANGED <<unit, outcome, props>>

\* Mutant of Wait: the end of any job of the unit is taken for that of ours.
WaitAnyJob(c) ==
  /\ At(c, "wait") /\ signals[c] # <<>>
  /\ signals' = [signals EXCEPT ![c] = <<>>]
  /\ IF Head(signals[c])[2] = "done" THEN Goto(c, "create") ELSE Return(c, "err")
  /\ UNCHANGED <<unit, outcome, props>>

\* The next signal: of another job, or the end of ours.
Wait(c) ==
  /\ At(c, "wait") /\ signals[c] # <<>>
  /\ LET s == Head(signals[c]) IN
       IF s[1] # m[c].job
       THEN signals' = [signals EXCEPT ![c] = Tail(@)] /\ UNCHANGED m
       ELSE /\ signals' = [signals EXCEPT ![c] = <<>>]
            /\ IF s[2] = "done" THEN Goto(c, "create") ELSE Return(c, "err")
  /\ UNCHANGED <<unit, outcome, props>>

\* Mutant of Timeout: start waits as long as it takes.
TimeoutNever(c) == FALSE

\* START_JOB_TIMEOUT is over, whether or not the job is.
Timeout(c) ==
  /\ At(c, "wait")
  /\ Return(c, "err")
  /\ signals' = [signals EXCEPT ![c] = <<>>]
  /\ UNCHANGED <<unit, outcome, props>>

StreamCloses(c) ==
  /\ At(c, "wait") /\ "stream" \in Faults
  /\ Return(c, "err")
  /\ signals' = [signals EXCEPT ![c] = <<>>]
  /\ UNCHANGED <<unit, outcome, props>>

\* FsManager::create_cgroups.
Create(c) ==
  /\ At(c, "create")
  /\ \/ Return(c, "ok")
     \/ "create" \in Faults /\ Return(c, "err")
  /\ UNCHANGED <<unit, outcome, signals, props>>

\* AttachProcessesToUnit, which systemd refuses for a unit that is not active.
Attach(c) ==
  /\ At(c, "attach")
  /\ IF unit.state = "active"
     THEN unit' = [unit EXCEPT !.pids = @ \cup {m[c].pid}] /\ Return(c, "ok")
     ELSE UNCHANGED unit /\ Return(c, "err")
  /\ UNCHANGED <<outcome, signals, props>>

\* stop: NoSuchUnit is no error.
Stop(c) ==
  /\ At(c, "stop")
  /\ Goto(c, "stop_exists")
  /\ IF Loaded THEN StopJob ELSE UNCHANGED <<unit, outcome, signals>>
  /\ UNCHANGED props

StopExists(c) ==
  /\ At(c, "stop_exists")
  /\ \E found \in BOOLEAN :
       /\ Sees(found)
       /\ IF found THEN Goto(c, "reset") ELSE Return(c, "ok")
  /\ UNCHANGED <<unit, outcome, signals, props>>

\* ResetFailedUnit, without effect on a unit that has not failed.
ResetFailed ==
  unit' = IF unit.state # "failed" THEN unit
          ELSE IF unit.job = NoJob THEN NoUnit ELSE [unit EXCEPT !.state = "inactive"]

Reset(c) ==
  /\ At(c, "reset")
  /\ ResetFailed
  /\ Return(c, "ok")
  /\ UNCHANGED <<outcome, signals, props>>

\* Mutant of SetCache: the copy is changed only for a unit that exists.
CacheIfExists(c) ==
  /\ At(c, "cache")
  /\ \E found \in BOOLEAN :
       /\ Sees(found)
       /\ props' = IF found THEN [props EXCEPT ![c].limit = m[c].val] ELSE props
       /\ IF found THEN Goto(c, "set_unit") ELSE Return(c, "ok")
  /\ UNCHANGED <<unit, outcome, signals>>

\* set_properties: our own copy first, then the unit if it exists.
SetCache(c) ==
  /\ At(c, "cache")
  /\ props' = [props EXCEPT ![c].limit = m[c].val]
  /\ \E found \in BOOLEAN :
       /\ Sees(found)
       /\ IF found THEN Goto(c, "set_unit") ELSE Return(c, "ok")
  /\ UNCHANGED <<unit, outcome, signals>>

SetUnit(c) ==
  /\ At(c, "set_unit")
  /\ IF Loaded THEN unit' = [unit EXCEPT !.limit = m[c].val] /\ Return(c, "ok")
     ELSE UNCHANGED unit /\ Return(c, "err")
  /\ UNCHANGED <<outcome, signals, props>>

\* freeze, thaw: refused for a unit that is not active or has a job.
MayFreeze == unit.state = "active" /\ unit.job = NoJob
FreezeOrThaw(c) == unit' = [unit EXCEPT !.frozen = m[c].op = "freeze"]

Freezer(c) ==
  /\ At(c, "freezer")
  /\ IF MayFreeze THEN FreezeOrThaw(c) /\ Return(c, "ok")
     ELSE UNCHANGED unit /\ Return(c, "err")
  /\ UNCHANGED <<outcome, signals, props>>

\* A method call fails on the way there, or on the way back when systemd has
\* done what it was asked for (of the start: at "reply").
CallFails(c) ==
  /\ "call" \in Faults
  /\ m[c].pc \in {"subscribe", "queue", "reply", "attach", "stop", "reset", "set_unit", "freezer"}
  /\ Return(c, "err")
  /\ \/ signals' = [signals EXCEPT ![c] = <<>>] /\ UNCHANGED <<unit, outcome>>
     \/ /\ At(c, "attach") /\ unit.state = "active"
        /\ unit' = [unit EXCEPT !.pids = @ \cup {m[c].pid}]
        /\ UNCHANGED <<outcome, signals>>
     \/ At(c, "stop") /\ StopJob
     \/ At(c, "reset") /\ ResetFailed /\ UNCHANGED <<outcome, signals>>
     \/ /\ At(c, "set_unit") /\ Loaded
        /\ unit' = [unit EXCEPT !.limit = m[c].val]
        /\ UNCHANGED <<outcome, signals>>
     \/ /\ At(c, "freezer") /\ MayFreeze
        /\ FreezeOrThaw(c)
        /\ UNCHANGED <<outcome, signals>>
  /\ UNCHANGED props

Go(c) ==
  \/ Exists(c) \/ SetPid(c) \/ Subscribe(c) \/ Queue(c) \/ QueueRefused(c) \/ Reply(c)
  \/ Wait(c) \/ Create(c) \/ Attach(c) \/ Stop(c) \/ StopExists(c) \/ Reset(c)
  \/ SetCache(c) \/ SetUnit(c) \/ Freezer(c)

Step(c) == Go(c) \/ Timeout(c) \/ StreamCloses(c) \/ CallFails(c)

Next == \/ \E c \in Clients : Call(c)
        \/ \E c \in Clients : Step(c)
        \/ Systemd

Spec == Init /\ [][Next]_vars

\* Calls go on and the timer fires; systemd need not run any job, and nothing
\* has to fail.
FairSpec == Spec /\ \A c \in Clients : WF_vars(Go(c)) /\ WF_vars(Timeout(c))

-----------------------------------------------------------------------------
\* Properties.

Labels == {"idle", "exists", "set_pid", "subscribe", "queue", "reply", "wait", "create", "attach",
           "stop", "stop_exists", "reset", "cache", "set_unit", "freezer"}
Returned == {"ok", "err"}

\* Every variable keeps its type (the fields of SystemdClient and the locals of
\* its calls), and exactly the calls that wait for a job have one.
TypeOK ==
  /\ unit \in [state : {"none", "inactive", "active", "failed"}, job : Jobs \cup {NoJob},
              kind : {"start", "stop"}, pids : SUBSET Pids, limit : Limits, by : Clients,
              frozen : BOOLEAN]
  /\ outcome \in [Jobs -> Results \cup {"pending"}]
  /\ signals \in [Clients -> Seq(Jobs \X Results)]
  /\ props \in [Clients -> [pids : SUBSET Pids, limit : Limits]]
  /\ m \in [Clients -> [pc : Labels, op : AllOps, pid : Pids, val : Limits,
                        job : Jobs \cup {NoJob}, res : Returned, set : Returned]]
  /\ \A c \in Clients : m[c].job # NoJob <=> m[c].pc \in {"reply", "wait", "create"}

\* A client that waits for its start job has not missed the end of it: either
\* the job has not ended or the signal is under way to it (client.rs:86-87
\* "Install the signal listener first so a fast job cannot finish before we
\* start waiting").
NoLostSignal ==
  \A c \in Clients :
    At(c, "wait") =>
      \/ outcome[m[c].job] = "pending" /\ unit.job = m[c].job
      \/ \E i \in 1 .. Len(signals[c]) : signals[c][i] = <<m[c].job, outcome[m[c].job]>>

\* start returns Ok only if its own job was done, whatever other jobs of the
\* same unit, of other handles, end while it waits (client.rs:100-109).
StartOkMeansDone ==
  [][\A c \in Clients :
       At(c, "wait") /\ m'[c].pc = "create" => outcome[m[c].job] = "done"]_vars

\* The limit a set returned Ok for is the limit of the unit this handle
\* started, whether set came before the start or after it, as long as no other
\* handle sets (set_properties, client.rs:145-169: own copy, then the unit).
LimitInSync ==
  \A c \in Clients :
    /\ At(c, "idle") /\ m[c].set = "ok"
    /\ \A d \in Clients \ {c} : "set" \notin Ops[d]
    /\ Loaded /\ unit.by = c
    => unit.limit = m[c].val

\* Every call returns, even when systemd never ends the job or its signal
\* never comes (with_timeout, client.rs:213-222).
CallsReturn == \A c \in Clients : ~At(c, "idle") ~> At(c, "idle")

\* With one handle: destroy returned Ok and no job is left, so the unit is not
\* there as a failed one either (comment of stop, client.rs:134-135).
DestroyedNotFailed ==
  \A c \in Clients :
    At(c, "idle") /\ m[c].op = "destroy" /\ m[c].res = "ok" /\ unit.job = NoJob
    => unit.state # "failed"
=============================================================================
