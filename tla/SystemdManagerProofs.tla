------------------------ MODULE SystemdManagerProofs ------------------------
(***************************************************************************)
(* No start of a unit misses the end of its job or takes another job's end *)
(* for it, and the limit that set reports is the unit's, for any number of *)
(* handles, processes, limits, job ids and signals under way.              *)
(***************************************************************************)
EXTENDS SystemdManager, SequenceTheorems, TLAPS

-----------------------------------------------------------------------------
(***************************************************************************)
(* Types.                                                                  *)
(***************************************************************************)

\* The parts of the type invariant.
UnitType == [state : {"none", "inactive", "active", "failed"}, job : Jobs \cup {NoJob},
             kind : {"start", "stop"}, pids : SUBSET Pids, limit : Limits, by : Clients,
             frozen : BOOLEAN]
CallType == [pc : Labels, op : AllOps, pid : Pids, val : Limits,
             job : Jobs \cup {NoJob}, res : Returned, set : Returned]
HasJob   == {"reply", "wait", "create"}
CallsOK  == /\ m \in [Clients -> CallType]
            /\ \A c \in Clients : m[c].job # NoJob <=> m[c].pc \in HasJob
QueuesOK == outcome \in [Jobs -> Results \cup {"pending"}] /\ signals \in [Clients -> Seq(Jobs \X Results)]

PropsOK  == props \in [Clients -> [pids : SUBSET Pids, limit : Limits]]

LEMMA TypeParts ==
  /\ TypeOK <=> unit \in UnitType /\ QueuesOK /\ CallsOK /\ PropsOK
  /\ TypeOK' <=> unit' \in UnitType /\ QueuesOK' /\ CallsOK' /\ PropsOK'
  BY DEF TypeOK, UnitType, CallType, HasJob, CallsOK, QueuesOK, PropsOK

LEMMA NoUnitType == NoUnit \in UnitType /\ AnyPid \in Pids
  BY ClientAssumption, PidAssumption DEF NoUnit, AnyPid, UnitType

\* The end of a call, and a step from one label to another.
LEMMA ReturnType ==
  ASSUME CallsOK, NEW c \in Clients, NEW r \in Returned, Return(c, r)
  PROVE  CallsOK'
  <1>1. AnyPid \in Pids BY NoUnitType
  <1> DEFINE new == [m[c] EXCEPT !.pc = "idle", !.pid = AnyPid, !.job = NoJob, !.res = r,
                                 !.set = IF m[c].op = "set" THEN r ELSE m[c].set]
  <1>2. new \in CallType BY <1>1 DEF CallsOK, CallType, Labels
  <1>3. m' = [m EXCEPT ![c] = new] BY DEF Return
  <1>4. new.job = NoJob /\ new.pc \notin HasJob BY DEF HasJob, CallsOK, CallType
  <1> HIDE DEF new
  <1>5. QED BY <1>2, <1>3, <1>4 DEF CallsOK

LEMMA GotoType ==
  ASSUME CallsOK, NEW c \in Clients, NEW label \in Labels, Goto(c, label),
         label \in HasJob <=> m[c].pc \in HasJob
  PROVE  CallsOK'
  BY DEF CallsOK, CallType, Goto

\* A job's end reaches everybody that listens and nothing is taken back.
LEMMA Told ==
  ASSUME QueuesOK, NEW j \in Jobs, NEW r \in Results, Tell(j, r)
  PROVE  /\ QueuesOK'
         /\ outcome' = [outcome EXCEPT ![j] = r]
         /\ \A c \in Clients :
              IF Listening(c) THEN /\ Len(signals'[c]) = Len(signals[c]) + 1
                                   /\ signals'[c][Len(signals[c]) + 1] = <<j, r>>
                                   /\ \A i \in 1 .. Len(signals[c]) : signals'[c][i] = signals[c][i]
                              ELSE signals'[c] = signals[c]
  <1>1. outcome' = [outcome EXCEPT ![j] = r] BY DEF Tell
  <1>2. ASSUME NEW c \in Clients
        PROVE  /\ Append(signals[c], <<j, r>>) \in Seq(Jobs \X Results)
               /\ Len(Append(signals[c], <<j, r>>)) = Len(signals[c]) + 1
               /\ Append(signals[c], <<j, r>>)[Len(signals[c]) + 1] = <<j, r>>
               /\ \A i \in 1 .. Len(signals[c]) : Append(signals[c], <<j, r>>)[i] = signals[c][i]
    BY AppendProperties DEF QueuesOK
  <1>3. signals' = [c \in Clients |->
                      IF Listening(c) THEN Append(signals[c], <<j, r>>) ELSE signals[c]]
    BY DEF Tell
  <1>4. signals' \in [Clients -> Seq(Jobs \X Results)] BY <1>2, <1>3 DEF QueuesOK
  <1>5. outcome' \in [Jobs -> Results \cup {"pending"}] BY <1>1 DEF QueuesOK
  <1>6. QED BY <1>1, <1>2, <1>3, <1>4, <1>5 DEF QueuesOK

\* StopUnit.
LEMMA StopJobType ==
  ASSUME unit \in UnitType, QueuesOK, StopJob
  PROVE  unit' \in UnitType /\ QueuesOK'
  <1>1. CASE unit.job # NoJob /\ unit.kind = "stop" BY <1>1 DEF StopJob, QueuesOK
  <1>2. CASE ~(unit.job # NoJob /\ unit.kind = "stop")
    <2>1. PICK j \in Jobs :
            /\ unit' = [unit EXCEPT !.job = j, !.kind = "stop", !.frozen = FALSE]
            /\ IF unit.job = NoJob
               THEN outcome' = [outcome EXCEPT ![j] = "pending"] /\ UNCHANGED signals
               ELSE Tell(unit.job, "canceled")
      BY <1>2 DEF StopJob
    <2>2. unit' \in UnitType BY <2>1 DEF UnitType
    <2>3. CASE unit.job = NoJob BY <2>1, <2>2, <2>3 DEF QueuesOK
    <2>4. CASE unit.job # NoJob
      <3>1. unit.job \in Jobs /\ "canceled" \in Results BY <2>4 DEF UnitType, Results
      <3>2. QED BY <2>1, <2>2, <2>4, <3>1, Told
    <2>5. QED BY <2>3, <2>4
  <1>3. QED BY <1>1, <1>2

\* What the end of a call and a step from label to label leave.
LEMMA Returns ==
  ASSUME CallsOK, NEW c \in Clients, NEW r, Return(c, r)
  PROVE  /\ \A d \in Clients \ {c} : m'[d] = m[d]
         /\ m'[c].pc = "idle" /\ m'[c].val = m[c].val
         /\ m'[c].set = IF m[c].op = "set" THEN r ELSE m[c].set
  BY DEF Return, CallsOK, CallType

LEMMA Goes ==
  ASSUME CallsOK, NEW c \in Clients, NEW label, Goto(c, label)
  PROVE  /\ \A d \in Clients \ {c} : m'[d] = m[d]
         /\ m'[c].pc = label
         /\ m'[c].job = m[c].job /\ m'[c].op = m[c].op
         /\ m'[c].val = m[c].val /\ m'[c].set = m[c].set
  BY DEF Goto, CallsOK, CallType

\* systemd's own steps.
LEMMA SystemdType == TypeOK /\ Systemd => TypeOK'
  <1> SUFFICES ASSUME TypeOK, Systemd PROVE TypeOK' OBVIOUS
  <1>1. unit \in UnitType /\ QueuesOK /\ CallsOK /\ PropsOK BY TypeParts
  <1>2. UNCHANGED <<props, m>> BY DEF Systemd, StartEnds, StopEnds, ScopeEnds
  <1>3. CallsOK' /\ PropsOK' BY <1>1, <1>2 DEF CallsOK, PropsOK
  <1>4. unit' \in UnitType /\ QueuesOK'
    <2>1. CASE StartEnds
      <3>1. unit' \in UnitType BY <1>1, <2>1, NoUnitType DEF StartEnds, UnitType
      <3>2. unit.job \in Jobs BY <1>1, <2>1 DEF StartEnds, UnitType
      <3>3. PICK r \in {"done", "failed"} : Tell(unit.job, r) BY <2>1 DEF StartEnds
      <3>4. r \in Results BY DEF Results
      <3>5. QED BY <1>1, <3>1, <3>2, <3>3, <3>4, Told
    <2>2. CASE StopEnds
      <3>1. unit' \in UnitType BY <1>1, <2>2, NoUnitType DEF StopEnds, UnitType
      <3>2. unit.job \in Jobs /\ "done" \in Results /\ Tell(unit.job, "done")
        BY <1>1, <2>2 DEF StopEnds, UnitType, Results
      <3>3. QED BY <1>1, <3>1, <3>2, Told
    <2>3. CASE ScopeEnds BY <1>1, <2>3, NoUnitType DEF ScopeEnds, QueuesOK
    <2>4. QED BY <2>1, <2>2, <2>3 DEF Systemd
  <1>5. QED BY <1>1, <1>2, <1>3, <1>4, TypeParts

\* The steps of the calls.
LEMMA CallType_ == ASSUME TypeOK, NEW c \in Clients, Call(c) PROVE TypeOK'
  <1>1. unit \in UnitType /\ QueuesOK /\ CallsOK /\ PropsOK BY TypeParts
  <1>2. UNCHANGED <<unit, outcome, signals, props>> BY DEF Call
  <1>3. CallsOK' BY <1>1 DEF Call, CallsOK, CallType, HasJob, Labels, AllOps, At
  <1>4. QED BY <1>1, <1>2, <1>3, TypeParts DEF QueuesOK, PropsOK

LEMMA AddProcType ==
  ASSUME TypeOK, NEW c \in Clients,
         \/ Exists(c) \/ SetPid(c) \/ Subscribe(c) \/ Queue(c) \/ QueueRefused(c)
         \/ Reply(c) \/ Wait(c) \/ Timeout(c) \/ StreamCloses(c) \/ Create(c) \/ Attach(c)
  PROVE  TypeOK'
  <1>1. unit \in UnitType /\ QueuesOK /\ CallsOK /\ PropsOK BY TypeParts
  <1>r. \A r \in Returned : Return(c, r) => CallsOK' BY <1>1, ReturnType
  <1>g. \A l \in Labels : Goto(c, l) /\ (l \in HasJob <=> m[c].pc \in HasJob) => CallsOK'
    BY <1>1, GotoType
  <1>c. signals' = [signals EXCEPT ![c] = <<>>] /\ UNCHANGED outcome => QueuesOK'
    BY <1>1, EmptySeq DEF QueuesOK
  <1>u. /\ UNCHANGED <<outcome, signals>> => QueuesOK'
        /\ UNCHANGED props => PropsOK'
    BY <1>1 DEF QueuesOK, PropsOK
  <1> USE DEF At, Labels, HasJob, Returned
  <1>2. CASE Exists(c) BY <1>1, <1>2, <1>g, <1>u, TypeParts DEF Exists
  <1>3. CASE SetPid(c)
    <2>1. PropsOK' BY <1>1, <1>3 DEF PropsOK, SetPid, CallsOK, CallType
    <2>2. CallsOK' BY <1>3, <1>r, <1>g DEF SetPid
    <2>3. QED BY <1>1, <1>3, <1>u, <2>1, <2>2, TypeParts DEF SetPid
  <1>4. CASE Subscribe(c) BY <1>1, <1>4, <1>r, <1>g, <1>u, TypeParts DEF Subscribe
  <1>5. CASE Queue(c)
    <2>1. PICK j \in Jobs : StartJob(c, j) /\ m' = [m EXCEPT ![c].pc = "reply", ![c].job = j]
      BY <1>5 DEF Queue
    <2>2. unit' \in UnitType BY <1>1, <2>1, NoUnitType DEF StartJob, UnitType, PropsOK
    <2>3. j # NoJob BY DEF Jobs, NoJob
    <2> DEFINE new == [m[c] EXCEPT !.pc = "reply", !.job = j]
    <2>n. new \in CallType /\ new.job # NoJob /\ new.pc = "reply" /\ m' = [m EXCEPT ![c] = new]
      BY <1>1, <2>1, <2>3 DEF CallsOK, CallType
    <2> HIDE DEF new
    <2>4. CallsOK' BY <1>1, <2>n DEF CallsOK
    <2>5. QueuesOK' BY <1>1, <1>5, <2>1 DEF QueuesOK, StartJob, Queue
    <2>6. QED BY <1>1, <1>5, <1>u, <2>2, <2>4, <2>5, TypeParts DEF Queue
  <1>6. CASE QueueRefused(c) BY <1>1, <1>6, <1>r, <1>c, <1>u, TypeParts DEF QueueRefused
  <1>7. CASE Reply(c) BY <1>1, <1>7, <1>g, <1>u, TypeParts DEF Reply
  <1>8. CASE Wait(c)
    <2>1. CallsOK' BY <1>1, <1>8, <1>r, <1>g DEF Wait, CallsOK
    <2>2. Tail(signals[c]) \in Seq(Jobs \X Results)
      BY <1>1, <1>8, HeadTailProperties DEF Wait, QueuesOK
    <2>3. QueuesOK' BY <1>1, <1>8, <1>c, <1>u, <2>2 DEF Wait, QueuesOK
    <2>4. QED BY <1>1, <1>8, <1>u, <2>1, <2>3, TypeParts DEF Wait
  <1>9. CASE Timeout(c) BY <1>1, <1>9, <1>r, <1>c, <1>u, TypeParts DEF Timeout
  <1>10. CASE StreamCloses(c) BY <1>1, <1>10, <1>r, <1>c, <1>u, TypeParts DEF StreamCloses
  <1>11. CASE Create(c) BY <1>1, <1>11, <1>r, <1>u, TypeParts DEF Create
  <1>12. CASE Attach(c)
    <2>1. unit' \in UnitType BY <1>1, <1>12 DEF Attach, UnitType, CallsOK, CallType
    <2>2. QED BY <1>1, <1>12, <1>r, <1>u, <2>1, TypeParts DEF Attach
  <1>13. QED BY <1>2, <1>3, <1>4, <1>5, <1>6, <1>7, <1>8, <1>9, <1>10, <1>11, <1>12

LEMMA OtherType ==
  ASSUME TypeOK, NEW c \in Clients,
         \/ Stop(c) \/ StopExists(c) \/ Reset(c) \/ SetCache(c) \/ SetUnit(c)
         \/ Freezer(c) \/ CallFails(c)
  PROVE  TypeOK'
  <1>1. unit \in UnitType /\ QueuesOK /\ CallsOK /\ PropsOK BY TypeParts
  <1>r. \A r \in Returned : Return(c, r) => CallsOK' BY <1>1, ReturnType
  <1>g. \A l \in Labels : Goto(c, l) /\ (l \in HasJob <=> m[c].pc \in HasJob) => CallsOK'
    BY <1>1, GotoType
  <1>c. signals' = [signals EXCEPT ![c] = <<>>] /\ UNCHANGED outcome => QueuesOK'
    BY <1>1, EmptySeq DEF QueuesOK
  <1>u. /\ UNCHANGED <<outcome, signals>> => QueuesOK'
        /\ UNCHANGED props => PropsOK'
    BY <1>1 DEF QueuesOK, PropsOK
  <1>s. StopJob => unit' \in UnitType /\ QueuesOK' BY <1>1, StopJobType
  <1>p. unit' = [unit EXCEPT !.pids = @ \cup {m[c].pid}] => unit' \in UnitType
    BY <1>1 DEF UnitType, CallsOK, CallType
  <1>l. unit' = [unit EXCEPT !.limit = m[c].val] => unit' \in UnitType
    BY <1>1 DEF UnitType, CallsOK, CallType
  <1>f. FreezeOrThaw(c) => unit' \in UnitType BY <1>1 DEF FreezeOrThaw, UnitType
  <1>e. ResetFailed => unit' \in UnitType BY <1>1, NoUnitType DEF ResetFailed, UnitType
  <1> USE DEF At, Labels, HasJob, Returned
  <1>2. CASE Stop(c) BY <1>1, <1>2, <1>g, <1>u, <1>s, TypeParts DEF Stop
  <1>3. CASE StopExists(c) BY <1>1, <1>3, <1>r, <1>g, <1>u, TypeParts DEF StopExists
  <1>4. CASE Reset(c) BY <1>1, <1>4, <1>r, <1>e, <1>u, TypeParts DEF Reset
  <1>5. CASE SetCache(c)
    <2>1. PropsOK' BY <1>1, <1>5 DEF PropsOK, SetCache, CallsOK, CallType
    <2>2. CallsOK' BY <1>5, <1>r, <1>g DEF SetCache
    <2>3. QED BY <1>1, <1>5, <1>u, <2>1, <2>2, TypeParts DEF SetCache
  <1>6. CASE SetUnit(c) BY <1>1, <1>6, <1>r, <1>l, <1>u, TypeParts DEF SetUnit
  <1>7. CASE Freezer(c) BY <1>1, <1>7, <1>r, <1>f, <1>u, TypeParts DEF Freezer
  <1>8. CASE CallFails(c)
    <2>1. CallsOK' BY <1>8, <1>r DEF CallFails
    <2>2. unit' \in UnitType /\ QueuesOK'
      BY <1>1, <1>8, <1>c, <1>u, <1>s, <1>p, <1>e, <1>l, <1>f DEF CallFails
    <2>3. QED BY <1>1, <1>8, <1>u, <2>1, <2>2, TypeParts DEF CallFails
  <1>9. QED BY <1>2, <1>3, <1>4, <1>5, <1>6, <1>7, <1>8

\* Every variable keeps its type, and exactly the calls that wait for a job have one.
THEOREM TypeCorrect == Spec => []TypeOK
  <1>1. Init => TypeOK
    <2> SUFFICES ASSUME Init PROVE TypeOK OBVIOUS
    <2>1. unit \in UnitType BY NoUnitType DEF Init
    <2>2. QueuesOK BY EmptySeq DEF Init, QueuesOK
    <2>3. CallsOK
      BY NoUnitType, PidAssumption DEF Init, CallsOK, CallType, HasJob, Labels, AllOps, Returned
    <2>4. QED BY <2>1, <2>2, <2>3, TypeParts, PidAssumption DEF Init, PropsOK
  <1>2. TypeOK /\ [Next]_vars => TypeOK'
    <2>1. TypeOK /\ UNCHANGED vars => TypeOK' BY DEF TypeOK, vars, At
    <2>2. QED
      BY <2>1, SystemdType, CallType_, AddProcType, OtherType DEF Next, Step, Go
  <1>3. QED BY <1>1, <1>2, PTL DEF Spec

-----------------------------------------------------------------------------
(***************************************************************************)
(* The end of the job.                                                     *)
(***************************************************************************)

Waits(c) == m[c].pc \in {"reply", "wait"}

\* The end of c's job is still to come or under way to c.
Underway(c) ==
  \/ outcome[m[c].job] = "pending" /\ unit.job = m[c].job
  \/ \E i \in 1 .. Len(signals[c]) : signals[c][i] = <<m[c].job, outcome[m[c].job]>>

\* A job that is queued has not ended, and no signal of it has been sent.
NotTwice(c) ==
  /\ unit.job = m[c].job => outcome[m[c].job] = "pending"
  /\ \A i \in 1 .. Len(signals[c]) :
       signals[c][i][1] = m[c].job =>
         outcome[m[c].job] # "pending" /\ signals[c][i][2] = outcome[m[c].job]

JobInv ==
  /\ unit.state = "none" => unit.job = NoJob
  /\ \A c \in Clients : Waits(c) => Underway(c) /\ NotTwice(c)


\* A client that a step does not touch goes on waiting, unless its job ends.
LEMMA Unmoved ==
  ASSUME JobInv, NEW c \in Clients, Waits(c),
         m'[c] = m[c], signals'[c] = signals[c],
         outcome'[m[c].job] = outcome[m[c].job],
         unit'.job = unit.job \/ {unit.job, unit'.job} \cap {m[c].job} = {}
  PROVE  Underway(c)' /\ NotTwice(c)'
  BY DEF JobInv, Underway, NotTwice

\* The end of a job, its own or another one, keeps a client waiting for the signal.
LEMMA Ended ==
  ASSUME TypeOK, JobInv, NEW c \in Clients, Waits(c), m'[c] = m[c],
         unit.job # NoJob, NEW r \in Results, Tell(unit.job, r), unit'.job # m[c].job
  PROVE  Underway(c)' /\ NotTwice(c)'
  <1> DEFINE j == m[c].job
             n == Len(signals[c])
  <1>1. QueuesOK /\ CallsOK /\ unit \in UnitType BY TypeParts
  <1>2. unit.job \in Jobs /\ j \in Jobs
    BY <1>1 DEF UnitType, CallsOK, CallType, Waits, HasJob
  <1>3. Listening(c) BY DEF Listening, Waits
  <1>4. /\ outcome' = [outcome EXCEPT ![unit.job] = r]
        /\ Len(signals'[c]) = n + 1
        /\ signals'[c][n + 1] = <<unit.job, r>>
        /\ \A i \in 1 .. n : signals'[c][i] = signals[c][i]
    BY <1>1, <1>2, <1>3, Told
  <1>5. n \in Nat BY <1>1, LenProperties DEF QueuesOK
  <1>6. m'[c].job = j /\ r # "pending" BY DEF Results
  <1>7. Underway(c) /\ NotTwice(c) BY DEF JobInv
  <1>8. CASE unit.job = j
    <2>1. outcome'[j] = r BY <1>1, <1>2, <1>4, <1>8 DEF QueuesOK
    <2>2. n + 1 \in 1 .. Len(signals'[c]) BY <1>4, <1>5
    <2>3. Underway(c)' BY <1>4, <1>6, <1>8, <2>1, <2>2 DEF Underway
    <2>4. \A i \in 1 .. n : signals[c][i][1] # j BY <1>7, <1>8 DEF NotTwice
    <2>5. NotTwice(c)' BY <1>4, <1>5, <1>6, <1>8, <2>1, <2>4 DEF NotTwice
    <2>6. QED BY <2>3, <2>5
  <1>9. CASE unit.job # j
    <2>1. outcome'[j] = outcome[j] BY <1>1, <1>2, <1>4, <1>9 DEF QueuesOK
    <2>2. PICK i \in 1 .. n : signals[c][i] = <<j, outcome[j]>> BY <1>7, <1>9 DEF Underway
    <2>3. i \in 1 .. Len(signals'[c]) BY <1>4, <1>5
    <2>4. Underway(c)' BY <1>4, <1>6, <2>1, <2>2, <2>3 DEF Underway
    <2>5. ASSUME NEW k \in 1 .. Len(signals'[c]), signals'[c][k][1] = j
          PROVE  outcome[j] # "pending" /\ signals'[c][k][2] = outcome[j]
      <3>1. k # n + 1 BY <1>4, <1>9, <2>5
      <3>2. k \in 1 .. n BY <1>4, <1>5, <3>1
      <3>3. QED BY <1>4, <1>7, <2>5, <3>2 DEF NotTwice
    <2>6. NotTwice(c)' BY <1>6, <2>1, <2>5 DEF NotTwice
    <2>7. QED BY <2>4, <2>6
  <1>10. QED BY <1>8, <1>9

\* A step of d that neither queues nor ends a job.
LEMMA Quiet ==
  ASSUME JobInv, NEW d \in Clients,
         \A c \in Clients \ {d} : m'[c] = m[c] /\ signals'[c] = signals[c],
         UNCHANGED outcome, unit'.job = unit.job,
         unit'.state = "none" => unit.job = NoJob,
         \/ ~Waits(d)'
         \/ Waits(d) /\ m'[d].job = m[d].job /\ signals'[d] = signals[d]
  PROVE  JobInv'
  <1>1. ASSUME NEW c \in Clients, Waits(c)', c # d PROVE Underway(c)' /\ NotTwice(c)'
    <2>1. Waits(c) BY <1>1 DEF Waits
    <2>2. QED BY <1>1, <2>1, Unmoved
  <1>2. ASSUME Waits(d)' PROVE Underway(d)' /\ NotTwice(d)'
    <2>1. Waits(d) /\ m'[d].job = m[d].job /\ signals'[d] = signals[d] BY <1>2
    <2>2. Underway(d) /\ NotTwice(d) BY <2>1 DEF JobInv
    <2>3. QED BY <2>1, <2>2 DEF Underway, NotTwice
  <1>3. unit'.state = "none" => unit'.job = NoJob BY DEF JobInv
  <1>4. QED BY <1>1, <1>2, <1>3 DEF JobInv

\* StopUnit queues a job that nobody knows, and may end the start job.
LEMMA Stopped ==
  ASSUME TypeOK, JobInv, NEW c \in Clients, Waits(c), m'[c] = m[c], StopJob
  PROVE  Underway(c)' /\ NotTwice(c)'
  <1>1. CASE unit.job # NoJob /\ unit.kind = "stop" BY <1>1, Unmoved DEF StopJob
  <1>2. CASE ~(unit.job # NoJob /\ unit.kind = "stop")
    <2>1. PICK j \in Jobs :
            /\ NewJob(j)
            /\ unit' = [unit EXCEPT !.job = j, !.kind = "stop", !.frozen = FALSE]
            /\ IF unit.job = NoJob
               THEN outcome' = [outcome EXCEPT ![j] = "pending"] /\ UNCHANGED signals
               ELSE Tell(unit.job, "canceled")
      BY <1>2 DEF StopJob
    <2>2. m[c].job # j BY <2>1 DEF NewJob, Fresh
    <2>3. QueuesOK /\ CallsOK /\ unit \in UnitType BY TypeParts
    <2>4. unit'.job = j BY <2>1, <2>3 DEF UnitType
    <2>5. m[c].job # NoJob BY <2>3 DEF CallsOK, Waits, HasJob
    <2>6. CASE unit.job = NoJob
      <3>1. outcome'[m[c].job] = outcome[m[c].job] /\ signals'[c] = signals[c]
        <4>1. m[c].job \in Jobs BY <2>3, <2>5 DEF CallsOK, CallType
        <4>2. QED BY <2>1, <2>2, <2>3, <2>6, <4>1 DEF QueuesOK
      <3>2. QED BY <2>2, <2>4, <2>5, <2>6, <3>1, Unmoved
    <2>7. CASE unit.job # NoJob
      <3>1. Tell(unit.job, "canceled") /\ "canceled" \in Results BY <2>1, <2>7 DEF Results
      <3>2. QED BY <2>2, <2>4, <2>7, <3>1, Ended
    <2>8. QED BY <2>6, <2>7
  <1>3. QED BY <1>1, <1>2

LEMMA SystemdJob == TypeOK /\ JobInv /\ Systemd => JobInv'
  <1> SUFFICES ASSUME TypeOK, JobInv, Systemd PROVE JobInv' OBVIOUS
  <1>1. UNCHANGED m BY DEF Systemd, StartEnds, StopEnds, ScopeEnds
  <1>2. QueuesOK /\ CallsOK /\ unit \in UnitType BY TypeParts
  <1>3. unit'.job = NoJob /\ (StartEnds \/ StopEnds => unit.job # NoJob)
    <2>1. NoUnit.job = NoJob BY DEF NoUnit
    <2>2. \A s \in {"active", "failed"}, p \in {unit.pids, {}} :
            [unit EXCEPT !.state = s, !.job = NoJob, !.pids = p].job = NoJob
      BY <1>2 DEF UnitType
    <2>3. StartEnds => unit'.job = NoJob /\ unit.job # NoJob
      BY <1>2, <2>1 DEF StartEnds, UnitType
    <2>4. StopEnds => unit'.job = NoJob /\ unit.job # NoJob
      BY <1>2, <2>1, <2>2 DEF StopEnds
    <2>5. ScopeEnds => unit'.job = NoJob BY <2>1 DEF ScopeEnds
    <2>6. QED BY <2>3, <2>4, <2>5 DEF Systemd
  <1>4. ASSUME NEW c \in Clients, Waits(c)' PROVE Underway(c)' /\ NotTwice(c)'
    <2>1. Waits(c) /\ m'[c] = m[c] BY <1>1, <1>4 DEF Waits
    <2>2. m[c].job # NoJob BY <1>2, <2>1 DEF CallsOK, Waits, HasJob
    <2>3. CASE StartEnds \/ StopEnds
      <3>1. PICK r \in Results : Tell(unit.job, r) BY <2>3 DEF StartEnds, StopEnds, Results
      <3>2. QED BY <1>3, <2>1, <2>2, <2>3, <3>1, Ended
    <2>4. CASE ScopeEnds
      <3>1. unit.job = NoJob /\ UNCHANGED <<outcome, signals>> BY <2>4 DEF ScopeEnds
      <3>2. QED BY <1>3, <2>1, <3>1, Unmoved
    <2>5. QED BY <2>3, <2>4 DEF Systemd
  <1>5. QED BY <1>3, <1>4 DEF JobInv

\* The steps of add_proc.
LEMMA AddProcJob ==
  ASSUME TypeOK, JobInv, NEW d \in Clients,
         \/ Call(d) \/ Exists(d) \/ SetPid(d) \/ Subscribe(d) \/ Queue(d) \/ QueueRefused(d)
         \/ Reply(d) \/ Wait(d) \/ Timeout(d) \/ StreamCloses(d) \/ Create(d) \/ Attach(d)
  PROVE  JobInv'
  <1>1. unit \in UnitType /\ QueuesOK /\ CallsOK /\ PropsOK BY TypeParts
  <1>r. \A r : Return(d, r) => ~Waits(d)' /\ \A c \in Clients \ {d} : m'[c] = m[c]
    BY <1>1, Returns DEF Waits
  <1>g. \A l : Goto(d, l) => /\ m'[d].pc = l /\ m'[d].job = m[d].job
                             /\ \A c \in Clients \ {d} : m'[c] = m[c]
    BY <1>1, Goes
  <1>s. \A s : signals' = [signals EXCEPT ![d] = s] => \A c \in Clients \ {d} : signals'[c] = signals[c]
    BY <1>1 DEF QueuesOK
  <1>n. unit.state = "none" => unit.job = NoJob BY DEF JobInv
  <1> USE DEF At
  <1>2. CASE Call(d)
    <2>1. /\ ~Waits(d)' /\ UNCHANGED <<unit, outcome, signals>>
          /\ \A c \in Clients \ {d} : m'[c] = m[c]
      BY <1>1, <1>2 DEF Call, CallsOK, CallType, Waits
    <2>2. QED BY <1>n, <2>1, Quiet
  <1>3. CASE Exists(d) \/ SetPid(d) \/ Subscribe(d) \/ Create(d)
    <2>1. UNCHANGED <<unit, outcome, signals>> BY <1>3 DEF Exists, SetPid, Subscribe, Create
    <2>2. ~Waits(d)' /\ \A c \in Clients \ {d} : m'[c] = m[c]
      BY <1>3, <1>r, <1>g DEF Exists, SetPid, Subscribe, Create, Waits
    <2>3. QED BY <1>n, <2>1, <2>2, Quiet
  <1>4. CASE Queue(d)
    <2>1. PICK j \in Jobs : StartJob(d, j) /\ m' = [m EXCEPT ![d].pc = "reply", ![d].job = j]
      BY <1>4 DEF Queue
    <2>2. unit'.job = j /\ unit'.state = "inactive" BY <2>1 DEF StartJob, NoUnit
    <2>3. unit.job = NoJob BY <1>n, <2>1 DEF StartJob, Loaded
    <2>4. outcome' = [outcome EXCEPT ![j] = "pending"] /\ Fresh(j)
      BY <2>1 DEF StartJob, NewJob
    <2>5. UNCHANGED signals BY <1>4 DEF Queue
    <2>6. ASSUME NEW c \in Clients, Waits(c)', c # d PROVE Underway(c)' /\ NotTwice(c)'
      <3>1. m'[c] = m[c] /\ Waits(c) BY <1>1, <2>1, <2>6 DEF CallsOK, Waits
      <3>2. m[c].job # j BY <2>4 DEF Fresh
      <3>3. m[c].job \in Jobs /\ m[c].job # NoJob
        BY <1>1, <3>1 DEF CallsOK, CallType, Waits, HasJob
      <3>4. outcome'[m[c].job] = outcome[m[c].job] BY <1>1, <2>4, <3>2, <3>3 DEF QueuesOK
      <3>5. QED BY <2>2, <2>3, <2>5, <3>1, <3>2, <3>3, <3>4, Unmoved
    <2>7. Underway(d)' /\ NotTwice(d)'
      <3>1. m'[d].job = j BY <1>1, <2>1 DEF CallsOK, CallType
      <3>2. outcome'[j] = "pending" BY <1>1, <2>4 DEF QueuesOK
      <3>3. \A i \in 1 .. Len(signals'[d]) : signals'[d][i][1] # j BY <2>4, <2>5 DEF Fresh
      <3>4. QED BY <2>2, <3>1, <3>2, <3>3 DEF Underway, NotTwice
    <2>8. QED BY <2>2, <2>6, <2>7 DEF JobInv
  <1>5. CASE QueueRefused(d) \/ Timeout(d) \/ StreamCloses(d)
    <2>1. UNCHANGED <<unit, outcome>> /\ signals' = [signals EXCEPT ![d] = <<>>] /\ Return(d, "err")
      BY <1>5 DEF QueueRefused, Timeout, StreamCloses
    <2>2. QED BY <1>n, <1>r, <1>s, <2>1, Quiet
  <1>6. CASE Reply(d)
    <2>1. UNCHANGED <<unit, outcome, signals>> /\ Waits(d) /\ Goto(d, "wait")
      BY <1>6 DEF Reply, Waits
    <2>2. QED BY <1>n, <1>g, <2>1, Quiet
  <1>7. CASE Wait(d) /\ Head(signals[d])[1] # m[d].job
    <2>1. /\ UNCHANGED <<unit, outcome, m>> /\ Waits(d) /\ signals[d] # <<>>
          /\ signals' = [signals EXCEPT ![d] = Tail(@)]
      BY <1>7 DEF Wait, Waits
    <2> DEFINE n == Len(signals[d])
    <2>2. /\ Head(signals[d]) = signals[d][1] /\ n \in Nat \ {0}
          /\ Len(Tail(signals[d])) = n - 1
          /\ \A i \in 1 .. n - 1 : Tail(signals[d])[i] = signals[d][i + 1]
      BY <1>1, <2>1, HeadTailProperties, EmptySeq DEF QueuesOK
    <2>3. signals'[d] = Tail(signals[d]) BY <1>1, <2>1 DEF QueuesOK
    <2>4. Underway(d) /\ NotTwice(d) BY <2>1 DEF JobInv
    <2>5. Underway(d)'
      <3>1. CASE outcome[m[d].job] = "pending" /\ unit.job = m[d].job BY <2>1, <3>1 DEF Underway
      <3>2. CASE \E i \in 1 .. n : signals[d][i] = <<m[d].job, outcome[m[d].job]>>
        <4>1. PICK i \in 1 .. n : signals[d][i] = <<m[d].job, outcome[m[d].job]>> BY <3>2
        <4>2. i # 1 BY <1>7, <2>2, <4>1
        <4>3. i - 1 \in 1 .. n - 1 /\ Tail(signals[d])[i - 1] = signals[d][i]
          BY <2>2, <4>2
        <4>4. QED BY <2>1, <2>2, <2>3, <4>1, <4>3 DEF Underway
      <3>3. QED BY <2>4, <3>1, <3>2 DEF Underway
    <2>6. NotTwice(d)'
      <3>1. \A i \in 1 .. n - 1 : i + 1 \in 1 .. n BY <2>2
      <3>2. QED BY <2>1, <2>2, <2>3, <2>4, <3>1 DEF NotTwice
    <2>7. ASSUME NEW c \in Clients, Waits(c)', c # d PROVE Underway(c)' /\ NotTwice(c)'
      <3>1. Waits(c) /\ m'[c] = m[c] BY <2>1, <2>7 DEF Waits
      <3>2. QED BY <1>s, <2>1, <2>7, <3>1, Unmoved
    <2>8. QED BY <1>n, <2>1, <2>5, <2>6, <2>7 DEF JobInv
  <1>8. CASE Wait(d) /\ Head(signals[d])[1] = m[d].job
    <2>1. UNCHANGED <<unit, outcome>> /\ signals' = [signals EXCEPT ![d] = <<>>]
      BY <1>8 DEF Wait
    <2>2. ~Waits(d)' /\ \A c \in Clients \ {d} : m'[c] = m[c]
      BY <1>8, <1>r, <1>g DEF Wait, Waits
    <2>3. QED BY <1>n, <1>s, <2>1, <2>2, Quiet
  <1>9. CASE Attach(d)
    <2>1. /\ UNCHANGED <<outcome, signals>> /\ \E r \in Returned : Return(d, r)
          /\ unit'.job = unit.job /\ unit'.state = unit.state
      BY <1>1, <1>9 DEF Attach, UnitType, Returned
    <2>2. QED BY <1>n, <1>r, <2>1, Quiet
  <1>10. QED BY <1>2, <1>3, <1>4, <1>5, <1>6, <1>7, <1>8, <1>9

\* The steps of destroy, set, freeze and thaw, and the calls that fail.
LEMMA OtherJob ==
  ASSUME TypeOK, JobInv, NEW d \in Clients,
         \/ Stop(d) \/ StopExists(d) \/ Reset(d) \/ SetCache(d) \/ SetUnit(d)
         \/ Freezer(d) \/ CallFails(d)
  PROVE  JobInv'
  <1>1. unit \in UnitType /\ QueuesOK /\ CallsOK /\ PropsOK BY TypeParts
  <1>r. \A r : Return(d, r) => ~Waits(d)' /\ \A c \in Clients \ {d} : m'[c] = m[c]
    BY <1>1, Returns DEF Waits
  <1>g. \A l : Goto(d, l) => /\ m'[d].pc = l /\ m'[d].job = m[d].job
                             /\ \A c \in Clients \ {d} : m'[c] = m[c]
    BY <1>1, Goes
  <1>s. \A s : signals' = [signals EXCEPT ![d] = s] => \A c \in Clients \ {d} : signals'[c] = signals[c]
    BY <1>1 DEF QueuesOK
  <1>n. unit.state = "none" => unit.job = NoJob BY DEF JobInv
  <1> DEFINE Same == unit'.job = unit.job /\ (unit'.state = "none" => unit.job = NoJob)
  <1>e. ResetFailed => Same BY <1>1, <1>n DEF ResetFailed, NoUnit, UnitType
  <1>p. unit' = [unit EXCEPT !.pids = @ \cup {m[d].pid}] => Same BY <1>1, <1>n DEF UnitType
  <1>l. unit' = [unit EXCEPT !.limit = m[d].val] => Same BY <1>1, <1>n DEF UnitType
  <1>f. FreezeOrThaw(d) => Same BY <1>1, <1>n DEF FreezeOrThaw, UnitType
  <1>u. UNCHANGED unit => Same BY <1>n
  <1>j. ASSUME StopJob, ~Waits(d)', \A c \in Clients \ {d} : m'[c] = m[c]
        PROVE  JobInv'
    <2>1. ASSUME NEW c \in Clients, Waits(c)' PROVE Underway(c)' /\ NotTwice(c)'
      <3>1. Waits(c) /\ m'[c] = m[c] BY <1>j, <2>1 DEF Waits
      <3>2. QED BY <1>j, <3>1, Stopped
    <2>2. unit'.state # "none" BY <1>1, <1>j DEF StopJob, Loaded, UnitType
    <2>3. QED BY <2>1, <2>2 DEF JobInv
  <1> HIDE DEF Same
  <1>q. ASSUME ~Waits(d)', \A c \in Clients \ {d} : m'[c] = m[c],
               UNCHANGED <<outcome, signals>>, Same
        PROVE  JobInv'
    BY <1>q, Quiet DEF Same
  <1> USE DEF At
  <1>2. CASE Stop(d)
    <2>1. ~Waits(d)' /\ \A c \in Clients \ {d} : m'[c] = m[c] BY <1>2, <1>g DEF Stop, Waits
    <2>2. QED BY <1>2, <1>j, <1>q, <1>u, <2>1 DEF Stop
  <1>3. CASE StopExists(d) \/ SetCache(d)
    <2>1. ~Waits(d)' /\ \A c \in Clients \ {d} : m'[c] = m[c]
      BY <1>3, <1>r, <1>g DEF StopExists, SetCache, Waits
    <2>2. QED BY <1>3, <1>q, <1>u, <2>1 DEF StopExists, SetCache
  <1>4. CASE Reset(d) BY <1>4, <1>r, <1>e, <1>q DEF Reset
  <1>5. CASE SetUnit(d) BY <1>5, <1>r, <1>l, <1>u, <1>q DEF SetUnit
  <1>6. CASE Freezer(d) BY <1>6, <1>r, <1>f, <1>u, <1>q DEF Freezer
  <1>7. CASE CallFails(d)
    <2>1. ~Waits(d)' /\ \A c \in Clients \ {d} : m'[c] = m[c] BY <1>7, <1>r DEF CallFails
    <2>2. CASE signals' = [signals EXCEPT ![d] = <<>>] /\ UNCHANGED <<unit, outcome>>
      BY <1>n, <1>s, <2>1, <2>2, Quiet
    <2>3. CASE StopJob BY <1>j, <2>1, <2>3
    <2>4. CASE Same /\ UNCHANGED <<outcome, signals>> BY <1>q, <2>1, <2>4
    <2>5. QED BY <1>7, <1>p, <1>e, <1>l, <1>f, <2>2, <2>3, <2>4 DEF CallFails
  <1>8. QED BY <1>2, <1>3, <1>4, <1>5, <1>6, <1>7

LEMMA JobStep == TypeOK /\ JobInv /\ [Next]_vars => JobInv'
  <1>1. ASSUME JobInv, UNCHANGED vars PROVE JobInv'
    BY <1>1 DEF JobInv, vars, Waits, Underway, NotTwice
  <1>2. QED BY <1>1, SystemdJob, AddProcJob, OtherJob DEF Next, Step, Go

LEMMA JobCorrect == Spec => []JobInv
  <1>1. Init => JobInv BY DEF Init, JobInv, NoUnit, Waits
  <1>2. QED BY <1>1, JobStep, TypeCorrect, PTL DEF Spec

\* No client that waits for its start job has missed the end of it.
THEOREM SignalNotLost == Spec => []NoLostSignal
  <1>1. JobInv => NoLostSignal BY DEF JobInv, NoLostSignal, Waits, Underway, At
  <1>2. QED BY <1>1, JobCorrect, PTL

\* What makes start return Ok is the end of its own job.
THEOREM OkMeansDone == Spec => StartOkMeansDone
  <1> DEFINE Done == \A c \in Clients :
               At(c, "wait") /\ m'[c].pc = "create" => outcome[m[c].job] = "done"
  <1>1. TypeOK /\ JobInv /\ [Next]_vars => [Done]_vars
    <2> SUFFICES ASSUME TypeOK, JobInv, Next,
                        NEW c \in Clients, At(c, "wait"), m'[c].pc = "create"
                 PROVE  outcome[m[c].job] = "done"
      BY DEF Done
    <2>1. unit \in UnitType /\ QueuesOK /\ CallsOK /\ PropsOK BY TypeParts
    <2>2. m'[c] # m[c] BY DEF At
    <2>3. ~Systemd BY <2>2 DEF Systemd, StartEnds, StopEnds, ScopeEnds
    <2>4. \A d \in Clients : Call(d) => d # c /\ m'[c] = m[c]
      BY <2>1 DEF Call, At, CallsOK
    <2>5. \A d \in Clients : \A r : Return(d, r) => d = c /\ m'[c].pc = "idle"
      BY <2>1, <2>2, Returns
    <2>6. \A d \in Clients : \A l : Goto(d, l) => d = c BY <2>1, <2>2, Goes
    <2>7. PICK d \in Clients : Step(d) BY <2>3, <2>4, <2>2 DEF Next
    <2>8. d = c /\ Wait(c) /\ Head(signals[c])[1] = m[c].job /\ Head(signals[c])[2] = "done"
      <3>1. \A e \in Clients, j \in Jobs : m' = [m EXCEPT ![e].pc = "reply", ![e].job = j] => e = c
        BY <2>1, <2>2 DEF CallsOK
      <3>2. d = c
        BY <2>2, <2>5, <2>6, <2>7, <3>1
           DEF Step, Go, Exists, SetPid, Subscribe, Queue, QueueRefused, Reply, Wait, Create,
               Attach, Stop, StopExists, Reset, SetCache, SetUnit, Freezer, Timeout,
               StreamCloses, CallFails
      <3>3. Wait(c)
        BY <2>5, <2>7, <3>2
           DEF At, Step, Go, Exists, SetPid, Subscribe, Queue, QueueRefused, Reply, Create,
               Attach, Stop, StopExists, Reset, SetCache, SetUnit, Freezer, Timeout,
               StreamCloses, CallFails
      <3>4. QED BY <2>2, <2>5, <3>2, <3>3 DEF Wait
    <2>9. Head(signals[c]) = signals[c][1] /\ 1 \in 1 .. Len(signals[c])
      BY <2>1, <2>8, EmptySeq DEF Wait, QueuesOK
    <2>10. QED BY <2>8, <2>9 DEF JobInv, Waits, NotTwice, At
  <1>2. QED BY <1>1, JobCorrect, TypeCorrect, PTL DEF Spec, StartOkMeansDone

-----------------------------------------------------------------------------
(***************************************************************************)
(* The limit.                                                              *)
(***************************************************************************)

Alone(c) == \A d \in Clients \ {c} : "set" \notin Ops[d]

\* While set goes on, the handle's copy is ahead of the unit, or val of both.
LimitOf(c) ==
  /\ m[c].pc # "idle" => (m[c].op = "set" <=> m[c].pc \in {"cache", "set_unit"})
  /\ m[c].pc # "idle" /\ m[c].op = "set" => "set" \in Ops[c]
  /\ m[c].pc # "cache" => props[c].limit = m[c].val
  /\ Alone(c) /\ Loaded /\ unit.by = c /\ m[c].set = "ok" /\ m[c].pc # "set_unit"
       => unit.limit = props[c].limit

LimitInv == \A c \in Clients : LimitOf(c)

\* What a step makes of the unit without setting its limit.
LimitKept == \/ unit'.state = "none"
             \/ Loaded /\ unit'.by = unit.by /\ unit'.limit = unit.limit

LEMMA LimitKeepers ==
  ASSUME TypeOK, JobInv
  PROVE  /\ UNCHANGED unit \/ Systemd \/ StopJob \/ ResetFailed => LimitKept
         /\ \A c \in Clients : FreezeOrThaw(c) => LimitKept
         /\ \A s : unit' = [unit EXCEPT !.pids = s] => LimitKept
  <1>1. unit \in UnitType BY TypeParts
  <1>2. NoUnit.state = "none" BY DEF NoUnit
  <1>3. UNCHANGED unit => LimitKept BY DEF LimitKept, Loaded
  <1>4. Systemd => LimitKept
    <2>1. unit.job # NoJob => Loaded BY DEF JobInv, Loaded
    <2>2. StartEnds => LimitKept BY <1>1, <1>2, <2>1 DEF StartEnds, LimitKept, UnitType
    <2>3. StopEnds => LimitKept BY <1>1, <1>2, <2>1 DEF StopEnds, LimitKept, UnitType
    <2>4. ScopeEnds => LimitKept BY <1>2 DEF ScopeEnds, LimitKept
    <2>5. QED BY <2>2, <2>3, <2>4 DEF Systemd
  <1>5. StopJob => LimitKept BY <1>1, <1>3 DEF StopJob, LimitKept, UnitType
  <1>6. ResetFailed => LimitKept BY <1>1, <1>2 DEF ResetFailed, LimitKept, Loaded, UnitType
  <1>7. \A c \in Clients : FreezeOrThaw(c) => LimitKept
    BY <1>1 DEF FreezeOrThaw, LimitKept, Loaded, UnitType
  <1>8. \A s : unit' = [unit EXCEPT !.pids = s] => LimitKept
    BY <1>1 DEF LimitKept, Loaded, UnitType
  <1>9. QED BY <1>3, <1>4, <1>5, <1>6, <1>7, <1>8

\* A step that leaves the copies alone, and a client whose step it is not.
LEMMA Others ==
  ASSUME LimitInv, NEW c \in Clients, m'[c] = m[c], props'[c] = props[c],
         LimitKept \/ unit'.by # c \/ ~Alone(c)
  PROVE  LimitOf(c)'
  BY DEF LimitInv, LimitOf, LimitKept, Loaded, Alone

\* A step of d that leaves its copy alone and is not one of set.
LEMMA NotSet ==
  ASSUME TypeOK, LimitInv, NEW d \in Clients, LimitKept, UNCHANGED props,
         m[d].pc \notin {"idle", "cache", "set_unit"},
         \/ \E r : Return(d, r)
         \/ \E l \in Labels \ {"cache", "set_unit"} : Goto(d, l)
  PROVE  LimitInv'
  <1>1. CallsOK BY TypeParts
  <1>2. /\ \A c \in Clients \ {d} : m'[c] = m[c]
        /\ m'[d].val = m[d].val
        /\ m'[d].pc \notin {"cache", "set_unit"}
        /\ m'[d].pc = "idle" \/ m'[d].op = m[d].op
        /\ m[d].op # "set" => m'[d].set = m[d].set
    BY <1>1, Returns, Goes
  <1>3. LimitOf(d) /\ m[d].op # "set" BY DEF LimitInv, LimitOf
  <1>4. LimitOf(d)' BY <1>2, <1>3 DEF LimitOf, LimitKept, Loaded, Alone
  <1>5. QED BY <1>2, <1>4, Others DEF LimitInv

\* The steps of set.
LEMMA SetLimit ==
  ASSUME TypeOK, JobInv, LimitInv, "exists" \notin Faults, NEW d \in Clients,
         \/ Call(d) \/ SetCache(d) \/ SetUnit(d)
         \/ CallFails(d) /\ At(d, "set_unit")
  PROVE  LimitInv'
  <1>1. unit \in UnitType /\ CallsOK /\ PropsOK BY TypeParts
  <1>2. LimitOf(d) BY DEF LimitInv
  <1> USE DEF At
  <1>3. CASE Call(d)
    <2>1. /\ UNCHANGED <<unit, props>> /\ \A c \in Clients \ {d} : m'[c] = m[c]
      BY <1>1, <1>3 DEF Call, CallsOK
    <2>2. /\ m[d].pc = "idle" /\ m'[d].pc # "idle" /\ m'[d].pc # "set_unit"
          /\ m'[d].set = m[d].set
          /\ m'[d].op = "set" => "set" \in Ops[d]
          /\ m'[d].op = "set" <=> m'[d].pc = "cache"
          /\ m'[d].pc # "cache" => m'[d].val = m[d].val
      BY <1>1, <1>3 DEF Call, CallsOK, CallType
    <2>3. LimitOf(d)' BY <1>2, <2>1, <2>2 DEF LimitOf, Loaded, Alone
    <2>4. QED BY <2>1, <2>3, Others, LimitKeepers DEF LimitInv
  <1>4. CASE SetCache(d)
    <2>1. m[d].op = "set" BY <1>2, <1>4 DEF SetCache, LimitOf
    <2>2. props' = [props EXCEPT ![d].limit = m[d].val] /\ UNCHANGED unit BY <1>4 DEF SetCache
    <2>3. props'[d].limit = m[d].val /\ \A c \in Clients \ {d} : props'[c] = props[c]
      BY <1>1, <2>2 DEF PropsOK
    <2>4. \/ Goto(d, "set_unit")
          \/ ~Loaded /\ Return(d, "ok")
      BY <1>4 DEF SetCache, Sees
    <2>5. \A c \in Clients \ {d} : m'[c] = m[c] BY <1>1, <2>4, Returns, Goes
    <2>6. LimitOf(d)'
      <3>1. CASE Goto(d, "set_unit")
        <4>1. m'[d].pc = "set_unit" /\ m'[d].op = m[d].op /\ m'[d].val = m[d].val
          BY <1>1, <3>1, Goes
        <4>2. QED BY <1>2, <1>4, <2>1, <2>3, <4>1 DEF LimitOf, SetCache
      <3>2. CASE ~Loaded /\ Return(d, "ok")
        <4>1. m'[d].pc = "idle" /\ m'[d].val = m[d].val BY <1>1, <3>2, Returns
        <4>2. QED BY <2>2, <2>3, <3>2, <4>1 DEF LimitOf, Loaded
      <3>3. QED BY <2>4, <3>1, <3>2
    <2>7. QED BY <2>2, <2>3, <2>5, <2>6, Others, LimitKeepers DEF LimitInv
  <1>5. CASE (SetUnit(d) \/ CallFails(d)) /\ At(d, "set_unit")
    <2>1. m[d].op = "set" /\ "set" \in Ops[d] /\ props[d].limit = m[d].val
      BY <1>2, <1>5 DEF LimitOf
    <2>2. ASSUME NEW c \in Clients, c # d PROVE ~Alone(c) BY <2>1, <2>2 DEF Alone
    <2>3. PICK r \in Returned : Return(d, r) BY <1>5 DEF SetUnit, CallFails, Returned
    <2>4. /\ \A c \in Clients \ {d} : m'[c] = m[c]
          /\ m'[d].pc = "idle" /\ m'[d].val = m[d].val /\ m'[d].set = r
      BY <1>1, <2>1, <2>3, Returns
    <2>5. UNCHANGED props BY <1>5 DEF SetUnit, CallFails
    <2>6. r = "ok" => unit'.limit = m[d].val
      <3>1. CASE CallFails(d)
        <4>1. Return(d, "err") BY <3>1 DEF CallFails
        <4>2. m'[d].set = "err" BY <1>1, <2>1, <4>1, Returns
        <4>3. QED BY <2>4, <4>2
      <3>2. CASE SetUnit(d) /\ Loaded BY <1>1, <3>2 DEF SetUnit, UnitType
      <3>3. CASE SetUnit(d) /\ ~Loaded
        <4>1. Return(d, "err") BY <3>3 DEF SetUnit
        <4>2. m'[d].set = "err" BY <1>1, <2>1, <4>1, Returns
        <4>3. QED BY <2>4, <4>2
      <3>4. QED BY <1>5, <3>1, <3>2, <3>3
    <2>7. LimitOf(d)' BY <2>1, <2>4, <2>5, <2>6 DEF LimitOf
    <2>8. QED BY <2>2, <2>4, <2>5, <2>7, Others DEF LimitInv
  <1>6. QED BY <1>3, <1>4, <1>5 DEF SetUnit

\* All other steps of the calls.
LEMMA OtherLimit ==
  ASSUME TypeOK, JobInv, LimitInv, NEW d \in Clients,
         Step(d), ~SetCache(d), ~SetUnit(d), ~At(d, "set_unit")
  PROVE  LimitInv'
  <1>1. unit \in UnitType /\ QueuesOK /\ CallsOK /\ PropsOK BY TypeParts
  <1>2. LimitOf(d) BY DEF LimitInv
  <1>k. /\ UNCHANGED unit \/ StopJob \/ ResetFailed \/ FreezeOrThaw(d) => LimitKept
        /\ \A s : unit' = [unit EXCEPT !.pids = s] => LimitKept
    BY LimitKeepers
  <1> USE DEF At
  <1>l. \A l : l \in {"attach", "set_pid", "subscribe", "queue", "wait", "create", "stop_exists", "reset"}
               => l \in Labels \ {"cache", "set_unit"}
    BY DEF Labels
  <1> DEFINE Ends == \/ \E r : Return(d, r)
                     \/ \E l \in Labels \ {"cache", "set_unit"} : Goto(d, l)
  <1>q. ASSUME LimitKept, Ends,
               m[d].pc \notin {"idle", "cache", "set_unit"}
        PROVE  UNCHANGED props => LimitInv'
    BY <1>q, NotSet
  <1> HIDE DEF Ends
  <1>e. /\ \A r : Return(d, r) => Ends
        /\ \A l : Goto(d, l) /\ l \in {"attach", "set_pid", "subscribe", "queue", "wait", "create",
                                       "stop_exists", "reset"} => Ends
    BY <1>l DEF Ends
  <1>3. CASE Exists(d) BY <1>3, <1>k, <1>q, <1>e DEF Exists
  <1>4. CASE SetPid(d)
    <2>1. CASE UNCHANGED props BY <1>4, <2>1, <1>k, <1>q, <1>e DEF SetPid
    <2>2. CASE props' = [props EXCEPT ![d].pids = {m[d].pid}] /\ Goto(d, "subscribe")
      <3>1. /\ \A c \in Clients \ {d} : props'[c] = props[c] /\ m'[c] = m[c]
            /\ props'[d].limit = props[d].limit /\ UNCHANGED unit
            /\ m'[d].pc = "subscribe" /\ m'[d].op = m[d].op /\ m'[d].val = m[d].val
            /\ m'[d].set = m[d].set
        BY <1>1, <1>4, <2>2, Goes DEF PropsOK, SetPid
      <3>2. LimitOf(d)' BY <1>2, <1>4, <3>1 DEF LimitOf, SetPid, Loaded, Alone
      <3>3. QED BY <1>k, <3>1, <3>2, Others DEF LimitInv
    <2>3. QED BY <1>4, <2>1, <2>2 DEF SetPid
  <1>5. CASE Subscribe(d) BY <1>5, <1>k, <1>q, <1>e DEF Subscribe
  <1>6. CASE Queue(d)
    <2>1. PICK j \in Jobs : StartJob(d, j) /\ m' = [m EXCEPT ![d].pc = "reply", ![d].job = j]
      BY <1>6 DEF Queue
    <2>2. unit'.limit = props[d].limit /\ unit'.by = d BY <2>1 DEF StartJob, NoUnit
    <2>3. /\ \A c \in Clients \ {d} : m'[c] = m[c]
          /\ m'[d].pc = "reply" /\ m'[d].op = m[d].op /\ m'[d].val = m[d].val
      BY <1>1, <2>1 DEF CallsOK, CallType
    <2>4. UNCHANGED props BY <1>6 DEF Queue
    <2>5. LimitOf(d)' BY <1>2, <1>6, <2>2, <2>3, <2>4 DEF LimitOf, Queue
    <2>6. QED BY <2>2, <2>3, <2>4, <2>5, Others DEF LimitInv
  <1>7. CASE QueueRefused(d) BY <1>7, <1>k, <1>q, <1>e DEF QueueRefused
  <1>8. CASE Reply(d) BY <1>8, <1>k, <1>q, <1>e DEF Reply
  <1>9. CASE Wait(d)
    <2>1. CASE UNCHANGED m
      <3>1. UNCHANGED <<unit, props>> BY <1>9 DEF Wait
      <3>2. QED BY <1>k, <2>1, <3>1, Others DEF LimitInv
    <2>2. CASE ~UNCHANGED m BY <1>9, <2>2, <1>k, <1>q, <1>e DEF Wait
    <2>3. QED BY <2>1, <2>2
  <1>10. CASE Create(d) BY <1>10, <1>k, <1>q, <1>e DEF Create
  <1>11. CASE Attach(d) BY <1>11, <1>k, <1>q, <1>e DEF Attach
  <1>12. CASE Stop(d) BY <1>12, <1>k, <1>q, <1>e DEF Stop
  <1>13. CASE StopExists(d) BY <1>13, <1>k, <1>q, <1>e DEF StopExists
  <1>14. CASE Reset(d) BY <1>14, <1>k, <1>q, <1>e DEF Reset
  <1>15. CASE Freezer(d) BY <1>15, <1>k, <1>q, <1>e DEF Freezer
  <1>16. CASE Timeout(d) BY <1>16, <1>k, <1>q, <1>e DEF Timeout
  <1>17. CASE StreamCloses(d) BY <1>17, <1>k, <1>q, <1>e DEF StreamCloses
  <1>18. CASE CallFails(d) BY <1>18, <1>k, <1>q, <1>e DEF CallFails
  <1>19. QED
    BY <1>3, <1>4, <1>5, <1>6, <1>7, <1>8, <1>9, <1>10, <1>11, <1>12, <1>13, <1>14, <1>15,
       <1>16, <1>17, <1>18 DEF Step, Go

\* If GetUnit tells the truth, the limit that set returned Ok for is the unit's.
THEOREM LimitCorrect == "exists" \notin Faults /\ Spec => []LimitInSync
  <1> SUFFICES ASSUME "exists" \notin Faults PROVE Spec => []LimitInSync OBVIOUS
  <1>1. Init => LimitInv BY DEF Init, LimitInv, LimitOf, Loaded, NoUnit
  <1>2. TypeOK /\ JobInv /\ LimitInv /\ [Next]_vars => LimitInv'
    <2> SUFFICES ASSUME TypeOK, JobInv, LimitInv, [Next]_vars PROVE LimitInv' OBVIOUS
    <2>1. CASE UNCHANGED vars BY <2>1 DEF vars, LimitInv, LimitOf, Loaded, Alone
    <2>2. CASE Systemd
      <3>1. UNCHANGED <<props, m>> BY <2>2 DEF Systemd, StartEnds, StopEnds, ScopeEnds
      <3>2. QED BY <2>2, <3>1, LimitKeepers, Others DEF LimitInv
    <2>3. ASSUME NEW d \in Clients, Call(d) PROVE LimitInv' BY <2>3, SetLimit
    <2>4. ASSUME NEW d \in Clients, Step(d) PROVE LimitInv'
      <3>1. CASE SetCache(d) \/ SetUnit(d) BY <3>1, SetLimit
      <3>2. CASE CallFails(d) /\ At(d, "set_unit") BY <3>2, SetLimit
      <3>3. CASE At(d, "set_unit")
        <4>1. SetUnit(d) \/ CallFails(d)
          BY <2>4, <3>3 DEF At, Step, Go, Exists, SetPid, Subscribe, Queue, QueueRefused,
             Reply, Wait, Create, Attach, Stop, StopExists, Reset, SetCache, Freezer, Timeout,
             StreamCloses
        <4>2. QED BY <3>1, <3>2, <3>3, <4>1
      <3>4. CASE ~SetCache(d) /\ ~SetUnit(d) /\ ~At(d, "set_unit") BY <2>4, <3>4, OtherLimit
      <3>5. QED BY <3>1, <3>3, <3>4
    <2>5. QED BY <2>1, <2>2, <2>3, <2>4 DEF Next
  <1>3. LimitInv => LimitInSync BY DEF LimitInv, LimitOf, LimitInSync, At, Alone
  <1>4. QED BY <1>1, <1>2, <1>3, JobCorrect, TypeCorrect, PTL DEF Spec
=============================================================================
