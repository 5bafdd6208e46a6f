------------------------- MODULE FsManagerV1Proofs -------------------------
(***************************************************************************)
(* Proofs about FsManagerV1, for every number of hierarchies, clients and  *)
(* tasks.                                                                  *)
(***************************************************************************)
EXTENDS FsManagerV1, TLAPS

LEMMA Counters ==
  /\ 1 \in Subs /\ 1 \in Tries
  /\ \A s \in Subs : s < NSub => s + 1 \in Subs
  /\ \A k \in Tries : k < MaxTries => k + 1 \in Tries
  BY NSubAssumption, TriesAssumption DEF Subs, Tries

\* c's call in progress becomes a well-typed record.
Typed(c) == \E r \in Manager : Becomes(c, r)

\* The control operators keep the type of the call in progress.
LEMMA ControlType ==
  ASSUME m \in [Clients -> Manager], NEW c \in Clients
  PROVE  /\ \A l \in Labels : Enter(c, l) => Typed(c)
         /\ \A r \in {"ok", "err"} : Return(c, r) => Typed(c)
         /\ Deleted(c) => Typed(c)
         /\ TryFailed(c) => Typed(c)
         /\ \A t \in Tasks : Dropped(c, t) => Typed(c)
         /\ \A l \in Labels, r \in {"ok", "err"} :
              /\ NextSub(c, Enter(c, l)) => Typed(c)
              /\ NextSub(c, Return(c, r)) => Typed(c)
         /\ \A l \in Labels : Becomes(c, [m[c] EXCEPT !.pc = l]) => Typed(c)
  <1> USE DEF Typed
  <1>0. m[c] \in Manager OBVIOUS
  <1>l. {"idle", "delete", "move", "rm"} \subseteq Labels BY DEF Labels
  <1>f. /\ m[c].sub \in Subs /\ m[c].tries \in Tries /\ m[c].todo \in SUBSET Tasks
    BY <1>0 DEF Manager
  <1>1. ASSUME NEW r \in {"ok", "err"} PROVE Return(c, r) => Typed(c)
    <2>1. [m[c] EXCEPT !.pc = "idle", !.res = r, !.sub = 1, !.tries = 1, !.todo = {}] \in Manager
      BY <1>0, <1>l, Counters DEF Manager
    <2>2. QED BY <2>1 DEF Return
  <1>n. m[c].sub < NSub => [m[c] EXCEPT !.sub = m[c].sub + 1, !.tries = 1] \in Manager
    <2>1. m[c].sub < NSub => m[c].sub + 1 \in Subs BY <1>f, Counters
    <2>2. QED BY <2>1, <1>0, Counters DEF Manager
  <1>2. Deleted(c) => Typed(c)
    <2>1. ASSUME m[c].sub < NSub
          PROVE  [m[c] EXCEPT !.sub = m[c].sub + 1, !.tries = 1, !.pc = "delete"] \in Manager
      <3>1. m[c].sub + 1 \in Subs BY <2>1, <1>f, Counters
      <3>2. QED BY <3>1, <1>0, <1>l, Counters DEF Manager
    <2>2. QED BY <2>1, <1>1 DEF Deleted
  <1>3. TryFailed(c) => Typed(c)
    <2>1. ASSUME m[c].tries < MaxTries
          PROVE  [m[c] EXCEPT !.tries = m[c].tries + 1, !.pc = "rm"] \in Manager
      <3>1. m[c].tries + 1 \in Tries BY <2>1, <1>f, Counters
      <3>2. QED BY <3>1, <1>0, <1>l DEF Manager
    <2>2. QED BY <2>1, <1>1 DEF TryFailed
  <1>4. ASSUME NEW l \in Labels PROVE Enter(c, l) => Typed(c)
    <2>1. [m[c] EXCEPT !.pc = l, !.sub = 1, !.tries = 1] \in Manager
      BY <1>0, Counters DEF Manager
    <2>2. QED BY <2>1 DEF Enter
  <1>5. ASSUME NEW t \in Tasks PROVE Dropped(c, t) => Typed(c)
    <2>1. ASSUME NEW l \in Labels
          PROVE  [m[c] EXCEPT !.sub = 1, !.todo = m[c].todo \ {t}, !.pc = l] \in Manager
      BY <1>0, Counters DEF Manager
    <2>2. QED BY <2>1, <1>l DEF Dropped
  <1>6. ASSUME NEW l \in Labels, NEW r \in {"ok", "err"}
        PROVE  /\ NextSub(c, Enter(c, l)) => Typed(c)
               /\ NextSub(c, Return(c, r)) => Typed(c)
    BY <1>n, <1>1, <1>4 DEF NextSub
  <1>7. ASSUME NEW l \in Labels PROVE Becomes(c, [m[c] EXCEPT !.pc = l]) => Typed(c)
    <2>1. [m[c] EXCEPT !.pc = l] \in Manager BY <1>0 DEF Manager
    <2>2. QED BY <2>1
  <1>8. QED BY <1>1, <1>2, <1>3, <1>4, <1>5, <1>6, <1>7

\* The part of TypeOK about the kernel's state.
KernelOK ==
  /\ dirs \subseteq Subs /\ kids \subseteq dirs
  /\ loc \in [Tasks -> [Subs -> {"root", "cg", "kid"}]]
  /\ life \in [Tasks -> {"unborn", "alive", "exiting", "gone"}]
  /\ \A t \in Tasks, s \in Subs : /\ loc[t][s] = "cg" => s \in dirs
                                  /\ loc[t][s] = "kid" => s \in kids
                                  /\ life[t] \in {"unborn", "gone"} => loc[t][s] = "root"

LEMMA CallType ==
  ASSUME TypeOK, NEW c \in Clients, Call(c) \/ Step(c)
  PROVE  m' \in [Clients -> Manager]
  <1>0. m \in [Clients -> Manager] /\ m[c] \in Manager BY DEF TypeOK
  <1> SUFFICES Typed(c) BY <1>0 DEF Typed, Becomes
  <1>l. {"exists", "list", "attach", "mkdir", "delete", "move", "rm", "rm_exists", "rm_list",
         "rm_kid", "rm_dir"} \subseteq Labels
    BY DEF Labels
  <1>1. CASE Call(c)
    <2>1. PICK o \in AllOps, t \in Tasks :
            Becomes(c, [m[c] EXCEPT !.pc = "exists", !.op = o, !.arg = t, !.res = "none"])
      BY <1>1, EnvAssumption DEF Call
    <2>2. [m[c] EXCEPT !.pc = "exists", !.op = o, !.arg = t, !.res = "none"] \in Manager
      BY <1>l, <1>0 DEF Manager
    <2>3. QED BY <2>1, <2>2 DEF Typed
  <1>2. CASE Exists(c) \/ Mkdir(c) \/ Attach(c)
    BY <1>2, <1>0, <1>l, ControlType DEF Exists, Mkdir, Attach, NextSub
  <1>3. CASE MkdirFails(c) \/ AttachFails(c)
    BY <1>3, <1>0, ControlType DEF MkdirFails, AttachFails
  <1>4. CASE List(c)
    <2> DEFINE all == m[c].todo \cup {t \in Tasks : /\ life[t] \in {"alive", "exiting"}
                                                   /\ loc[t][m[c].sub] = "cg"}
    <2>1. all \in SUBSET Tasks BY <1>0 DEF Manager
    <2>2. CASE m[c].sub < NSub
      <3>1. m[c].sub + 1 \in Subs BY <1>0, <2>2, Counters DEF Manager
      <3>2. [m[c] EXCEPT !.sub = m[c].sub + 1, !.todo = all] \in Manager
        BY <3>1, <2>1, <1>0 DEF Manager
      <3>3. QED BY <1>4, <2>2, <3>2 DEF List, Typed
    <2>3. CASE ~(m[c].sub < NSub)
      <3>1. ASSUME NEW l \in Labels
            PROVE  [m[c] EXCEPT !.sub = 1, !.todo = all, !.pc = l] \in Manager
        BY <2>1, <1>0, Counters DEF Manager
      <3>2. QED BY <1>4, <1>l, <2>3, <3>1 DEF List, Typed
    <2>4. QED BY <2>2, <2>3
  <1>5. CASE Move(c) \/ MoveFails(c)
    <2>1. PICK t \in Tasks : \/ /\ m[c].sub < NSub
                               /\ Becomes(c, [m[c] EXCEPT !.sub = m[c].sub + 1, !.arg = t])
                            \/ Dropped(c, t)
      BY <1>5 DEF Move, MoveFails
    <2>2. ASSUME m[c].sub < NSub
          PROVE  [m[c] EXCEPT !.sub = m[c].sub + 1, !.arg = t] \in Manager
      <3>1. m[c].sub + 1 \in Subs BY <1>0, <2>2, Counters DEF Manager
      <3>2. QED BY <3>1, <1>0 DEF Manager
    <2>3. QED BY <2>1, <2>2, <1>0, ControlType DEF Typed
  <1>6. CASE Delete(c)
    <2>1. [m[c] EXCEPT !.pc = "rm", !.tries = 1] \in Manager
      BY <1>0, <1>l, Counters DEF Manager
    <2>2. CASE m[c].sub \in dirs BY <1>6, <2>1, <2>2 DEF Delete, Typed
    <2>3. CASE m[c].sub \notin dirs
      <3>1. NextSub(c, Return(c, "ok")) BY <1>6, <2>3 DEF Delete
      <3>2. QED BY <3>1, <1>0, <1>l, ControlType
    <2>4. QED BY <2>2, <2>3
  <1>7. CASE Rm(c) \/ RmExists(c) \/ RmList(c) \/ RmKid(c) \/ RmDir(c)
    BY <1>7, <1>l, <1>0, ControlType DEF Rm, RmExists, RmList, RmKid, RmDir
  <1>8. QED BY <1>1, <1>2, <1>3, <1>4, <1>5, <1>6, <1>7 DEF Step

LEMMA KernelStep ==
  ASSUME TypeOK, NEW c \in Clients, Step(c)
  PROVE  KernelOK'
  <1> USE DEF TypeOK, KernelOK
  <1>0. m[c] \in Manager /\ m[c].sub \in Subs BY DEF Manager
  <1>1. CASE UNCHANGED kernel BY <1>1 DEF kernel
  <1>2. CASE Mkdir(c) BY <1>2, <1>0 DEF Mkdir
  <1>3. CASE Attach(c)
    BY <1>3, <1>0 DEF Attach, Moved
  <1>4. CASE Move(c)
    <2>1. PICK t \in Tasks : loc' = Moved({t}, m[c].sub, "root") BY <1>4 DEF Move
    <2>2. QED BY <2>1, <1>4, <1>0 DEF Move, Moved
  <1>5. CASE Rm(c) \/ RmDir(c)
    BY <1>5, <1>0 DEF Rm, RmDir, Removable, Populated
  <1>6. CASE RmKid(c)
    BY <1>6, <1>0 DEF RmKid, Populated
  <1>7. QED
    BY <1>1, <1>2, <1>3, <1>4, <1>5, <1>6
    DEF Step, Exists, MkdirFails, AttachFails, List, MoveFails, Delete, RmExists, RmList

LEMMA KernelWorkload ==
  ASSUME TypeOK, Workload
  PROVE  KernelOK'
  <1> USE DEF TypeOK, KernelOK
  <1>1. ASSUME NEW t \in Tasks, NEW u \in Tasks, Fork(t, u) PROVE KernelOK'
    BY <1>1 DEF Fork
  <1>2. ASSUME NEW t \in Tasks, Exit(t) PROVE KernelOK'
    BY <1>2 DEF Exit
  <1>3. ASSUME NEW t \in Tasks, Release(t) PROVE KernelOK'
    BY <1>3 DEF Release
  <1>4. ASSUME NEW t \in Tasks, NEW s \in Subs, Nest(t, s) PROVE KernelOK'
    BY <1>4 DEF Nest
  <1>5. QED BY <1>1, <1>2, <1>3, <1>4 DEF Workload

\* Every variable keeps its type and no task is ever in a cgroup that has been
\* removed, whatever the clients call and the workload does.
THEOREM TypeCorrect == Spec => []TypeOK
  <1>1. Init => TypeOK
    <2> SUFFICES ASSUME Init PROVE TypeOK OBVIOUS
    <2>1. (CHOOSE t \in Tasks : TRUE) \in Tasks BY TgidAssumption
    <2>2. m \in [Clients -> Manager]
      BY <2>1, Counters DEF Init, Manager, Labels, AllOps
    <2>3. QED BY <2>2, StartAssumption DEF Init, TypeOK
  <1>2. TypeOK /\ [Next]_vars => TypeOK'
    <2> SUFFICES ASSUME TypeOK, [Next]_vars PROVE TypeOK' OBVIOUS
    <2>1. ASSUME NEW c \in Clients, Call(c) PROVE TypeOK'
      <3>1. m' \in [Clients -> Manager] BY <2>1, CallType
      <3>2. QED BY <2>1, <3>1 DEF Call, kernel, TypeOK
    <2>2. ASSUME NEW c \in Clients, Step(c) PROVE TypeOK'
      <3>1. m' \in [Clients -> Manager] BY <2>2, CallType
      <3>2. KernelOK' BY <2>2, KernelStep
      <3>3. QED BY <3>1, <3>2 DEF TypeOK, KernelOK
    <2>3. CASE Workload
      <3>1. KernelOK' BY <2>3, KernelWorkload
      <3>2. m' = m BY <2>3 DEF Workload, Fork, Exit, Release, Nest
      <3>3. QED BY <3>1, <3>2 DEF TypeOK, KernelOK
    <2>4. CASE UNCHANGED vars BY <2>4 DEF vars, TypeOK
    <2>5. QED BY <2>1, <2>2, <2>3, <2>4 DEF Next
  <1>3. QED BY <1>1, <1>2, PTL DEF Spec

-----------------------------------------------------------------------------
(***************************************************************************)
(* JoinOrder.  Not inductive alone: a client that attaches to hierarchy k  *)
(* relies on what it did for the earlier ones, and a fork may add a thread *)
(* to the group it is moving.                                              *)
(***************************************************************************)

\* The tasks that client c's add_proc or add_thread moves.
Who(c) == IF m[c].op = "add_proc" THEN Group(m[c].arg) ELSE {m[c].arg}

Adding(c) ==
  /\ m[c].pc \in {"idle", "exists", "mkdir", "attach"}
  /\ ~At(c, "idle") => m[c].op # "destroy" /\ life[m[c].arg] # "unborn"
  /\ At(c, "attach") => \A t \in Who(c), s \in Subs :
       life[t] = "alive" /\ s < m[c].sub => loc[t][s] # "root"

JoinInv == JoinOrder /\ \A c \in Clients : Adding(c)

OnlyAdds == Ops \cap {"destroy"} = {} /\ \A s \in Born, r \in Subs : r < s => r \in Born

\* Each step of a manager that only adds preserves the order.
LEMMA JoinStep ==
  ASSUME OnlyAdds, TypeOK, JoinInv, NEW c \in Clients, Call(c) \/ Step(c)
  PROVE  JoinInv'
  <1> USE DEF At
  <1>0. /\ m \in [Clients -> Manager] /\ m[c] \in Manager /\ m[c].sub \in Subs /\ Adding(c)
        /\ \A d \in Clients : m[d] \in Manager
    BY DEF TypeOK, Manager, JoinInv
  \* The other clients, and what the kernel's state may change to.
  <1>others. ASSUME NEW d \in Clients, d # c, life' = life, m'[d] = m[d],
                    \A t \in Tasks, s \in Subs : loc[t][s] # "root" => loc'[t][s] # "root"
             PROVE  Adding(d)'
    <2>1. Adding(d) BY DEF JoinInv
    <2>2. m[d].arg \in Tasks BY <1>0 DEF Manager
    <2>3. Who(d) \subseteq Tasks BY <2>2 DEF Who, Group
    <2>4. Who(d)' = Who(d) BY <1>others DEF Who, Group
    <2>5. QED BY <1>others, <2>1, <2>3, <2>4 DEF Adding
  <1>idle. \A r : Return(c, r) => m'[c].pc = "idle"
    BY <1>0 DEF Return, Becomes, Manager
  <1>enter. \A l : Enter(c, l) => /\ m'[c].pc = l /\ m'[c].sub = 1
                                  /\ m'[c].op = m[c].op /\ m'[c].arg = m[c].arg
    BY <1>0 DEF Enter, Becomes, Manager
  <1>1. CASE Call(c)
    <2>1. JoinOrder' BY <1>1 DEF Call, kernel, JoinOrder, JoinInv
    <2>2. Adding(c)'
      <3>1. PICK o \in Ops, t \in Tasks :
              /\ o # "destroy" => life[t] # "unborn"
              /\ m' = [m EXCEPT ![c] =
                        [m[c] EXCEPT !.pc = "exists", !.op = o, !.arg = t, !.res = "none"]]
        BY <1>1 DEF Call, Becomes
      <3>2. m'[c].pc = "exists" /\ m'[c].op = o /\ m'[c].arg = t
        BY <3>1, <1>0 DEF Manager
      <3>3. o # "destroy" BY DEF OnlyAdds
      <3>4. QED BY <3>1, <3>2, <3>3, <1>1 DEF Adding, Call, kernel
    <2>3. ASSUME NEW d \in Clients, d # c PROVE Adding(d)'
      BY <1>1, <1>0, <2>3, <1>others DEF Call, Becomes, kernel
    <2>4. QED BY <2>1, <2>2, <2>3 DEF JoinInv
  <1>2. CASE Exists(c) \/ Mkdir(c) \/ MkdirFails(c) \/ AttachFails(c)
    <2>0. life' = life /\ loc' = loc
      BY <1>2 DEF Exists, Mkdir, MkdirFails, AttachFails, kernel
    <2>1. JoinOrder' BY <2>0 DEF JoinOrder, JoinInv
    <2>2. Adding(c)'
      <3>1. \/ m'[c].pc = "idle"
            \/ /\ m'[c].op = m[c].op /\ m'[c].arg = m[c].arg
               /\ m'[c].pc \in {"exists", "mkdir"} \/ (m'[c].pc = "attach" /\ m'[c].sub = 1)
        <4>2. CASE Exists(c)
          <5>1. m[c].op # "destroy" /\ m[c].pc = "exists" BY <4>2, <1>0 DEF Exists, Adding
          <5>2. \/ Becomes(c, [m[c] EXCEPT !.sub = m[c].sub + 1, !.tries = 1])
                \/ Enter(c, "attach") \/ Enter(c, "mkdir")
            BY <4>2, <5>1 DEF Exists, NextSub
          <5>4. CASE Enter(c, "attach") BY <5>4, <1>enter
          <5>5. CASE Enter(c, "mkdir") BY <5>5, <1>enter
          <5>6. CASE Becomes(c, [m[c] EXCEPT !.sub = m[c].sub + 1, !.tries = 1])
            <6>1. m'[c].pc = m[c].pc /\ m'[c].op = m[c].op /\ m'[c].arg = m[c].arg
              BY <5>6, <1>0 DEF Becomes, Manager
            <6>2. QED BY <6>1, <5>1
          <5>7. QED BY <5>2, <5>4, <5>5, <5>6
        <4>3. CASE Mkdir(c)
          <5>1. \/ Becomes(c, [m[c] EXCEPT !.sub = m[c].sub + 1, !.tries = 1])
                \/ Enter(c, "attach")
            BY <4>3 DEF Mkdir, NextSub
          <5>2. CASE Enter(c, "attach") BY <5>2, <1>enter
          <5>3. CASE Becomes(c, [m[c] EXCEPT !.sub = m[c].sub + 1, !.tries = 1])
            <6>1. m'[c].pc = m[c].pc /\ m'[c].op = m[c].op /\ m'[c].arg = m[c].arg
              BY <5>3, <1>0 DEF Becomes, Manager
            <6>2. QED BY <6>1, <4>3 DEF Mkdir
          <5>4. QED BY <5>1, <5>2, <5>3
        <4>4. CASE MkdirFails(c) \/ AttachFails(c)
          BY <4>4, <1>idle DEF MkdirFails, AttachFails
        <4>5. QED BY <1>2, <4>2, <4>3, <4>4
      <3>2. ~At(c, "idle") BY <1>2 DEF Exists, Mkdir, MkdirFails, AttachFails
      <3>3. \A s \in Subs : ~(s < 1) BY DEF Subs
      <3>4. QED BY <3>1, <3>2, <3>3, <1>0, <2>0 DEF Adding
    <2>3. ASSUME NEW d \in Clients, d # c PROVE Adding(d)'
      <3>1. m'[d] = m[d]
        BY <1>2, <1>0, <2>3 DEF Exists, Mkdir, MkdirFails, AttachFails, NextSub, Enter, Return, Becomes
      <3>2. QED BY <3>1, <2>0, <2>3, <1>others
    <2>4. QED BY <2>1, <2>2, <2>3 DEF JoinInv
  <1>3. CASE Attach(c)
    <2> DEFINE k == m[c].sub
    <2>0. /\ life' = life
          /\ loc' = Moved(Who(c), k, "cg")
          /\ loc \in [Tasks -> [Subs -> {"root", "cg", "kid"}]]
      BY <1>3 DEF Attach, Who, TypeOK
    <2>1. \A t \in Tasks, s \in Subs :
            loc'[t][s] = IF t \in Who(c) /\ life[t] = "alive" /\ s = k THEN "cg" ELSE loc[t][s]
      BY <2>0, <1>0 DEF Moved
    <2>2. \A t \in Who(c), s \in Subs : life[t] = "alive" /\ s < k => loc[t][s] # "root"
      BY <1>3, <1>0 DEF Attach, Adding
    <2>3. JoinOrder'
      <3> SUFFICES ASSUME NEW t \in Tasks, NEW s \in Subs, NEW r \in Subs, s < r,
                          loc'[t][r] # "root"
                   PROVE  loc'[t][s] # "root"
        BY DEF JoinOrder
      <3>1. CASE t \in Who(c) /\ life[t] = "alive" /\ r = k
        BY <3>1, <2>1, <2>2
      <3>2. CASE ~(t \in Who(c) /\ life[t] = "alive" /\ r = k)
        <4>1. loc[t][r] # "root" BY <3>2, <2>1
        <4>2. loc[t][s] # "root" BY <4>1 DEF JoinInv, JoinOrder
        <4>3. QED BY <4>2, <2>1
      <3>3. QED BY <3>1, <3>2
    <2>4. Adding(c)'
      <3>1. CASE k < NSub
        <4>1. m' = [m EXCEPT ![c] = [m[c] EXCEPT !.sub = k + 1, !.tries = 1]]
          BY <1>3, <3>1 DEF Attach, NextSub, Becomes
        <4>2. /\ m'[c].pc = m[c].pc /\ m'[c].op = m[c].op /\ m'[c].arg = m[c].arg
              /\ m'[c].sub = k + 1
          BY <4>1, <1>0 DEF Manager
        <4>3. Who(c)' = Who(c) /\ Who(c) \subseteq Tasks
          BY <4>2, <1>0 DEF Who, Group, Manager
        <4>4. ASSUME NEW t \in Who(c), NEW s \in Subs, life[t] = "alive", s < k + 1
              PROVE  loc'[t][s] # "root"
          <5>1. s < k \/ s = k BY <4>4, <1>0 DEF Subs
          <5>2. QED BY <5>1, <4>4, <4>3, <2>1, <2>2
        <4>5. QED BY <4>2, <4>3, <4>4, <1>0, <2>0 DEF Adding
      <3>2. CASE ~(k < NSub)
        BY <1>3, <3>2, <1>idle DEF Attach, NextSub, Adding
      <3>3. QED BY <3>1, <3>2
    <2>5. ASSUME NEW d \in Clients, d # c PROVE Adding(d)'
      <3>1. m'[d] = m[d] BY <1>3, <1>0, <2>5 DEF Attach, NextSub, Return, Becomes
      <3>2. \A t \in Tasks, s \in Subs : loc[t][s] # "root" => loc'[t][s] # "root"
        BY <2>1
      <3>3. QED BY <3>1, <3>2, <2>0, <2>5, <1>others
    <2>6. QED BY <2>3, <2>4, <2>5 DEF JoinInv
  <1>4. CASE List(c) \/ Move(c) \/ MoveFails(c) \/ Delete(c) \/ Rm(c) \/ RmExists(c)
             \/ RmList(c) \/ RmKid(c) \/ RmDir(c)
    BY <1>4, <1>0
    DEF List, Move, MoveFails, Migrating, Delete, Rm, RmExists, RmList, RmKid, RmDir, Adding
  <1>5. QED BY <1>1, <1>2, <1>3, <1>4 DEF Step

\* So does every step of the workload.
LEMMA JoinWorkload ==
  ASSUME TypeOK, JoinInv, Workload
  PROVE  JoinInv'
  <1>m. m' = m BY DEF Workload, Fork, Exit, Release, Nest
  <1>0. /\ m' = m /\ \A c \in Clients : m[c].arg \in Tasks /\ Who(c)' = Who(c)
        /\ loc \in [Tasks -> [Subs -> {"root", "cg", "kid"}]]
        /\ life \in [Tasks -> {"unborn", "alive", "exiting", "gone"}]
    BY <1>m DEF TypeOK, Manager, Who, Group
  <1>w. \A c \in Clients : Who(c) \subseteq Tasks BY <1>0 DEF Who, Group
  <1>1. ASSUME NEW t \in Tasks, NEW u \in Tasks, Fork(t, u) PROVE JoinInv'
    <2>1. /\ life' = [life EXCEPT ![u] = "alive"] /\ loc' = [loc EXCEPT ![u] = loc[t]]
          /\ life[t] = "alive" /\ life[u] = "unborn" /\ t # u
      BY <1>1 DEF Fork
    <2>2. JoinOrder' BY <2>1, <1>0 DEF JoinInv, JoinOrder
    <2>3. ASSUME NEW c \in Clients PROVE Adding(c)'
      <3>0. Adding(c) BY DEF JoinInv
      <3>1. ASSUME ~At(c, "idle") PROVE life'[m[c].arg] # "unborn" /\ m[c].arg # u
        BY <3>1, <3>0, <2>1, <1>0 DEF Adding
      <3>2. ASSUME At(c, "attach"), u \in Who(c) PROVE t \in Who(c)
        <4>1. m[c].arg # u /\ life[m[c].arg] # "unborn" BY <3>2, <3>1, <3>0 DEF At, Adding
        <4>2. m[c].op = "add_proc" /\ Tgid[u] = Tgid[m[c].arg] BY <3>2, <4>1 DEF Who, Group
        <4>3. m[c].arg \in Group(u) BY <4>2, <1>0 DEF Group
        <4>4. Tgid[u] = Tgid[t] BY <1>1, <4>1, <4>3 DEF Fork
        <4>5. QED BY <4>2, <4>4 DEF Who, Group
      <3>3. ASSUME At(c, "attach"), NEW v \in Who(c), NEW s \in Subs, life'[v] = "alive",
                   s < m[c].sub
            PROVE  loc'[v][s] # "root"
        <4>1. CASE v = u BY <4>1, <3>2, <3>3, <3>0, <2>1, <1>0 DEF Adding
        <4>2. CASE v # u
          <5>1. v \in Tasks BY <1>w
          <5>2. life[v] = "alive" /\ loc'[v] = loc[v] BY <4>2, <5>1, <3>3, <2>1, <1>0
          <5>3. QED BY <5>2, <3>3, <3>0 DEF Adding
        <4>3. QED BY <4>1, <4>2
      <3>4. QED BY <3>0, <3>1, <3>3, <1>0 DEF Adding, At
    <2>4. QED BY <2>2, <2>3 DEF JoinInv
  <1>2. ASSUME NEW t \in Tasks, Exit(t) PROVE JoinInv'
    <2>1. life' = [life EXCEPT ![t] = "exiting"] /\ loc' = loc BY <1>2 DEF Exit
    <2>2. QED BY <2>1, <1>0, <1>w DEF JoinInv, JoinOrder, Adding, At
  <1>3. ASSUME NEW t \in Tasks, Release(t) PROVE JoinInv'
    <2>1. /\ life' = [life EXCEPT ![t] = "gone"]
          /\ loc' = [loc EXCEPT ![t] = [s \in Subs |-> "root"]]
      BY <1>3 DEF Release
    <2>2. JoinOrder' BY <2>1, <1>0 DEF JoinInv, JoinOrder
    <2>3. ASSUME NEW c \in Clients PROVE Adding(c)'
      BY <2>1, <1>0, <1>w DEF JoinInv, Adding, At
    <2>4. QED BY <2>2, <2>3 DEF JoinInv
  <1>4. ASSUME NEW t \in Tasks, NEW s \in Subs, Nest(t, s) PROVE JoinInv'
    <2>1. life' = life /\ loc' = [loc EXCEPT ![t][s] = "kid"] /\ loc[t][s] = "cg"
      BY <1>4 DEF Nest
    <2>2. \A v \in Tasks, r \in Subs : (loc'[v][r] = "root") <=> (loc[v][r] = "root")
      BY <2>1, <1>0
    <2>3. JoinOrder' BY <2>2 DEF JoinInv, JoinOrder
    <2>4. ASSUME NEW c \in Clients PROVE Adding(c)'
      BY <2>1, <2>2, <1>0, <1>w DEF JoinInv, Adding, At
    <2>5. QED BY <2>3, <2>4 DEF JoinInv
  <1>5. QED BY <1>1, <1>2, <1>3, <1>4 DEF Workload

LEMMA JoinInit == OnlyAdds /\ Init => JoinInv
  <1> SUFFICES ASSUME OnlyAdds, Init PROVE JoinInv OBVIOUS
  <1>1. JoinOrder BY DEF Init, OnlyAdds, JoinOrder
  <1>2. \A c \in Clients : Adding(c) BY DEF Init, Adding, At
  <1>3. QED BY <1>1, <1>2 DEF JoinInv

LEMMA JoinNext == OnlyAdds /\ TypeOK /\ JoinInv /\ [Next]_vars => JoinInv'
  <1> SUFFICES ASSUME OnlyAdds, TypeOK, JoinInv, [Next]_vars PROVE JoinInv' OBVIOUS
  <1>1. CASE UNCHANGED vars
    BY <1>1 DEF vars, JoinInv, JoinOrder, Adding, At, Who, Group
  <1>2. QED BY <1>1, JoinStep, JoinWorkload DEF Next

\* As long as no client destroys the cgroup, a task that is in a later
\* hierarchy's cgroup is in every earlier one's: blkio before memory.
THEOREM JoinOrderHolds == OnlyAdds /\ Spec => []JoinOrder
  <1>1. JoinInv => JoinOrder BY DEF JoinInv
  <1>2. OnlyAdds <=> OnlyAdds' BY DEF OnlyAdds
  <1>3. QED BY <1>1, <1>2, JoinInit, JoinNext, TypeCorrect, PTL DEF Spec

-----------------------------------------------------------------------------
(***************************************************************************)
(* AddProcMovesGroup, from JoinInv: the threads that are alive are in the  *)
(* hierarchies before the one the call is at, those cloned since included. *)
(***************************************************************************)

LEMMA AddStep ==
  ASSUME OnlyAdds, TypeOK, JoinInv, NEW c \in Clients, Call(c) \/ Step(c),
         NEW d \in Clients, Returns(d, "add_proc", "ok")
  PROVE  \A t \in Group(m[d].arg) : life'[t] = "alive" => \A s \in Subs : loc'[t][s] # "root"
  <1> USE DEF At
  <1>1. /\ m \in [Clients -> Manager] /\ m[c] \in Manager /\ m[c].sub \in Subs /\ Adding(c)
    BY DEF TypeOK, Manager, JoinInv
  <1>2. \E r : Becomes(c, r)
    BY DEF Call, Step, Exists, Mkdir, MkdirFails, Attach, AttachFails, List, Move, MoveFails,
        Dropped, Delete, Rm, RmExists, RmList, RmKid, RmDir, Deleted, TryFailed, Return, Enter,
        NextSub
  <1>3. d = c
    <2>1. d # c => m'[d] = m[d] BY <1>1, <1>2 DEF Becomes
    <2>2. QED BY <2>1 DEF Returns
  <1>4. /\ m[c].pc \in {"exists", "mkdir", "attach"} /\ m[c].op = "add_proc"
        /\ m'[c].pc = "idle" /\ m'[c].res = "ok"
    BY <1>1, <1>3 DEF Returns, Adding
  <1>5. \A l : Enter(c, l) => m'[c].pc = l BY <1>1 DEF Enter, Becomes, Manager
  <1>6. Return(c, "err") => m'[c].res = "err" BY <1>1 DEF Return, Becomes, Manager
  <1>7. Becomes(c, [m[c] EXCEPT !.sub = m[c].sub + 1, !.tries = 1]) => m'[c].pc = m[c].pc
    BY <1>1 DEF Becomes, Manager
  <1>8. Attach(c) /\ ~(m[c].sub < NSub)
    <2>1. ~Exists(c) BY <1>4, <1>5, <1>7 DEF Exists, NextSub
    <2>2. ~Mkdir(c) BY <1>4, <1>5, <1>7 DEF Mkdir, NextSub
    <2>3. ~MkdirFails(c) /\ ~AttachFails(c) BY <1>4, <1>6 DEF MkdirFails, AttachFails
    <2>4. Attach(c)
      BY <1>4, <2>1, <2>2, <2>3
      DEF Call, Step, List, Move, MoveFails, Migrating, Delete, Rm, RmExists, RmList, RmKid, RmDir
    <2>5. ~(m[c].sub < NSub) BY <1>4, <1>7, <2>4 DEF Attach, NextSub
    <2>6. QED BY <2>4, <2>5
  <1>9. m[c].sub = NSub /\ \A s \in Subs : s = NSub \/ s < NSub
    BY <1>1, <1>8, NSubAssumption DEF Subs
  <1>10. /\ loc' = Moved(Group(m[c].arg), NSub, "cg") /\ life' = life
         /\ m[c].pc = "attach" /\ Who(c) = Group(m[c].arg) /\ Group(m[c].arg) \subseteq Tasks
    BY <1>4, <1>8, <1>9 DEF Attach, Who, Group
  <1>11. ASSUME NEW t \in Group(m[c].arg), life[t] = "alive", NEW s \in Subs PROVE loc'[t][s] # "root"
    <2>1. t \in Tasks /\ loc[t] \in [Subs -> {"root", "cg", "kid"}] BY <1>10, <1>11 DEF TypeOK
    <2>2. loc'[t] = [loc[t] EXCEPT ![NSub] = "cg"] BY <1>10, <1>11, <2>1 DEF Moved
    <2>3. s # NSub => loc[t][s] # "root" BY <1>1, <1>9, <1>10, <1>11 DEF Adding
    <2>4. QED BY <2>1, <2>2, <2>3
  <1>12. QED BY <1>3, <1>10, <1>11

\* As long as no client destroys the cgroup, an add_proc that returns Ok has all
\* live threads of the process in the cgroup of every hierarchy, those that
\* were cloned while it went from hierarchy to hierarchy included.
THEOREM GroupMoved == OnlyAdds /\ Spec => AddProcMovesGroup
  <1> DEFINE Done == \A c \in Clients : Returns(c, "add_proc", "ok") =>
                       \A t \in Group(m[c].arg) : life'[t] = "alive" =>
                         \A s \in Subs : loc'[t][s] # "root"
  <1>1. OnlyAdds /\ Init => JoinInv BY JoinInit
  <1>2. ASSUME OnlyAdds, TypeOK, JoinInv, [Next]_vars
        PROVE  JoinInv' /\ [Done]_vars
    <2>1. JoinInv' BY <1>2, JoinNext
    <2>2. CASE \E c \in Clients : Call(c) \/ Step(c) BY <2>1, <2>2, <1>2, AddStep
    <2>3. CASE Workload \/ UNCHANGED vars
      <3>1. m' = m BY <2>3 DEF Workload, Fork, Exit, Release, Nest, vars
      <3>2. Done BY <3>1 DEF Returns, At
      <3>3. QED BY <2>1, <3>2
    <2>4. QED BY <1>2, <2>2, <2>3 DEF Next
  <1>3. OnlyAdds <=> OnlyAdds' BY DEF OnlyAdds
  <1>4. QED BY <1>1, <1>2, <1>3, TypeCorrect, PTL DEF Spec, AddProcMovesGroup

-----------------------------------------------------------------------------
(***************************************************************************)
(* DestroyLeavesNothing, for any number of handles that destroy the same   *)
(* cgroup at once.  Every handle knows that the hierarchies before the one *)
(* it is at have no directory; nobody creates one any more.                *)
(***************************************************************************)

OnlyDestroys == Ops = {"destroy"}

Deleting == {"delete", "rm", "rm_exists", "rm_list", "rm_kid", "rm_dir"}

Cleared(c) ==
  /\ m[c].op = "destroy"
  /\ m[c].pc \notin {"mkdir", "attach"}
  /\ m[c].pc \in {"exists"} \cup Deleting => \A s \in Subs : s < m[c].sub => s \notin dirs
  /\ At(c, "idle") => m[c].sub = 1

ClearedInv == \A c \in Clients : Cleared(c)

\* What one step of client c does when it only destroys.
LEMMA DestroyStep ==
  ASSUME OnlyDestroys, TypeOK, ClearedInv, NEW c \in Clients, Call(c) \/ Step(c)
  PROVE  /\ ClearedInv'
         /\ \A d \in Clients : Returns(d, "destroy", "ok") => dirs' = {} /\ kids' = {}
  <1> USE DEF At
  <1>0. /\ m \in [Clients -> Manager] /\ m[c] \in Manager /\ m[c].sub \in Subs
        /\ Cleared(c) /\ dirs \subseteq Subs /\ kids \subseteq dirs
    BY DEF TypeOK, Manager, ClearedInv
  \* No step creates a directory, and c's steps are c's only.
  <1>d. dirs' \subseteq dirs
    BY <1>0
    DEF Call, Step, Exists, Mkdir, MkdirFails, Attach, AttachFails, List, Move, MoveFails,
        Delete, Rm, RmExists, RmList, RmKid, RmDir, Cleared, kernel
  <1>b. \E r : Becomes(c, r)
    BY DEF Call, Step, Exists, Mkdir, MkdirFails, Attach, AttachFails, List, Move, MoveFails,
        Dropped, Delete, Rm, RmExists, RmList, RmKid, RmDir, Deleted, TryFailed, Return, Enter,
        NextSub
  <1>1. dirs' \subseteq dirs /\ \E r : Becomes(c, r)
    BY <1>d, <1>b
  <1>2. ASSUME NEW d \in Clients, d # c
        PROVE  Cleared(d)' /\ m'[d] = m[d]
    <2>1. m'[d] = m[d] BY <1>0, <1>1, <1>2 DEF Becomes
    <2>2. Cleared(d) BY DEF ClearedInv
    <2>3. QED BY <1>1, <2>1, <2>2 DEF Cleared
  \* The shapes that c's next state may have.
  <1> DEFINE Same == m'[c].op = "destroy"
             Back(r) == m'[c].pc = "idle" /\ m'[c].res = r /\ m'[c].sub = 1
             First(l) == m'[c].pc = l /\ m'[c].sub = 1
             Stay(l) == m'[c].pc = l /\ m'[c].sub = m[c].sub
             Onward(l) == m[c].sub < NSub /\ m'[c].pc = l /\ m'[c].sub = m[c].sub + 1
  <1>3. ASSUME NEW r, Return(c, r) PROVE Same /\ Back(r)
    BY <1>3, <1>0 DEF Return, Becomes, Manager, Cleared
  <1>4. ASSUME NEW l, Enter(c, l) PROVE Same /\ First(l)
    BY <1>4, <1>0 DEF Enter, Becomes, Manager, Cleared
  <1>5. ASSUME NextSub(c, Return(c, "ok")) \/ NextSub(c, Enter(c, "mkdir"))
        PROVE  m[c].sub < NSub => Same /\ Onward(m[c].pc)
    BY <1>5, <1>0 DEF NextSub, Becomes, Manager, Cleared
  <1>6. ASSUME Deleted(c)
        PROVE  Same /\ (Onward("delete") \/ (m[c].sub = NSub /\ Back("ok")))
    <2>1. CASE m[c].sub < NSub
      <3>1. Becomes(c, [m[c] EXCEPT !.sub = m[c].sub + 1, !.tries = 1, !.pc = "delete"])
        BY <1>6, <2>1 DEF Deleted
      <3>2. Same /\ m'[c].pc = "delete" /\ m'[c].sub = m[c].sub + 1
        BY <3>1, <1>0 DEF Becomes, Manager, Cleared
      <3>3. QED BY <3>2, <2>1
    <2>2. CASE ~(m[c].sub < NSub)
      <3>1. m[c].sub = NSub BY <2>2, <1>0, NSubAssumption DEF Subs
      <3>2. Return(c, "ok") BY <1>6, <2>2 DEF Deleted
      <3>3. QED BY <3>1, <3>2, <1>3
    <2>3. QED BY <2>1, <2>2
  <1>7. ASSUME TryFailed(c) PROVE Same /\ (Stay("rm") \/ Back("err"))
    <2>1. CASE m[c].tries < MaxTries
      <3>1. Becomes(c, [m[c] EXCEPT !.tries = m[c].tries + 1, !.pc = "rm"])
        BY <1>7, <2>1 DEF TryFailed
      <3>2. QED BY <3>1, <1>0 DEF Becomes, Manager, Cleared
    <2>2. CASE ~(m[c].tries < MaxTries)
      BY <1>7, <2>2, <1>3 DEF TryFailed
    <2>3. QED BY <2>1, <2>2
  <1>8. ASSUME NEW l, Becomes(c, [m[c] EXCEPT !.pc = l]) PROVE Same /\ Stay(l)
    BY <1>8, <1>0 DEF Becomes, Manager, Cleared
  <1>z. ASSUME m[c].sub = NSub, \A s \in Subs : s < NSub => s \notin dirs, NSub \notin dirs'
        PROVE  dirs' = {}
    BY <1>z, <1>0, <1>1, NSubAssumption DEF Subs
  <1>k. kids' \subseteq dirs'
    BY KernelStep DEF Call, kernel, KernelOK, TypeOK
  <1>c. Cleared(c)' /\ (Returns(c, "destroy", "ok") => dirs' = {} /\ kids' = {})
    <2> DEFINE Goal == Cleared(c)' /\ (Returns(c, "destroy", "ok") => dirs' = {} /\ kids' = {})
               Known == \A s \in Subs : s < m[c].sub => s \notin dirs
    <2>k. m[c].pc \in {"exists"} \cup Deleting => Known BY <1>0 DEF Cleared
    <2>1. Same /\ Back("err") => Goal BY DEF Cleared, Returns, Deleting
    <2>2. ASSUME NEW l \in {"list", "move", "delete", "exists"}, Same, First(l) PROVE Goal
      <3>1. \A s \in Subs : ~(s < 1) BY DEF Subs
      <3>2. QED BY <2>2, <3>1 DEF Cleared, Returns
    <2>3. ASSUME NEW l \in {"list", "move"}, Same, m'[c].pc = l PROVE Goal
      BY <2>3 DEF Cleared, Returns, Deleting
    <2>4. ASSUME NEW l \in Deleting, Same, Stay(l), Known PROVE Goal
      BY <2>4, <1>1 DEF Cleared, Returns, Deleting
    <2>5. ASSUME NEW l \in {"delete", "exists"}, Same, Onward(l), Known, m[c].sub \notin dirs'
          PROVE  Goal
      <3>1. \A s \in Subs : s < m[c].sub + 1 => s < m[c].sub \/ s = m[c].sub
        BY <1>0 DEF Subs
      <3>2. QED BY <2>5, <3>1, <1>1 DEF Cleared, Returns
    <2>6. ASSUME Same, Back("ok"), m[c].sub = NSub, Known, m[c].sub \notin dirs' PROVE Goal
      <3>1. dirs' = {} BY <2>6, <1>z
      <3>2. kids' = {} BY <3>1, <1>k
      <3>3. QED BY <2>6, <3>1, <3>2 DEF Cleared, Deleting
    <2>7. ASSUME Deleted(c), Known, m[c].sub \notin dirs' PROVE Goal
      BY <2>7, <2>5, <2>6, <1>6
    <2>8. ASSUME TryFailed(c), Known PROVE Goal
      BY <2>8, <2>1, <2>4, <1>7 DEF Deleting
    <2>9. ASSUME NextSub(c, Return(c, "ok")), Known, m[c].sub \notin dirs',
                 m[c].pc \in {"delete", "exists"}
          PROVE  Goal
      <3>1. CASE m[c].sub < NSub BY <3>1, <2>9, <2>5, <1>5
      <3>2. CASE ~(m[c].sub < NSub)
        <4>1. m[c].sub = NSub BY <3>2, <1>0, NSubAssumption DEF Subs
        <4>2. Return(c, "ok") BY <2>9, <3>2 DEF NextSub
        <4>3. QED BY <4>1, <4>2, <2>9, <2>6, <1>3
      <3>3. QED BY <3>1, <3>2
    <2>10. CASE Call(c)
      <3>1. PICK t \in Tasks :
              Becomes(c, [m[c] EXCEPT !.pc = "exists", !.op = "destroy", !.arg = t, !.res = "none"])
        BY <2>10 DEF Call, OnlyDestroys
      <3>2. Same /\ m'[c].pc = "exists" /\ m'[c].sub = m[c].sub
        BY <3>1, <1>0 DEF Becomes, Manager
      <3>3. m[c].sub = 1 BY <2>10, <1>0 DEF Call, Cleared
      <3>4. QED BY <3>2, <3>3, <2>2
    <2>11. CASE Exists(c)
      <3>1. m[c].op = "destroy" /\ m[c].pc = "exists" /\ dirs' = dirs
        BY <2>11, <1>0 DEF Exists, Cleared, kernel
      <3>2. CASE m[c].sub \in dirs
        <4>1. Enter(c, "list") BY <2>11, <3>1, <3>2 DEF Exists
        <4>2. QED BY <4>1, <1>4, <2>2
      <3>3. CASE m[c].sub \notin dirs
        <4>1. NextSub(c, Return(c, "ok")) BY <2>11, <3>1, <3>3 DEF Exists
        <4>2. QED BY <4>1, <3>1, <3>3, <2>9, <2>k
      <3>4. QED BY <3>2, <3>3
    <2>12. CASE Mkdir(c) \/ MkdirFails(c) \/ Attach(c) \/ AttachFails(c)
      BY <2>12, <1>0 DEF Mkdir, MkdirFails, Attach, AttachFails, Cleared
    <2>13. CASE List(c)
      <3>1. PICK d : \/ Becomes(c, [m[c] EXCEPT !.sub = m[c].sub + 1, !.todo = d])
                     \/ Becomes(c, [m[c] EXCEPT !.sub = 1, !.todo = d, !.pc = "delete"])
                     \/ Becomes(c, [m[c] EXCEPT !.sub = 1, !.todo = d, !.pc = "move"])
        BY <2>13 DEF List
      <3>2. CASE Becomes(c, [m[c] EXCEPT !.sub = m[c].sub + 1, !.todo = d])
        <4>1. Same /\ m'[c].pc = "list" BY <3>2, <2>13, <1>0 DEF Becomes, Manager, List, Cleared
        <4>2. QED BY <4>1, <2>3
      <3>3. CASE Becomes(c, [m[c] EXCEPT !.sub = 1, !.todo = d, !.pc = "delete"])
        <4>1. Same /\ First("delete") BY <3>3, <1>0 DEF Becomes, Manager, Cleared
        <4>2. QED BY <4>1, <2>2
      <3>4. CASE Becomes(c, [m[c] EXCEPT !.sub = 1, !.todo = d, !.pc = "move"])
        <4>1. Same /\ First("move") BY <3>4, <1>0 DEF Becomes, Manager, Cleared
        <4>2. QED BY <4>1, <2>2
      <3>5. QED BY <3>1, <3>2, <3>3, <3>4
    <2>14. CASE Move(c) \/ MoveFails(c)
      <3>1. PICK t : \/ Becomes(c, [m[c] EXCEPT !.sub = m[c].sub + 1, !.arg = t])
                     \/ Dropped(c, t)
        BY <2>14 DEF Move, MoveFails
      <3>2. CASE Becomes(c, [m[c] EXCEPT !.sub = m[c].sub + 1, !.arg = t])
        <4>1. m[c].pc = "move" BY <2>14 DEF Move, MoveFails, Migrating
        <4>2. Same /\ m'[c].pc = "move" BY <3>2, <4>1, <1>0 DEF Becomes, Manager, Cleared
        <4>3. QED BY <4>2, <2>3
      <3>3. CASE Dropped(c, t)
        <4>1. Same /\ (First("move") \/ First("delete"))
          BY <3>3, <1>0 DEF Dropped, Becomes, Manager, Cleared
        <4>2. QED BY <4>1, <2>2
      <3>4. QED BY <3>1, <3>2, <3>3
    <2>15. CASE Delete(c)
      <3>1. m[c].pc = "delete" /\ dirs' = dirs BY <2>15 DEF Delete, kernel
      <3>2. Known BY <3>1, <2>k DEF Deleting
      <3>3. CASE m[c].sub \in dirs
        <4>1. Becomes(c, [m[c] EXCEPT !.pc = "rm", !.tries = 1]) BY <2>15, <3>3 DEF Delete
        <4>2. Same /\ Stay("rm") BY <4>1, <1>0 DEF Becomes, Manager, Cleared
        <4>3. QED BY <4>2, <3>2, <2>4 DEF Deleting
      <3>4. CASE m[c].sub \notin dirs
        <4>1. NextSub(c, Return(c, "ok")) BY <2>15, <3>4 DEF Delete
        <4>2. QED BY <4>1, <3>1, <3>2, <3>4, <2>9
      <3>5. QED BY <3>3, <3>4
    <2>16. CASE Rm(c) \/ RmExists(c) \/ RmList(c) \/ RmKid(c) \/ RmDir(c)
      <3>1. m[c].pc \in Deleting
        BY <2>16 DEF Rm, RmExists, RmList, RmKid, RmDir, Deleting
      <3>2. Known BY <3>1, <2>k
      <3>3. \/ Deleted(c) /\ m[c].sub \notin dirs'
            \/ TryFailed(c)
            \/ \E l \in Deleting : Becomes(c, [m[c] EXCEPT !.pc = l])
        <4>1. CASE Rm(c) BY <4>1 DEF Rm, Deleting
        <4>2. CASE RmExists(c) BY <4>2 DEF RmExists, Deleting, kernel
        <4>3. CASE RmList(c)
          <5>1. CASE m[c].sub \in dirs /\ m[c].sub \in kids BY <4>3, <5>1 DEF RmList, Deleting
          <5>2. CASE m[c].sub \in dirs /\ m[c].sub \notin kids BY <4>3, <5>2 DEF RmList, Deleting
          <5>3. CASE m[c].sub \notin dirs BY <4>3, <5>3 DEF RmList
          <5>4. QED BY <5>1, <5>2, <5>3
        <4>4. CASE RmKid(c) BY <4>4 DEF RmKid, Deleting
        <4>5. CASE RmDir(c) BY <4>5 DEF RmDir
        <4>6. QED BY <2>16, <4>1, <4>2, <4>3, <4>4, <4>5
      <3>4. ASSUME NEW l \in Deleting, Becomes(c, [m[c] EXCEPT !.pc = l]) PROVE Goal
        BY <3>4, <3>2, <2>4, <1>8
      <3>5. QED BY <3>2, <3>3, <3>4, <2>7, <2>8
    <2>17. QED
      BY <2>10, <2>11, <2>12, <2>13, <2>14, <2>15, <2>16 DEF Step
  <1>9. ASSUME NEW d \in Clients, Returns(d, "destroy", "ok") PROVE dirs' = {} /\ kids' = {}
    <2>1. d = c BY <1>9, <1>2 DEF Returns
    <2>2. QED BY <1>9, <2>1, <1>c
  <1>10. QED BY <1>2, <1>c, <1>9 DEF ClearedInv

\* Clients that only destroy: whoever's destroy returns Ok, no directory of the
\* cgroup and no child of it is left in any hierarchy, however many destroys
\* run at once, whatever they started from and whatever is forked meanwhile.
THEOREM DestroyHolds == OnlyDestroys /\ Spec => DestroyLeavesNothing
  <1> DEFINE Done == \A c \in Clients : Returns(c, "destroy", "ok") => dirs' = {} /\ kids' = {}
  <1>1. Init => ClearedInv
    <2>1. \A s \in Subs : ~(s < 1) BY DEF Subs
    <2>2. QED BY <2>1 DEF Init, ClearedInv, Cleared, Deleting, At
  <1>2. ASSUME OnlyDestroys, TypeOK, ClearedInv, [Next]_vars
        PROVE  ClearedInv' /\ [Done]_vars
    <2>1. CASE \E c \in Clients : Call(c) \/ Step(c) BY <2>1, <1>2, DestroyStep
    <2>2. CASE Workload \/ UNCHANGED vars
      <3>1. m' = m /\ dirs' = dirs
        BY <2>2 DEF Workload, Fork, Exit, Release, Nest, vars
      <3>2. ClearedInv' BY <3>1, <1>2 DEF ClearedInv, Cleared, At
      <3>3. Done BY <3>1 DEF Returns, At
      <3>4. QED BY <3>2, <3>3
    <2>3. QED BY <1>2, <2>1, <2>2 DEF Next
  <1>3. OnlyDestroys <=> OnlyDestroys' BY DEF OnlyDestroys
  <1>4. QED BY <1>1, <1>2, <1>3, TypeCorrect, PTL DEF Spec, DestroyLeavesNothing
-----------------------------------------------------------------------------
(***************************************************************************)
(* EmptyBeforeDelete, for clients that only destroy and a kernel that      *)
(* refuses no migration of a live task.  What a handle has listed must     *)
(* cover what is still inside, though other handles move the same tasks    *)
(* and the tasks exit and nest meanwhile.                                  *)
(***************************************************************************)

\* Task t can keep hierarchy s's directory from being removed.
Inside(t, s) == life[t] = "alive" /\ loc[t][s] = "cg"

\* While c lists, the hierarchies behind it hold only listed tasks; while it
\* moves, all do, and the task it is moving has left those behind it.
Covered(c) ==
  \A t \in Alive0, s \in Subs : Inside(t, s) =>
    /\ At(c, "list") /\ s < m[c].sub => t \in m[c].todo
    /\ At(c, "move") => t \in m[c].todo /\ ~(t = m[c].arg /\ s < m[c].sub)

EmptyInv ==
  /\ \A t \in Alive0 : life[t] # "unborn"
  /\ \A c \in Clients : Covered(c)

\* The step in which c's destroy begins to delete finds every hierarchy empty.
Emptied(c) ==
  ~At(c, "delete") /\ At(c, "delete")' /\ m'[c].sub = 1 =>
    \A t \in Alive0 : life'[t] = "alive" => \A s \in Subs : loc'[t][s] # "cg"

\* What one step of client c does when it only destroys.
LEMMA EmptyStep ==
  ASSUME OnlyDestroys, "attach" \notin Faults, TypeOK, ClearedInv, EmptyInv,
         NEW c \in Clients, Call(c) \/ Step(c)
  PROVE  EmptyInv' /\ \A d \in Clients : Emptied(d)
  <1> USE DEF At
  <1>0. /\ m \in [Clients -> Manager] /\ m[c] \in Manager /\ m[c].sub \in Subs
        /\ Cleared(c) /\ Covered(c) /\ Alive0 \subseteq Tasks /\ NSub \in Nat
        /\ \A t \in Alive0 : life[t] # "unborn"
        /\ loc \in [Tasks -> [Subs -> {"root", "cg", "kid"}]]
    BY StartAssumption, NSubAssumption DEF TypeOK, Manager, ClearedInv, EmptyInv
  <1>n. ~Mkdir(c) /\ ~MkdirFails(c) /\ ~Attach(c) /\ ~AttachFails(c)
    BY <1>0 DEF Mkdir, MkdirFails, Attach, AttachFails, Cleared
  <1>l. life' = life
    BY <1>n
    DEF Call, Step, Exists, List, Move, MoveFails, Delete, Rm, RmExists, RmList, RmKid, RmDir, kernel
  <1>b. \E r : Becomes(c, r)
    BY <1>n
    DEF Call, Step, Exists, List, Move, MoveFails, Dropped, Delete, Rm, RmExists, RmList, RmKid,
        RmDir, Deleted, TryFailed, Return, Enter, NextSub
  \* A migration only takes tasks out.
  <1>m. ASSUME NEW u \in Tasks, loc' = Moved({u}, m[c].sub, "root"), NEW t \in Tasks, NEW s \in Subs
        PROVE  /\ loc'[t][s] = "cg" => loc[t][s] = "cg"
               /\ t = u /\ s = m[c].sub /\ life[t] = "alive" => loc'[t][s] = "root"
    BY <1>m, <1>0 DEF Moved
  <1>s. ASSUME NEW t \in Tasks, NEW s \in Subs, Inside(t, s)' PROVE Inside(t, s)
    <2>1. CASE Move(c) BY <2>1, <1>m, <1>l, <1>s DEF Move, Inside
    <2>2. CASE ~Move(c)
      <3>1. loc' = loc
        BY <2>2, <1>n
        DEF Call, Step, Exists, List, MoveFails, Delete, Rm, RmExists, RmList, RmKid, RmDir, kernel
      <3>2. QED BY <3>1, <1>l, <1>s DEF Inside
    <2>3. QED BY <2>1, <2>2
  <1>1. ASSUME NEW d \in Clients, d # c PROVE Covered(d)' /\ Emptied(d)
    <2>1. m'[d] = m[d] BY <1>0, <1>b, <1>1 DEF Becomes
    <2>2. Covered(d) BY DEF EmptyInv
    <2>3. QED BY <1>0, <1>s, <2>1, <2>2 DEF Covered, Emptied
  <1> DEFINE Goal == Covered(c)' /\ Emptied(c)
  \* Elsewhere than in the listing and the migration there is nothing to show.
  <1>2. ASSUME m'[c].pc \notin {"list", "move", "delete"} \/ (m'[c].pc = "list" /\ m'[c].sub = 1)
               \/ (m'[c].pc = "delete" /\ m'[c].sub # 1)
        PROVE  Goal
    <2>1. \A s \in Subs : ~(s < 1) BY DEF Subs
    <2>2. QED BY <1>2, <2>1 DEF Covered, Emptied
  \* The listing or the migration is over, and nobody is inside.
  <1>3. ASSUME m'[c].pc = "delete", \A t \in Alive0, s \in Subs : ~Inside(t, s)' PROVE Goal
    BY <1>3 DEF Covered, Emptied, Inside
  <1>4. CASE Call(c)
    <2>1. m'[c].pc = "exists"
      <3>1. PICK o, t : m' = [m EXCEPT ![c] = [m[c] EXCEPT !.pc = "exists", !.op = o, !.arg = t, !.res = "none"]]
        BY ONLY <1>4 DEF Call, Becomes
      <3>2. m'[c] = [m[c] EXCEPT !.pc = "exists", !.op = o, !.arg = t, !.res = "none"] BY <1>0, <3>1
      <3>3. m[c] \in [DOMAIN m[c] -> {m[c][x] : x \in DOMAIN m[c]}] /\ "pc" \in DOMAIN m[c] BY <1>0 DEF Manager
      <3>4. QED BY ONLY <3>2, <3>3
    <2>2. QED BY <2>1, <1>1, <1>2, <1>l, <1>0 DEF EmptyInv
  <1>ret. ASSUME NEW r, Return(c, r) PROVE m'[c].pc = "idle"
    BY <1>ret, <1>0 DEF Return, Becomes, Manager
  <1>del. ASSUME Deleted(c) PROVE m'[c].pc = "idle" \/ (m'[c].pc = "delete" /\ m'[c].sub # 1)
    <2>1. CASE m[c].sub < NSub
      <3>1. Becomes(c, [m[c] EXCEPT !.sub = m[c].sub + 1, !.tries = 1, !.pc = "delete"])
        BY <1>del, <2>1 DEF Deleted
      <3>2. m'[c].pc = "delete" /\ m'[c].sub = m[c].sub + 1
        BY <3>1, <1>0 DEF Becomes, Manager
      <3>3. m[c].sub + 1 # 1 BY <1>0 DEF Subs
      <3>4. QED BY <3>2, <3>3
    <2>2. CASE ~(m[c].sub < NSub) BY <1>del, <2>2, <1>ret DEF Deleted
    <2>3. QED BY <2>1, <2>2
  <1>try. ASSUME TryFailed(c) PROVE m'[c].pc \in {"idle", "rm"}
    <2>1. CASE m[c].tries < MaxTries
      <3>1. Becomes(c, [m[c] EXCEPT !.tries = m[c].tries + 1, !.pc = "rm"])
        BY <1>try, <2>1 DEF TryFailed
      <3>2. QED BY <3>1, <1>0 DEF Becomes, Manager
    <2>2. CASE ~(m[c].tries < MaxTries) BY <1>try, <2>2, <1>ret DEF TryFailed
    <2>3. QED BY <2>1, <2>2
  <1>lab. ASSUME NEW l, Becomes(c, [m[c] EXCEPT !.pc = l]) PROVE m'[c].pc = l
    BY <1>lab, <1>0 DEF Becomes, Manager
  <1>5. CASE Exists(c)
    <2>1. m[c].op = "destroy" /\ m[c].pc = "exists" BY <1>5, <1>0 DEF Exists, Cleared
    <2>2. CASE Enter(c, "list")
      <3>1. m'[c].pc = "list" /\ m'[c].sub = 1 BY <2>2, <1>0 DEF Enter, Becomes, Manager
      <3>2. QED BY <3>1, <1>1, <1>2, <1>l, <1>0 DEF EmptyInv
    <2>3. CASE Return(c, "ok")
      <3>1. m'[c].pc = "idle" BY <2>3, <1>ret
      <3>2. QED BY <3>1, <1>1, <1>2, <1>l, <1>0 DEF EmptyInv
    <2>4. CASE Becomes(c, [m[c] EXCEPT !.sub = m[c].sub + 1, !.tries = 1])
      <3>1. m'[c].pc = "exists" BY <2>4, <2>1, <1>0 DEF Becomes, Manager
      <3>2. QED BY <3>1, <1>1, <1>2, <1>l, <1>0 DEF EmptyInv
    <2>5. QED BY <1>5, <2>1, <2>2, <2>3, <2>4 DEF Exists, NextSub
  <1>6. CASE List(c)
    <2> DEFINE k == m[c].sub
               found == {t \in Tasks : life[t] \in {"alive", "exiting"} /\ loc[t][k] = "cg"}
               all == m[c].todo \cup found
    <2>1. m[c].pc = "list" /\ loc' = loc BY <1>6 DEF List, kernel
    <2>2. ASSUME NEW t \in Alive0, NEW s \in Subs, Inside(t, s)', s < k + 1 PROVE t \in all
      <3>1. Inside(t, s) /\ t \in Tasks BY <2>2, <1>s, <1>0
      <3>2. s < k \/ s = k BY <2>2, <1>0 DEF Subs
      <3>3. CASE s < k BY <3>1, <3>3, <2>1, <1>0 DEF Covered
      <3>4. CASE s = k BY <3>1, <3>4 DEF Inside
      <3>5. QED BY <3>2, <3>3, <3>4
    <2>3. CASE k < NSub
      <3>1. Becomes(c, [m[c] EXCEPT !.sub = k + 1, !.todo = all]) BY <1>6, <2>3 DEF List
      <3>2. m'[c].pc = "list" /\ m'[c].sub = k + 1 /\ m'[c].todo = all
        BY <3>1, <2>1, <1>0 DEF Becomes, Manager
      <3>3. Goal
        <4> HIDE DEF k, all
        <4>1. QED BY <3>2, <2>2 DEF Covered, Emptied
      <3>4. QED BY <3>3, <1>1, <1>l, <1>0 DEF EmptyInv
    <2>4. CASE ~(k < NSub)
      <3>1. Becomes(c, [m[c] EXCEPT !.sub = 1, !.todo = all,
                                    !.pc = IF all = {} THEN "delete" ELSE "move"])
        BY <1>6, <2>4 DEF List
      <3>2. /\ m'[c].pc = IF all = {} THEN "delete" ELSE "move"
            /\ m'[c].sub = 1 /\ m'[c].todo = all
        BY <3>1, <1>0 DEF Becomes, Manager
      <3>3. \A s \in Subs : s < k + 1 /\ ~(s < 1) BY <2>4, <1>0 DEF Subs
      <3>4. Goal
        <4> HIDE DEF k, all
        <4>1. \A t \in Alive0, s \in Subs : Inside(t, s)' => t \in all BY <2>2, <3>3
        <4>2. CASE all = {} BY <4>1, <4>2, <3>2, <1>3
        <4>3. CASE all # {} BY <4>1, <4>3, <3>2, <3>3 DEF Covered, Emptied
        <4>4. QED BY <4>2, <4>3
      <3>5. QED BY <3>4, <1>1, <1>l, <1>0 DEF EmptyInv
    <2>5. QED BY <2>3, <2>4
  <1>7. CASE Move(c) \/ MoveFails(c)
    <2>1. PICK t \in Tasks :
            /\ Migrating(c, t)
            /\ \/ /\ loc' = Moved({t}, m[c].sub, "root")
                  /\ IF m[c].sub < NSub
                     THEN Becomes(c, [m[c] EXCEPT !.sub = m[c].sub + 1, !.arg = t])
                     ELSE Dropped(c, t)
               \/ life[t] = "gone" /\ Dropped(c, t)
      <3>1. CASE Move(c) BY <3>1 DEF Move
      <3>2. CASE MoveFails(c) BY <3>2 DEF MoveFails
      <3>3. QED BY <1>7, <3>1, <3>2
    <2>2. m[c].pc = "move" /\ t \in m[c].todo /\ (m[c].sub > 1 => t = m[c].arg)
      BY <2>1 DEF Migrating
    \* t has left the hierarchies behind c, whether or not c had begun to move it.
    <2>3. ASSUME NEW s \in Subs, t \in Alive0, s < m[c].sub PROVE ~Inside(t, s)'
      <3>1. m[c].sub > 1 BY <2>3, <1>0 DEF Subs
      <3>2. QED BY <3>1, <2>2, <2>3, <1>s, <1>0 DEF Covered
    <2>4. ASSUME NEW u \in Alive0, NEW s \in Subs, Inside(u, s)' PROVE u \in m[c].todo
      BY <2>2, <2>4, <1>s, <1>0 DEF Covered
    <2>5. CASE /\ loc' = Moved({t}, m[c].sub, "root") /\ m[c].sub < NSub
               /\ Becomes(c, [m[c] EXCEPT !.sub = m[c].sub + 1, !.arg = t])
      <3>1. /\ m'[c].pc = "move" /\ m'[c].sub = m[c].sub + 1 /\ m'[c].arg = t
            /\ m'[c].todo = m[c].todo
        BY <2>5, <2>2, <1>0 DEF Becomes, Manager
      <3>2. ASSUME NEW s \in Subs, t \in Alive0, s < m[c].sub + 1 PROVE ~Inside(t, s)'
        <4>1. s < m[c].sub \/ s = m[c].sub BY <3>2, <1>0 DEF Subs
        <4>2. CASE s < m[c].sub BY <4>2, <3>2, <2>3
        <4>3. CASE s = m[c].sub BY <4>3, <2>5, <1>m, <1>l DEF Inside
        <4>4. QED BY <4>1, <4>2, <4>3
      <3>3. Goal BY <3>1, <3>2, <2>4 DEF Covered, Emptied
      <3>4. QED BY <3>3, <1>1, <1>l, <1>0 DEF EmptyInv
    <2>6. CASE /\ Dropped(c, t)
               /\ \/ life[t] = "gone"
                  \/ loc' = Moved({t}, m[c].sub, "root") /\ ~(m[c].sub < NSub)
      <3>1. /\ m'[c].pc = IF m[c].todo \subseteq {t} THEN "delete" ELSE "move"
            /\ m'[c].sub = 1 /\ m'[c].todo = m[c].todo \ {t}
        BY <2>6, <1>0 DEF Dropped, Becomes, Manager
      <3>2. ASSUME NEW s \in Subs, t \in Alive0 PROVE ~Inside(t, s)'
        <4>1. CASE life[t] = "gone" BY <4>1, <1>l DEF Inside
        <4>2. CASE loc' = Moved({t}, m[c].sub, "root") /\ ~(m[c].sub < NSub)
          <5>1. s < m[c].sub \/ s = m[c].sub BY <4>2, <1>0 DEF Subs
          <5>2. CASE s < m[c].sub BY <5>2, <3>2, <2>3
          <5>3. CASE s = m[c].sub BY <5>3, <4>2, <1>m, <1>l DEF Inside
          <5>4. QED BY <5>1, <5>2, <5>3
        <4>3. QED BY <2>6, <4>1, <4>2
      <3>3. \A u \in Alive0, s \in Subs : Inside(u, s)' => u \in m[c].todo \ {t}
        BY <3>2, <2>4
      <3>4. CASE m[c].todo \subseteq {t}
        <4>1. Goal BY <3>1, <3>3, <3>4, <1>3
        <4>2. QED BY <4>1, <1>1, <1>l, <1>0 DEF EmptyInv
      <3>5. CASE ~(m[c].todo \subseteq {t})
        <4>1. \A s \in Subs : ~(s < 1) BY DEF Subs
        <4>2. Goal BY <3>1, <3>3, <3>5, <4>1 DEF Covered, Emptied
        <4>3. QED BY <4>2, <1>1, <1>l, <1>0 DEF EmptyInv
      <3>6. QED BY <3>4, <3>5
    <2>7. QED BY <2>1, <2>5, <2>6
  <1>8. CASE Delete(c) \/ Rm(c) \/ RmExists(c) \/ RmList(c) \/ RmKid(c) \/ RmDir(c)
    <2>1. CASE Delete(c)
      <3>1. CASE m[c].sub \in dirs
        <4>1. Becomes(c, [m[c] EXCEPT !.pc = "rm", !.tries = 1]) BY <2>1, <3>1 DEF Delete
        <4>2. m'[c].pc = "rm" BY <4>1, <1>0 DEF Becomes, Manager
        <4>3. Goal BY <4>2, <1>2
        <4>4. QED BY <4>3, <1>1, <1>l, <1>0 DEF EmptyInv
      <3>2. CASE m[c].sub \notin dirs
        <4>1. m[c].pc = "delete" /\ NextSub(c, Return(c, "ok")) BY <2>1, <3>2 DEF Delete
        <4>2. CASE m[c].sub < NSub
          <5>1. Becomes(c, [m[c] EXCEPT !.sub = m[c].sub + 1, !.tries = 1])
            BY <4>1, <4>2 DEF NextSub
          <5>2. m'[c].pc = "delete" BY <4>1, <5>1, <1>0 DEF Becomes, Manager
          <5>3. Goal BY <4>1, <5>2 DEF Covered, Emptied
          <5>4. QED BY <5>3, <1>1, <1>l, <1>0 DEF EmptyInv
        <4>3. CASE ~(m[c].sub < NSub)
          <5>1. m'[c].pc = "idle" BY <4>1, <4>3, <1>ret DEF NextSub
          <5>2. Goal BY <5>1, <1>2
          <5>3. QED BY <5>2, <1>1, <1>l, <1>0 DEF EmptyInv
        <4>4. QED BY <4>2, <4>3
      <3>3. QED BY <3>1, <3>2
    <2>2. CASE Rm(c) \/ RmExists(c) \/ RmList(c) \/ RmKid(c) \/ RmDir(c)
      <3>1. \/ Deleted(c) \/ TryFailed(c)
            \/ \E l \in {"rm_exists", "rm_list", "rm_kid", "rm_dir"} :
                 Becomes(c, [m[c] EXCEPT !.pc = l])
        <4>1. CASE Rm(c) BY <4>1 DEF Rm
        <4>2. CASE RmExists(c) BY <4>2 DEF RmExists
        <4>3. CASE RmList(c)
          <5>1. CASE m[c].sub \in dirs /\ m[c].sub \in kids BY <4>3, <5>1 DEF RmList
          <5>2. CASE m[c].sub \in dirs /\ m[c].sub \notin kids BY <4>3, <5>2 DEF RmList
          <5>3. CASE m[c].sub \notin dirs BY <4>3, <5>3 DEF RmList
          <5>4. QED BY <5>1, <5>2, <5>3
        <4>4. CASE RmKid(c) BY <4>4 DEF RmKid
        <4>5. CASE RmDir(c) BY <4>5 DEF RmDir
        <4>6. QED BY <2>2, <4>1, <4>2, <4>3, <4>4, <4>5
      <3>2. \/ m'[c].pc \in {"idle", "rm", "rm_exists", "rm_list", "rm_kid", "rm_dir"}
            \/ m'[c].pc = "delete" /\ m'[c].sub # 1
        BY <3>1, <1>del, <1>try, <1>lab
      <3>3. Goal BY <3>2, <1>2
      <3>4. QED BY <3>3, <1>1, <1>l, <1>0 DEF EmptyInv
    <2>3. QED BY <1>8, <2>1, <2>2
  <1>9. QED BY <1>n, <1>4, <1>5, <1>6, <1>7, <1>8 DEF Step

\* The workload exits, forks and nests: no task of the start gets back inside.
LEMMA EmptyWorkload ==
  ASSUME TypeOK, EmptyInv, Workload
  PROVE  EmptyInv'
  <1>0. m' = m BY DEF Workload, Fork, Exit, Release, Nest
  <1>1. \A t \in Alive0 : t \in Tasks /\ life[t] # "unborn" BY StartAssumption DEF EmptyInv
  <1>2. ASSUME NEW t \in Alive0
        PROVE  life'[t] # "unborn" /\ \A s \in Subs : Inside(t, s)' => Inside(t, s)
    <2> DEFINE Kept == life'[t] # "unborn" /\ \A s \in Subs : Inside(t, s)' => Inside(t, s)
    <2> USE DEF TypeOK, Inside
    <2>1. ASSUME NEW v \in Tasks, NEW u \in Tasks, Fork(v, u) PROVE Kept
      BY <2>1, <1>1 DEF Fork
    <2>2. ASSUME NEW u \in Tasks, Exit(u) PROVE Kept
      BY <2>2, <1>1 DEF Exit
    <2>3. ASSUME NEW u \in Tasks, Release(u) PROVE Kept
      BY <2>3, <1>1 DEF Release
    <2>4. ASSUME NEW u \in Tasks, NEW s \in Subs, Nest(u, s) PROVE Kept
      BY <2>4, <1>1 DEF Nest
    <2>5. QED BY <2>1, <2>2, <2>3, <2>4 DEF Workload
  <1>3. QED BY <1>0, <1>2 DEF EmptyInv, Covered, At

\* Clients that only destroy, on a kernel that lets every live task be moved:
\* when a destroy begins to delete, no live task that was there at the start is
\* left in the cgroup of any hierarchy, however many destroys run at once.
THEOREM EmptiedFirst == OnlyDestroys /\ "attach" \notin Faults /\ Spec => EmptyBeforeDelete
  <1> DEFINE Done == \A c \in Clients : ~At(c, "delete") /\ At(c, "delete")' /\ m'[c].sub = 1 =>
                       \A t \in Alive0 : life'[t] = "alive" =>
                         \A s \in Subs : loc'[t][s] # "cg"
             Known == OnlyDestroys /\ "attach" \notin Faults
  <1>1. Init => ClearedInv /\ EmptyInv
    <2>1. \A s \in Subs : ~(s < 1) BY DEF Subs
    <2>2. QED
      BY <2>1, StartAssumption
      DEF Init, ClearedInv, Cleared, Deleting, At, EmptyInv, Covered
  <1>2. ASSUME Known, TypeOK, ClearedInv /\ EmptyInv, [Next]_vars
        PROVE  (ClearedInv /\ EmptyInv)' /\ [Done]_vars
    <2>1. CASE \E c \in Clients : Call(c) \/ Step(c)
      <3>1. PICK c \in Clients : Call(c) \/ Step(c) BY <2>1
      <3>2. ClearedInv' BY <3>1, <1>2, DestroyStep
      <3>3. EmptyInv' /\ \A d \in Clients : Emptied(d) BY <3>1, <1>2, EmptyStep
      <3>4. QED BY <3>2, <3>3 DEF Emptied
    <2>2. CASE Workload \/ UNCHANGED vars
      <3>1. m' = m /\ dirs' = dirs
        BY <2>2 DEF Workload, Fork, Exit, Release, Nest, vars
      <3>2. ClearedInv' BY <3>1, <1>2 DEF ClearedInv, Cleared, At
      <3>3. EmptyInv'
        <4>1. CASE Workload BY <4>1, <1>2, EmptyWorkload
        <4>2. CASE UNCHANGED vars BY <4>2, <1>2 DEF vars, EmptyInv, Covered, Inside, At
        <4>3. QED BY <2>2, <4>1, <4>2
      <3>4. Done BY <3>1 DEF At
      <3>5. QED BY <3>2, <3>3, <3>4
    <2>3. QED BY <1>2, <2>1, <2>2 DEF Next
  <1>3. Known <=> Known' BY DEF OnlyDestroys
  <1>4. QED BY <1>1, <1>2, <1>3, TypeCorrect, PTL DEF Spec, EmptyBeforeDelete

=============================================================================
