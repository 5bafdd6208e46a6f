----------------------------- MODULE OomEvents ------------------------------
(***************************************************************************)
(* fs/events.rs: the OOM channel of one memory cgroup, from its caller's   *)
(* registration to the end of the watcher thread, on cgroup v2 (inotify on *)
(* memory.events and on the parent directory) and on v1 (an eventfd).      *)
(* The kernel counts, notifies late and loses what does not fit into the   *)
(* inotify queue; the cgroup may be removed at any moment and another one  *)
(* may be created under its name.                                          *)
(***************************************************************************)
EXTENDS Naturals, Sequences

CONSTANTS
  Versions,   \* cgroup versions looked at
  Recreated,  \* versions on which the name is taken again
  MaxOoms,    \* OOMs of one cgroup, at most
  QueueMax    \* events the inotify queue holds

ASSUME VersionAssumption == Versions \subseteq {"v1", "v2"} /\ Recreated \subseteq Versions
ASSUME BoundAssumption   == MaxOoms \in Nat /\ QueueMax \in Nat \ {0}

VARIABLES
  v,        \* cgroup version
  present,  \* there is a cgroup of that name
  again,    \* the name has been taken again
  count,    \* v2: "oom" of its memory.events
  dirty,    \* v2: changed, not yet notified
  watch,    \* on the cgroup's file: "none", "live", "dead" (cgroup gone), "over"
  parent,   \* v2: the parent directory is watched
  queue,    \* v2: inotify events
  fd,       \* v1: value of the eventfd
  rx,       \* the receiver still exists
  pc,       \* caller, then watcher thread
  base,     \* v2: OOMs known
  batch,    \* v2: events read and not yet looked at
  chan,     \* "none", "open", "closed"
  sent,     \* messages sent
  ooms, seen, told,  \* auxiliary: OOMs while open, covered by the last read, told of
  ends      \* auxiliary: what has happened that ends the channel

kernel == <<present, again, count, dirty, watch, parent, queue, fd>>
local  == <<pc, base, batch>>
aux    == <<ooms, seen, told, ends>>
vars   == <<v, kernel, rx, local, chan, sent, aux>>

Events == {"modify", "sibling", "delete", "ignored", "overflow"}

Init ==
  /\ v \in Versions
  /\ present = TRUE /\ again = FALSE
  /\ count \in 0 .. MaxOoms
  /\ dirty = FALSE /\ watch = "none" /\ parent = FALSE /\ queue = <<>> /\ fd = 0
  /\ rx = TRUE /\ pc = "register" /\ base = 0 /\ batch = <<>> /\ chan = "none" /\ sent = 0
  /\ ooms = 0 /\ seen = 0 /\ told = 0 /\ ends = {}

-----------------------------------------------------------------------------
\* The kernel.

Has(q, e) == \E i \in 1 .. Len(q) : q[i] = e

\* A full queue takes one overflow event; an event like the last one is dropped,
\* but siblings differ in their names.
Queued(q, e) ==
  IF Len(q) >= QueueMax THEN IF Has(q, "overflow") THEN q ELSE Append(q, "overflow")
  ELSE IF e # "sibling" /\ q # <<>> /\ q[Len(q)] = e THEN q
  ELSE Append(q, e)

Oom ==
  /\ present /\ count < MaxOoms
  /\ count' = count + 1
  /\ dirty' = (v = "v2")
  /\ fd' = IF v = "v1" /\ watch = "live" THEN fd + 1 ELSE fd
  /\ ooms' = IF chan = "open" THEN ooms + 1 ELSE ooms
  /\ UNCHANGED <<v, present, again, watch, parent, queue, rx, local, chan, sent, seen, told, ends>>

\* Another line of memory.events changes.
Touch ==
  /\ v = "v2" /\ present /\ ~dirty
  /\ dirty' = TRUE
  /\ UNCHANGED <<v, present, again, count, watch, parent, queue, fd, rx, local, chan, sent, aux>>

\* Changes are notified later, several of them as one.
Notify ==
  /\ dirty
  /\ dirty' = FALSE
  /\ queue' = IF watch = "live" THEN Queued(queue, "modify") ELSE queue
  /\ UNCHANGED <<v, present, again, count, watch, parent, fd, rx, local, chan, sent, aux>>

\* Another child of the parent is removed (a closed watcher has no queue).
Sibling ==
  /\ parent /\ chan # "closed"
  /\ queue' = Queued(queue, "sibling")
  /\ UNCHANGED <<v, present, again, count, dirty, watch, parent, fd, rx, local, chan, sent, aux>>

Remove ==
  /\ present
  /\ present' = FALSE /\ dirty' = FALSE
  /\ watch' = IF watch = "live" THEN "dead" ELSE watch
  /\ queue' = IF parent THEN Queued(queue, "delete") ELSE queue
  /\ ends' = ends \cup {"gone"}
  /\ UNCHANGED <<v, again, count, parent, fd, rx, local, chan, sent, ooms, seen, told>>

\* The watch ends some time after the cgroup: with an event.
WatchEnds ==
  /\ watch = "dead"
  /\ watch' = "over"
  /\ IF v = "v2" THEN queue' = Queued(queue, "ignored") /\ UNCHANGED fd
                 ELSE fd' = fd + 1 /\ UNCHANGED queue
  /\ UNCHANGED <<v, present, again, count, dirty, parent, rx, local, chan, sent, aux>>

Recreate ==
  /\ ~present /\ ~again /\ v \in Recreated
  /\ present' = TRUE /\ again' = TRUE /\ count' = 0
  /\ UNCHANGED <<v, dirty, watch, parent, queue, fd, rx, local, chan, sent, aux>>

DropReceiver ==
  /\ chan = "open" /\ rx
  /\ rx' = FALSE
  /\ ends' = ends \cup {"dropped"}
  /\ UNCHANGED <<v, kernel, local, chan, sent, ooms, seen, told>>

Kernel == Oom \/ Touch \/ Notify \/ Sibling \/ Remove \/ WatchEnds \/ Recreate

-----------------------------------------------------------------------------
\* The caller's registration.

At(label) == pc = label

Fails == pc' = "failed" /\ UNCHANGED <<v, kernel, rx, base, batch, chan, sent, aux>>

\* v1: open memory.oom_control, write to cgroup.event_control.  A cgroup that
\* is under OOM is notified at once.
RegisterV1 ==
  /\ At("register") /\ v = "v1"
  /\ IF ~present THEN Fails
     ELSE /\ watch' = "live"
          /\ \E under \in {0, 1} : fd' = under /\ ooms' = under
          /\ chan' = "open" /\ pc' = "read"
          /\ UNCHANGED <<v, present, again, count, dirty, parent, queue, rx, base, batch,
                         sent, seen, told, ends>>

WatchParent ==
  /\ At("register") /\ v = "v2"
  /\ parent' = TRUE /\ pc' = "watch"
  /\ UNCHANGED <<v, present, again, count, dirty, watch, queue, fd, rx, base, batch, chan, sent, aux>>

WatchFile ==
  /\ At("watch")
  /\ IF ~present THEN Fails
     ELSE /\ watch' = "live" /\ pc' = "baseline"
          /\ UNCHANGED <<v, present, again, count, dirty, parent, queue, fd, rx, base, batch,
                         chan, sent, aux>>

Baseline ==
  /\ At("baseline")
  /\ IF ~present THEN Fails
     ELSE /\ base' = count /\ chan' = "open" /\ pc' = "read"
          /\ UNCHANGED <<v, kernel, rx, batch, sent, aux>>

-----------------------------------------------------------------------------
\* The watcher thread.

Closes == chan' = "closed" /\ pc' = "done"

\* Mutant of Read: the thread does not wait for events.
ReadNoWait ==
  /\ At("read") /\ v = "v2"
  /\ batch' = queue /\ queue' = <<>> /\ pc' = "event"
  /\ UNCHANGED <<v, present, again, count, dirty, watch, parent, fd, rx, base, chan, sent, aux>>

\* The thread reads all there is in the queue, or the value of the eventfd.
Read ==
  /\ At("read")
  /\ IF v = "v2"
     THEN queue # <<>> /\ batch' = queue /\ queue' = <<>> /\ pc' = "event"
          /\ UNCHANGED <<fd, seen>>
     ELSE fd > 0 /\ fd' = 0 /\ seen' = ooms /\ pc' = "check"
          /\ UNCHANGED <<queue, batch>>
  /\ UNCHANGED <<v, present, again, count, dirty, watch, parent, rx, base, chan, sent, ooms, told,
                 ends>>

\* An error of the read, on v1 also EINTR, is the end.
ReadFails ==
  /\ At("read")
  /\ Closes
  /\ ends' = ends \cup {"broken"}
  /\ UNCHANGED <<v, kernel, rx, base, batch, sent, ooms, seen, told>>

\* v1: the event is the cgroup's end if its files have gone.  Without a receiver
\* the thread panics.
Check ==
  /\ At("check")
  /\ IF present /\ rx
     THEN sent' = sent + 1 /\ told' = seen /\ pc' = "read" /\ UNCHANGED chan
     ELSE Closes /\ UNCHANGED <<sent, told>>
  /\ UNCHANGED <<v, kernel, rx, base, batch, ooms, seen, ends>>

\* The thread goes on to the next event.
Proceeds == pc' = IF Len(batch) = 1 THEN "read" ELSE "event"

\* Mutant of Reread: what has been told of is not remembered.
RereadKeepsBase ==
  \/ /\ ~present \/ (count > base /\ ~rx)
     /\ Closes /\ UNCHANGED <<base, sent, seen, told>>
  \/ /\ present /\ count > base /\ rx
     /\ sent' = sent + 1 /\ seen' = ooms /\ told' = ooms
     /\ Proceeds /\ UNCHANGED <<base, chan>>
  \/ /\ present /\ count <= base
     /\ Proceeds /\ UNCHANGED <<base, chan, sent, seen, told>>

\* v2: read the count again and tell of a rise.
Reread ==
  \/ /\ ~present \/ (count > base /\ ~rx)
     /\ Closes /\ UNCHANGED <<base, sent, seen, told>>
  \/ /\ present /\ count > base /\ rx
     /\ sent' = sent + 1 /\ base' = count
     /\ seen' = ooms /\ told' = ooms
     /\ Proceeds /\ UNCHANGED chan
  \/ /\ present /\ count <= base
     /\ Proceeds /\ UNCHANGED <<base, chan, sent, seen, told>>

\* Mutant of Event: an overflow is passed over.
EventNoOverflow ==
  /\ At("event")
  /\ batch' = Tail(batch)
  /\ LET e == Head(batch) IN
       CASE e = "modify"                -> Reread
         [] e \in {"delete", "ignored"} -> Closes /\ UNCHANGED <<base, sent, seen, told>>
         [] OTHER -> Proceeds /\ UNCHANGED <<base, chan, sent, seen, told>>
  /\ UNCHANGED <<v, kernel, rx, ooms, ends>>

\* Mutant of Event: the end of the cgroup is seen at the end of the watch only.
EventNoDelete ==
  /\ At("event")
  /\ batch' = Tail(batch)
  /\ LET e == Head(batch) IN
       CASE e \in {"modify", "overflow"} -> Reread
         [] e = "ignored"               -> Closes /\ UNCHANGED <<base, sent, seen, told>>
         [] OTHER -> Proceeds /\ UNCHANGED <<base, chan, sent, seen, told>>
  /\ UNCHANGED <<v, kernel, rx, ooms, ends>>

Event ==
  /\ At("event")
  /\ batch' = Tail(batch)
  /\ LET e == Head(batch) IN
       CASE e \in {"modify", "overflow"} -> Reread
         [] e \in {"delete", "ignored"}  -> Closes /\ UNCHANGED <<base, sent, seen, told>>
         [] e = "sibling" -> Proceeds /\ UNCHANGED <<base, chan, sent, seen, told>>
  /\ UNCHANGED <<v, kernel, rx, ooms, ends>>

Caller  == RegisterV1 \/ WatchParent \/ WatchFile \/ Baseline
Watcher == Read \/ Check \/ Event

Next == Kernel \/ DropReceiver \/ Caller \/ Watcher \/ ReadFails

Spec == Init /\ [][Next]_vars

\* The thread runs and the kernel delivers its notifications.
FairSpec == Spec /\ WF_vars(Watcher) /\ WF_vars(Notify) /\ WF_vars(v = "v1" /\ WatchEnds)

-----------------------------------------------------------------------------
\* Properties.

\* At most one event more than the queue holds, if it overflowed.
Fits(q) == Len(q) <= QueueMax \/ (Len(q) = QueueMax + 1 /\ Has(q, "overflow"))

\* Every variable keeps its type, and the thread has events in hand exactly
\* while it goes through them.
TypeOK ==
  /\ v \in Versions
  /\ present \in BOOLEAN /\ again \in BOOLEAN /\ dirty \in BOOLEAN
  /\ parent \in BOOLEAN /\ rx \in BOOLEAN
  /\ count \in 0 .. MaxOoms /\ base \in 0 .. MaxOoms /\ fd \in Nat
  /\ watch \in {"none", "live", "dead", "over"}
  /\ queue \in Seq(Events) /\ Fits(queue)
  /\ batch \in Seq(Events) /\ (At("event") => batch # <<>>)
  /\ pc \in {"register", "watch", "baseline", "read", "check", "event", "done", "failed"}
  /\ chan \in {"none", "open", "closed"}
  /\ ooms \in Nat /\ seen \in Nat /\ told \in Nat /\ sent \in Nat
  /\ ends \subseteq {"gone", "dropped", "broken"}

\* The watcher keeps the promise of the channel: every message is news, and the
\* channel closes for a reason (events.rs:40-41, the comment of both functions).
Channel == INSTANCE OomChannel
  WITH chan <- chan, ooms <- ooms, told <- told, sent <- sent, ends <- ends
KeepsPromise == Channel!Spec

\* As long as the cgroup is there, an OOM is told of, though its notification
\* came before the thread looked, together with others or not at all because
\* the queue was full (events.rs:63-64, watches before the baseline, and 82-85, overflow).
OomReported ==
  (chan = "open" /\ ends = {} /\ ooms > told) ~> (chan # "open" \/ ends # {} \/ ooms = told)

\* The channel of a cgroup that has gone is closed, unless the name has been
\* taken again meanwhile (events.rs:40-41 "this channel will be closed").
ClosedAfterRemoval ==
  []((chan = "open" /\ ~present) => <>(chan = "closed" \/ present))
=============================================================================
