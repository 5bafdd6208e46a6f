-------------------------- MODULE OomEventsProofs ---------------------------
(***************************************************************************)
(* OomEvents implements OomChannel, for every bound on the OOMs and on the *)
(* inotify queue, if names are taken again on v2 only.                     *)
(***************************************************************************)
EXTENDS OomEvents, SequenceTheorems, TLAPS

\* What the queue takes keeps it a sequence of events, of bounded length.
LEMMA QueuedType ==
  ASSUME NEW S, NEW q \in Seq(S), NEW e \in S, "overflow" \in S
  PROVE  /\ Queued(q, e) \in Seq(S)
         /\ Fits(q) => Fits(Queued(q, e))
  <1>1. Len(q) \in Nat BY LenProperties
  <1>2. /\ Append(q, e) \in Seq(S) /\ Len(Append(q, e)) = Len(q) + 1
        /\ Append(q, "overflow") \in Seq(S) /\ Len(Append(q, "overflow")) = Len(q) + 1
        /\ Append(q, "overflow")[Len(q) + 1] = "overflow"
    BY AppendProperties
  <1>3. CASE Len(q) < QueueMax
    BY <1>1, <1>2, <1>3, BoundAssumption DEF Queued, Fits
  <1>4. CASE Len(q) >= QueueMax /\ Has(q, "overflow")
    BY <1>4 DEF Queued
  <1>5. CASE Len(q) >= QueueMax /\ ~Has(q, "overflow")
    <2>1. Queued(q, e) = Append(q, "overflow") BY <1>5 DEF Queued
    <2>2. Has(Append(q, "overflow"), "overflow") BY <1>1, <1>2 DEF Has
    <2>3. Fits(q) => Len(q) = QueueMax BY <1>1, <1>5, BoundAssumption DEF Fits
    <2>4. QED BY <2>1, <2>2, <2>3, <1>1, <1>2, BoundAssumption DEF Fits
  <1>6. QED BY <1>1, <1>3, <1>4, <1>5, BoundAssumption

-----------------------------------------------------------------------------
(***************************************************************************)
(* Types.                                                                  *)
(***************************************************************************)

\* Each step of the kernel and of the receiver keeps the types.
LEMMA KernelType == TypeOK /\ (Kernel \/ DropReceiver) => TypeOK'
  <1> SUFFICES ASSUME TypeOK, Kernel \/ DropReceiver PROVE TypeOK' OBVIOUS
  <1> USE BoundAssumption DEF TypeOK, At
  <1>e. \A e \in Events : Queued(queue, e) \in Seq(Events) /\ Fits(Queued(queue, e))
    BY QueuedType DEF Events
  <1>1. CASE Oom BY <1>1 DEF Oom, local, aux
  <1>2. CASE Touch BY <1>2 DEF Touch, local, aux
  <1>3. CASE Notify BY <1>3, <1>e, ZenonT(40) DEF Notify, local, aux, Events
  <1>4. CASE Sibling BY <1>4, <1>e DEF Sibling, local, aux, Events
  <1>5. CASE Remove BY <1>5, <1>e DEF Remove, local, Events
  <1>6. CASE WatchEnds BY <1>6, <1>e DEF WatchEnds, local, aux, Events
  <1>7. CASE Recreate BY <1>7 DEF Recreate, local, aux
  <1>8. CASE DropReceiver BY <1>8 DEF DropReceiver, local, kernel
  <1>9. QED BY <1>1, <1>2, <1>3, <1>4, <1>5, <1>6, <1>7, <1>8 DEF Kernel

\* Each step of the caller and of the thread keeps the types.
LEMMA ThreadType == TypeOK /\ (Caller \/ Watcher \/ ReadFails) => TypeOK'
  <1> SUFFICES ASSUME TypeOK, Caller \/ Watcher \/ ReadFails PROVE TypeOK' OBVIOUS
  <1> USE BoundAssumption DEF TypeOK, At
  <1>f. Fails => TypeOK' BY DEF Fails, kernel, aux
  <1>1. CASE RegisterV1
    <2>1. CASE ~present BY <1>1, <2>1, <1>f DEF RegisterV1
    <2>2. CASE present
      <3>1. PICK under \in {0, 1} : fd' = under /\ ooms' = under
        BY <1>1, <2>2 DEF RegisterV1
      <3>2. fd' \in Nat /\ ooms' \in Nat BY <3>1
      <3>3. /\ UNCHANGED <<v, present, again, count, dirty, parent, queue, rx, base, batch,
                            sent, seen, told, ends>>
            /\ watch' = "live" /\ chan' = "open" /\ pc' = "read"
        BY <1>1, <2>2 DEF RegisterV1
      <3>4. QED BY <3>2, <3>3
    <2>3. QED BY <2>1, <2>2
  <1>2. CASE WatchParent BY <1>2 DEF WatchParent, aux
  <1>3. CASE WatchFile BY <1>3, <1>f DEF WatchFile, aux
  <1>4. CASE Baseline BY <1>4, <1>f DEF Baseline, kernel, aux
  <1>5. CASE Read
    <2>1. <<>> \in Seq(Events) /\ Fits(<<>>) BY EmptySeq DEF Fits
    <2>2. CASE v = "v2" BY <1>5, <2>1, <2>2 DEF Read
    <2>3. CASE v # "v2" BY <1>5, <2>3 DEF Read
    <2>4. QED BY <2>2, <2>3
  <1>6. CASE ReadFails BY <1>6 DEF ReadFails, Closes, kernel
  <1>7. CASE Check BY <1>7 DEF Check, Closes, kernel
  <1>8. CASE Event
    <2>1. batch # <<>> BY <1>8 DEF Event
    <2>2. /\ Head(batch) \in Events /\ Tail(batch) \in Seq(Events)
          /\ Len(Tail(batch)) = Len(batch) - 1 /\ Len(batch) \in Nat
      BY <2>1, HeadTailProperties, LenProperties
    <2>3. Len(batch) # 1 => Tail(batch) # <<>>
      <3>1. Len(batch) # 1 => Len(Tail(batch)) # 0 BY <2>1, <2>2, EmptySeq
      <3>2. QED BY <3>1
    <2>4. Proceeds /\ batch' = Tail(batch) =>
            pc' \in {"read", "event"} /\ (pc' = "event" => batch' # <<>>)
      BY <2>3 DEF Proceeds
    <2> DEFINE Same == UNCHANGED <<base, sent, seen, told>>
               Typed == /\ pc' \in {"read", "event", "done"} /\ (pc' = "event" => batch' # <<>>)
                        /\ base' \in 0 .. MaxOoms /\ chan' \in {"closed", chan}
                        /\ seen' \in Nat /\ told' \in Nat /\ sent' \in Nat
    <2>5. Closes /\ Same => Typed BY DEF Closes
    <2>6. batch' = Tail(batch) BY <1>8 DEF Event
    <2>7. Proceeds /\ UNCHANGED chan /\ Same => Typed BY <2>4, <2>6
    <2>8. Reread => Typed BY <2>4, <2>5, <2>6, <2>7 DEF Reread
    <2>9. \/ Reread
          \/ Closes /\ Same
          \/ Proceeds /\ UNCHANGED chan /\ Same
      BY <1>8, <2>2 DEF Event, Events
    <2>10. Typed BY <2>5, <2>7, <2>8, <2>9
    <2>11. UNCHANGED <<v, kernel, rx, ooms, ends>> BY <1>8 DEF Event
    <2>12. QED BY <2>2, <2>6, <2>10, <2>11 DEF kernel
  <1>9. QED BY <1>1, <1>2, <1>3, <1>4, <1>5, <1>6, <1>7, <1>8 DEF Caller, Watcher

\* Every variable keeps its type.
THEOREM TypeCorrect == Spec => []TypeOK
  <1>1. Init => TypeOK
    <2>1. <<>> \in Seq(Events) /\ Fits(<<>>) BY EmptySeq, BoundAssumption DEF Fits
    <2>2. 0 \in 0 .. MaxOoms BY BoundAssumption
    <2> SUFFICES ASSUME Init PROVE TypeOK OBVIOUS
    <2>3. queue \in Seq(Events) /\ Fits(queue) /\ batch \in Seq(Events)
      BY <2>1 DEF Init
    <2>4. At("event") => batch # <<>> BY DEF Init, At
    <2>5. count \in 0 .. MaxOoms /\ base \in 0 .. MaxOoms BY <2>2 DEF Init
    <2>6. QED BY <2>3, <2>4, <2>5 DEF Init, TypeOK
  <1>2. TypeOK /\ [Next]_vars => TypeOK'
    <2>1. TypeOK /\ UNCHANGED vars => TypeOK'
      BY DEF TypeOK, At, vars, kernel, local, aux
    <2>2. QED BY <2>1, KernelType, ThreadType DEF Next
  <1>3. QED BY <1>1, <1>2, PTL DEF Spec

-----------------------------------------------------------------------------
(***************************************************************************)
(* The refinement.                                                         *)
(***************************************************************************)

\* Where caller and thread are, and on which version.
Phases ==
  /\ chan = "none" <=> pc \in {"register", "watch", "baseline", "failed"}
  /\ chan = "closed" <=> pc = "done"
  /\ pc \in {"watch", "baseline", "event"} => v = "v2"
  /\ pc = "check" => v = "v1"
  /\ chan = "none" => ooms = 0 /\ seen = 0 /\ told = 0 /\ sent = 0

\* Events of a cgroup that is still there.
Quiet == {"modify", "sibling", "overflow"}

\* What can close the channel has been recorded as an end.
EndInv ==
  /\ ~present \/ again \/ watch = "dead" => "gone" \in ends
  /\ ~rx => "dropped" \in ends
  /\ "gone" \notin ends => queue \in Seq(Quiet) /\ batch \in Seq(Quiet)

\* What can make the thread send a message is an OOM untold.
CountInv ==
  /\ told <= seen /\ seen <= ooms
  /\ v = "v2" /\ chan = "open" /\ present => count + told <= ooms + base
  /\ v = "v1" => ~again
  /\ v = "v1" /\ chan = "open" /\ present => watch = "live"
  /\ v = "v1" /\ chan = "open" /\ present /\ fd > 0 => ooms > seen
  /\ v = "v1" /\ pc = "read" => told = seen
  /\ pc = "check" /\ present => seen > told

Inv == Phases /\ EndInv /\ CountInv

OnlyV2Again == Recreated \subseteq {"v2"}

\* A step of OomEvents is a step of OomChannel, or none, and keeps Inv.
Implements == Inv' /\ [Channel!Next]_(Channel!vars)

\* The kernel.
LEMMA KernelImplements ==
  ASSUME OnlyV2Again, TypeOK, Inv, Kernel \/ DropReceiver
  PROVE  Implements
  <1> USE DEF TypeOK, Inv, Implements, Channel!vars
  <1>q. \A e \in Quiet : queue \in Seq(Quiet) => Queued(queue, e) \in Seq(Quiet)
    BY QueuedType DEF Quiet
  <1>1. CASE Oom
    <2>1. Phases' /\ EndInv' BY <1>1 DEF Oom, local, Phases, EndInv
    <2>2. CountInv' BY <1>1, BoundAssumption DEF Oom, local, Phases, CountInv
    <2>3. CASE chan = "open"
      BY <1>1, <2>1, <2>2, <2>3 DEF Oom, Channel!Next, Channel!Oom
    <2>4. CASE chan # "open" BY <1>1, <2>1, <2>2, <2>4 DEF Oom
    <2>5. QED BY <2>3, <2>4
  <1>2. CASE Touch
    BY <1>2 DEF Touch, local, aux, Phases, EndInv, CountInv
  <1>3. CASE Notify
    <2>1. EndInv' BY <1>3, <1>q DEF Notify, local, aux, EndInv, Quiet
    <2>2. QED BY <1>3, <2>1 DEF Notify, local, aux, Phases, CountInv
  <1>4. CASE Sibling
    <2>1. EndInv' BY <1>4, <1>q DEF Sibling, local, aux, EndInv, Quiet
    <2>2. QED BY <1>4, <2>1 DEF Sibling, local, aux, Phases, CountInv
  <1>5. CASE Remove
    <2>1. Phases' /\ EndInv' /\ CountInv'
      BY <1>5 DEF Remove, local, Phases, EndInv, CountInv
    <2>2. Channel!End BY <1>5 DEF Remove, Channel!End
    <2>3. QED BY <2>1, <2>2 DEF Channel!Next
  <1>6. CASE WatchEnds
    <2>1. EndInv' BY <1>6 DEF WatchEnds, local, aux, EndInv
    <2>2. CountInv' BY <1>6 DEF WatchEnds, local, aux, CountInv
    <2>3. QED BY <1>6, <2>1, <2>2 DEF WatchEnds, local, aux, Phases
  <1>7. CASE Recreate
    <2>1. v = "v2" BY <1>7, VersionAssumption DEF Recreate, OnlyV2Again
    <2>2. CountInv' BY <1>7, <2>1, BoundAssumption DEF Recreate, local, aux, Phases, CountInv
    <2>3. QED BY <1>7, <2>2 DEF Recreate, local, aux, Phases, EndInv
  <1>8. CASE DropReceiver
    <2>1. Phases' /\ EndInv' /\ CountInv'
      BY <1>8 DEF DropReceiver, kernel, local, Phases, EndInv, CountInv
    <2>2. Channel!End BY <1>8 DEF DropReceiver, Channel!End
    <2>3. QED BY <2>1, <2>2 DEF Channel!Next
  <1>9. QED BY <1>1, <1>2, <1>3, <1>4, <1>5, <1>6, <1>7, <1>8 DEF Kernel

\* The caller.
LEMMA CallerImplements ==
  ASSUME TypeOK, Inv, Caller
  PROVE  Implements
  <1> USE DEF TypeOK, Inv, Implements, Channel!vars, At
  <1>f. CASE Fails /\ pc \in {"register", "watch", "baseline"}
    BY <1>f DEF Fails, kernel, aux, Phases, EndInv, CountInv
  <1>1. CASE RegisterV1 /\ present
    <2>1. PICK under \in {0, 1} : fd' = under /\ ooms' = under BY <1>1 DEF RegisterV1
    <2>2. chan = "none" /\ seen = 0 /\ told = 0 BY <1>1 DEF RegisterV1, Phases
    <2>3. Phases' /\ EndInv' BY <1>1 DEF RegisterV1, Phases, EndInv
    <2>4. CountInv' BY <1>1, <2>1, <2>2 DEF RegisterV1, CountInv
    <2>5. Channel!Open BY <1>1, <2>1, <2>2 DEF RegisterV1, Channel!Open
    <2>6. QED BY <2>3, <2>4, <2>5 DEF Channel!Next
  <1>2. CASE WatchParent
    BY <1>2 DEF WatchParent, aux, Phases, EndInv, CountInv
  <1>3. CASE WatchFile /\ present
    BY <1>3 DEF WatchFile, aux, Phases, EndInv, CountInv
  <1>4. CASE Baseline /\ present
    <2>1. chan = "none" /\ ooms = 0 /\ told = 0 BY <1>4 DEF Baseline, Phases
    <2>2. Phases' /\ EndInv' BY <1>4 DEF Baseline, kernel, aux, Phases, EndInv
    <2>3. CountInv' BY <1>4, <2>1, BoundAssumption DEF Baseline, kernel, aux, Phases, CountInv
    <2>4. Channel!Open BY <1>4, <2>1 DEF Baseline, aux, Channel!Open
    <2>5. QED BY <2>2, <2>3, <2>4 DEF Channel!Next
  <1>5. QED BY <1>f, <1>1, <1>2, <1>3, <1>4 DEF Caller, RegisterV1, WatchFile, Baseline

\* The thread.
LEMMA WatcherImplements ==
  ASSUME TypeOK, Inv, Watcher \/ ReadFails
  PROVE  Implements
  <1> USE DEF TypeOK, Inv, Implements, Channel!vars, At
  <1>1. CASE Read
    <2>1. Phases' BY <1>1, VersionAssumption DEF Read, Phases
    <2>2. EndInv' BY <1>1, EmptySeq DEF Read, EndInv
    <2>3. CountInv' BY <1>1, VersionAssumption DEF Read, Phases, CountInv
    <2>4. QED BY <1>1, <2>1, <2>2, <2>3 DEF Read
  <1>2. CASE ReadFails
    <2>1. Phases' /\ EndInv' /\ CountInv'
      BY <1>2 DEF ReadFails, Closes, kernel, Phases, EndInv, CountInv
    <2>2. Channel!Close BY <1>2 DEF ReadFails, Closes, Phases, Channel!Close
    <2>3. QED BY <2>1, <2>2 DEF Channel!Next
  <1>3. CASE Check
    <2>1. Phases' /\ EndInv' BY <1>3 DEF Check, Closes, kernel, Phases, EndInv
    <2>2. CountInv' BY <1>3 DEF Check, Closes, kernel, Phases, CountInv
    <2>3. chan = "open" BY <1>3 DEF Check, Phases
    <2>4. CASE present /\ rx
      <3>1. told' \in told + 1 .. ooms BY <1>3, <2>4 DEF Check, CountInv
      <3>2. Channel!Tell BY <1>3, <2>3, <2>4, <3>1 DEF Check, Channel!Tell
      <3>3. QED BY <2>1, <2>2, <3>2 DEF Channel!Next
    <2>5. CASE ~(present /\ rx)
      <3>1. ends # {} BY <2>5 DEF EndInv
      <3>2. Channel!Close BY <1>3, <2>3, <2>5, <3>1 DEF Check, Closes, Channel!Close
      <3>3. QED BY <2>1, <2>2, <3>2 DEF Channel!Next
    <2>6. QED BY <2>4, <2>5
  <1>4. CASE Event
    <2> DEFINE Same == UNCHANGED <<base, sent, seen, told>>
    <2>1. /\ pc = "event" /\ batch # <<>> /\ batch' = Tail(batch) /\ v = "v2"
          /\ chan = "open" /\ UNCHANGED <<v, kernel, rx, ooms, ends>>
      BY <1>4 DEF Event, Phases
    <2>2. /\ Head(batch) \in Events
          /\ batch \in Seq(Quiet) => Head(batch) \in Quiet /\ Tail(batch) \in Seq(Quiet)
      BY <2>1, HeadTailProperties
    <2>3. EndInv' BY <2>1, <2>2 DEF kernel, EndInv
    <2>4. CASE Closes /\ Same /\ ends # {}
      <3>1. Phases' /\ CountInv' BY <2>1, <2>4 DEF Closes, kernel, Phases, CountInv
      <3>2. Channel!Close BY <2>1, <2>4 DEF Closes, Channel!Close
      <3>3. QED BY <2>3, <3>1, <3>2 DEF Channel!Next
    <2>5. CASE Proceeds /\ UNCHANGED chan /\ Same
      <3>1. pc' \in {"read", "event"} BY <2>5 DEF Proceeds
      <3>2. Phases' /\ CountInv' BY <2>1, <2>5, <3>1 DEF kernel, Phases, CountInv
      <3>3. QED BY <2>1, <2>3, <2>5, <3>2
    <2>6. CASE /\ present /\ count > base /\ sent' = sent + 1 /\ base' = count
               /\ seen' = ooms /\ told' = ooms /\ Proceeds /\ UNCHANGED chan
      <3>1. pc' \in {"read", "event"} BY <2>6 DEF Proceeds
      <3>2. Phases' /\ CountInv' BY <2>1, <2>6, <3>1, BoundAssumption DEF kernel, Phases, CountInv
      <3>3. told' \in told + 1 .. ooms BY <2>1, <2>6, BoundAssumption DEF CountInv
      <3>4. Channel!Tell BY <2>1, <2>6, <3>3 DEF Channel!Tell
      <3>5. QED BY <2>3, <3>2, <3>4 DEF Channel!Next
    <2>7. Head(batch) \in {"delete", "ignored"} => ends # {}
      BY <2>2 DEF EndInv, Quiet
    <2>8. ~present \/ ~rx => ends # {} BY DEF EndInv
    <2>9. \/ Reread
          \/ Head(batch) \in {"delete", "ignored"} /\ Closes /\ Same
          \/ Proceeds /\ UNCHANGED chan /\ Same
      BY <1>4, <2>2 DEF Event, Events
    <2>10. CASE Reread BY <2>4, <2>5, <2>6, <2>8, <2>10 DEF Reread
    <2>11. QED BY <2>4, <2>5, <2>7, <2>9, <2>10
  <1>5. QED BY <1>1, <1>2, <1>3, <1>4 DEF Watcher

\* The watcher keeps the promise of the channel: no message without news, no
\* end without a reason, for every number of OOMs and every size of the queue,
\* if a name is taken again on v2 only.
THEOREM ChannelImplemented == OnlyV2Again /\ Spec => KeepsPromise
  <1>1. Init => Inv /\ Channel!Init
    <2> SUFFICES ASSUME Init PROVE Inv /\ Channel!Init OBVIOUS
    <2>1. Channel!Init BY DEF Init, Channel!Init
    <2>2. EndInv BY EmptySeq DEF Init, EndInv
    <2>3. Phases /\ CountInv BY DEF Init, Phases, CountInv
    <2>4. QED BY <2>1, <2>2, <2>3 DEF Inv
  <1>2. OnlyV2Again /\ TypeOK /\ Inv /\ [Next]_vars => Inv' /\ [Channel!Next]_(Channel!vars)
    <2> SUFFICES ASSUME OnlyV2Again, TypeOK, Inv, [Next]_vars PROVE Implements
      BY DEF Implements
    <2>1. CASE UNCHANGED vars
      BY <2>1 DEF vars, kernel, local, aux, Implements, Inv, Phases, EndInv, CountInv, Channel!vars
    <2>2. QED BY <2>1, KernelImplements, CallerImplements, WatcherImplements DEF Next
  <1>3. OnlyV2Again <=> OnlyV2Again' BY DEF OnlyV2Again
  <1>4. QED BY <1>1, <1>2, <1>3, TypeCorrect, PTL DEF Spec, KeepsPromise, Channel!Spec
=============================================================================
