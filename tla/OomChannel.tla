----------------------------- MODULE OomChannel -----------------------------
(***************************************************************************)
(* What register_oom_event promises the owner of the channel it returns:   *)
(* a message is news of an OOM that no message has told of, and the        *)
(* channel closes only when the cgroup has gone, nobody receives any more  *)
(* or the watcher cannot read its events.                                  *)
(***************************************************************************)
EXTENDS Naturals

VARIABLES
  chan,   \* "none", "open", "closed"
  ooms,   \* OOMs since the channel was opened
  told,   \* how many of them messages have told of
  sent,   \* messages
  ends    \* reasons to close: "gone", "dropped", "broken"

vars == <<chan, ooms, told, sent, ends>>

Reasons == {"gone", "dropped", "broken"}

Init == chan = "none" /\ ooms = 0 /\ told = 0 /\ sent = 0 /\ ends = {}

\* A cgroup that is under OOM at that moment may be told of at once.
Open ==
  /\ chan = "none"
  /\ chan' = "open"
  /\ ooms' \in {0, 1}
  /\ UNCHANGED <<told, sent, ends>>

Oom == chan = "open" /\ ooms' = ooms + 1 /\ UNCHANGED <<chan, told, sent, ends>>

End == \E r \in {"gone", "dropped"} : ends' = ends \cup {r} /\ UNCHANGED <<chan, ooms, told, sent>>

Tell ==
  /\ chan = "open"
  /\ told' \in told + 1 .. ooms
  /\ sent' = sent + 1
  /\ UNCHANGED <<chan, ooms, ends>>

Close ==
  /\ chan = "open"
  /\ ends' \in {ends, ends \cup {"broken"}} \ {{}}
  /\ chan' = "closed"
  /\ UNCHANGED <<ooms, told, sent>>

Next == Open \/ Oom \/ End \/ Tell \/ Close

Spec == Init /\ [][Next]_vars
=============================================================================
