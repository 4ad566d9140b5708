---------------------------- MODULE JobLifecycle ----------------------------
(***************************************************************************)
(* What ppvda promises about a job to the user who submitted it, as the    *)
(* job's status (jobs/types.ts) read through the API shows it: the status  *)
(* only moves forward, a settled job never comes back to life, only        *)
(* settled jobs are forgotten unless the process dies, and every job in    *)
(* progress is settled in the end.                                         *)
(***************************************************************************)
CONSTANT Job
VARIABLE view     \* view[j]: a status, "unseen" before creation, "gone" once forgotten

InProgress == {"extracting", "downloading", "encrypting"}
Settled    == {"done", "failed"}

Init == view = [j \in Job |-> "unseen"]

\* The statuses a job may show after it showed s.
After(s) ==
  CASE s = "unseen"      -> {"unseen", "extracting"}
    [] s = "extracting"  -> {"extracting", "downloading", "failed"}
    [] s = "downloading" -> {"downloading", "encrypting"} \cup Settled
    [] s = "encrypting"  -> {"encrypting"} \cup Settled
    [] s \in Settled     -> {s, "gone"}
    [] s = "gone"        -> {"gone"}

Progress == \A j \in Job : view'[j] \in After(view[j])

\* The process dies: the store is in memory only.
Lose == \A j \in Job : view'[j] = IF view[j] = "unseen" THEN "unseen" ELSE "gone"

Next == Progress \/ Lose

EveryJobSettles ==
  \A j \in Job : view[j] \in InProgress ~> view[j] \notin InProgress

Spec == Init /\ [][Next]_view /\ EveryJobSettles
=============================================================================
