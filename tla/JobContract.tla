---------------------------- MODULE JobContract ----------------------------
(***************************************************************************)
(* What the background-job table promises its readers, with no goroutine,  *)
(* lock or buffer in sight: a job is started, is seen to end once, and is  *)
(* announced once.  A job that ends by itself is announced before its end  *)
(* can be seen; only a kill may be seen first.  BackgroundJobs implements  *)
(* this (internal/jobs/jobs.go).                                           *)
(***************************************************************************)
CONSTANT Jobs

VARIABLES
  view,   \* the status a reader of the table sees
  note    \* the completion note: "none", "queued" or "read"

Init ==
  /\ view = [j \in Jobs |-> "absent"]
  /\ note = [j \in Jobs |-> "none"]

Begin(j) ==
  /\ view[j] = "absent"
  /\ view' = [view EXCEPT ![j] = "running"]
  /\ UNCHANGED note

(* Killed by a call, or because the session closed. *)
Kill(j) ==
  /\ view[j] = "running"
  /\ view' = [view EXCEPT ![j] = "killed"]
  /\ UNCHANGED note

Announce(j) ==
  /\ view[j] \in {"running", "killed"}
  /\ note[j] = "none"
  /\ note' = [note EXCEPT ![j] = "queued"]
  /\ UNCHANGED view

Settle(j, st) ==
  /\ view[j] = "running"
  /\ note[j] # "none"
  /\ view' = [view EXCEPT ![j] = st]
  /\ UNCHANGED note

ReadNotes ==
  /\ note' = [j \in Jobs |-> IF note[j] = "queued" THEN "read" ELSE note[j]]
  /\ UNCHANGED view

Next ==
  \/ \E j \in Jobs : \/ Begin(j)
                     \/ Kill(j)
                     \/ Announce(j)
                     \/ \E st \in {"done", "failed"} : Settle(j, st)
  \/ ReadNotes

Spec == Init /\ [][Next]_<<view, note>>
=============================================================================
