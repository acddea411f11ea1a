--------------------------- MODULE BackgroundJobs ---------------------------
(***************************************************************************)
(* The session's background-job table (internal/jobs/jobs.go) with the     *)
(* three tools that read it (internal/tool/builtin/bgjobs.go).             *)
(*                                                                         *)
(* Every job is driven by one goroutine, whose progress is pc[j].  The     *)
(* tools and the controller call Output, Kill, Wait, DrainCompletedNote    *)
(* and Close from other goroutines; each critical section of Manager.mu or *)
(* Job.mu is one action, so that what happens between two of them          *)
(* interleaves.  Output text is counted in chunks; a result is only empty  *)
(* or not.                                                                 *)
(***************************************************************************)
EXTENDS Integers, Sequences

CONSTANTS
  MaxJobs,    \* bound on the jobs started in a session
  MaxChunks,  \* bound on the chunks one job streams to its buffer
  Attended,   \* bound on the jobs the model polls, kills and waits for by name
  Waiters     \* the goroutines that may be blocked in Wait

ASSUME JobBounds ==
  MaxJobs \in Nat /\ MaxChunks \in Nat /\ Attended \subseteq 1..MaxJobs

Jobs     == 1..MaxJobs
Terminal == {"done", "failed", "killed"}

VARIABLES
  seq,         \* Manager.seq: jobs 1..seq exist, in the order of Manager.order
  status,      \* Job.status ("absent" before Start)
  pc,          \* where the job's goroutine is
  verdict,     \* its local st ("none" until run returns)
  answer,      \* its local result is not empty
  result,      \* Job.result is not empty
  resultRead,  \* Job.resultRead
  buf,         \* chunks in Job.buf
  readOffset,  \* Job.readOffset, in chunks
  shown,       \* chunks that a bash_output call has handed to the model
  cancelling,  \* jobs that Kill has marked and not yet cancelled
  cancelled,   \* jobs whose own context is cancelled
  closing,     \* Close: "open", "cancelled" (in wg.Wait), "closed"
  completed,   \* Manager.completed: notes waiting for the next drain
  drained,     \* every note handed to a turn so far (history)
  waiting      \* the targets each waiter is blocked on

jobVars  == <<status, pc, verdict, answer, result>>
outVars  == <<resultRead, buf, readOffset, shown>>
ctxVars  == <<cancelling, cancelled, closing>>
noteVars == <<completed, drained>>
vars     == <<seq, jobVars, outVars, ctxVars, noteVars, waiting>>

Init ==
  /\ seq = 0
  /\ status = [j \in Jobs |-> "absent"]
  /\ pc = [j \in Jobs |-> "absent"]
  /\ verdict = [j \in Jobs |-> "none"]
  /\ answer = [j \in Jobs |-> FALSE]
  /\ result = [j \in Jobs |-> FALSE]
  /\ resultRead = [j \in Jobs |-> FALSE]
  /\ buf = [j \in Jobs |-> 0]
  /\ readOffset = [j \in Jobs |-> 0]
  /\ shown = [j \in Jobs |-> 0]
  /\ cancelling = {}
  /\ cancelled = {}
  /\ closing = "open"
  /\ completed = <<>>
  /\ drained = <<>>
  /\ waiting = [w \in Waiters |-> {}]

(* Two mutated forms: a Kill, or Close, that forgets to cancel. *)
KillCancelsNothing(j)  == closing # "open"
CloseCancelsNothing(j) == j \in cancelled

(* ctx.Err() # nil in the goroutine of job j: its own cancel or the root's. *)
ContextDone(j) == j \in cancelled \/ closing # "open"

-----------------------------------------------------------------------------
(* Start, up to m.mu.Unlock(): the job is in the table, status Running. *)
Start ==
  /\ seq < MaxJobs
  /\ seq' = seq + 1
  /\ status' = [status EXCEPT ![seq + 1] = "running"]
  /\ pc' = [pc EXCEPT ![seq + 1] = "created"]
  /\ UNCHANGED <<verdict, answer, result, outVars, ctxVars, noteVars, waiting>>

(* The rest of Start: wg.Add(1) and the go statement, outside the lock. *)
Launch(j) ==
  /\ pc[j] = "created"
  /\ pc' = [pc EXCEPT ![j] = "running"]
  /\ UNCHANGED <<seq, status, verdict, answer, result, outVars, ctxVars,
                 noteVars, waiting>>

(* jobWriter.Write: the run function streams one more chunk. *)
Write(j) ==
  /\ pc[j] = "running"
  /\ buf[j] < MaxChunks
  /\ buf' = [buf EXCEPT ![j] = @ + 1]
  /\ UNCHANGED <<seq, jobVars, resultRead, readOffset, shown, ctxVars,
                 noteVars, waiting>>

(* The st a goroutine picks when its run function has returned. *)
Verdict(j, err) ==
  IF ContextDone(j) THEN "killed" ELSE IF err THEN "failed" ELSE "done"

(* run returns and the goroutine picks st; a failure with no text of its   *)
(* own takes the error's text as its result.                               *)
RunReturn(j, text, err) ==
  /\ pc[j] = "running"
  /\ pc' = [pc EXCEPT ![j] = "returned"]
  /\ verdict' = [verdict EXCEPT ![j] = Verdict(j, err)]
  /\ answer' = [answer EXCEPT ![j] = text \/ Verdict(j, err) = "failed"]
  /\ UNCHANGED <<seq, status, result, outVars, ctxVars, noteVars, waiting>>

RecordCompletion(j) ==
  /\ pc[j] = "returned"
  /\ pc' = [pc EXCEPT ![j] = "recorded"]
  /\ completed' = Append(completed, [job |-> j, st |-> verdict[j]])
  /\ UNCHANGED <<seq, status, verdict, answer, result, outVars, ctxVars,
                 drained, waiting>>

(* Mutated: the goroutine publishes before it has recorded. *)
PublishUnrecorded(j) == pc[j] \in {"returned", "recorded"}
MayPublish(j) == pc[j] = "recorded"

FinalStatus(j) == IF status[j] = "killed" THEN "killed" ELSE verdict[j]

(* Under j.mu: the result, and the status unless a Kill already set it. *)
Publish(j) ==
  /\ MayPublish(j)
  /\ pc' = [pc EXCEPT ![j] = "published"]
  /\ result' = [result EXCEPT ![j] = answer[j]]
  /\ status' = [status EXCEPT ![j] = FinalStatus(j)]
  /\ UNCHANGED <<seq, verdict, answer, outVars, ctxVars, noteVars, waiting>>

(* close(j.done), then the deferred wg.Done(). *)
CloseDone(j) ==
  /\ pc[j] = "published"
  /\ pc' = [pc EXCEPT ![j] = "exited"]
  /\ UNCHANGED <<seq, status, verdict, answer, result, outVars, ctxVars,
                 noteVars, waiting>>

-----------------------------------------------------------------------------
NewOutput(j) == buf[j] - readOffset[j]

(* bash_output: Manager.Output moves the offset (or spends the one-shot     *)
(* result) and only then is the caller's filter compiled; an invalid one   *)
(* returns an error instead of the text.                                   *)
BashOutput(j, badFilter) ==
  /\ status[j] # "absent"
  /\ readOffset' = [readOffset EXCEPT ![j] = buf[j]]
  /\ shown' = [shown EXCEPT ![j] =
                 IF badFilter THEN @ ELSE @ + NewOutput(j)]
  /\ resultRead' = [resultRead EXCEPT ![j] =
                      \/ @
                      \/ /\ NewOutput(j) = 0
                         /\ status[j] # "running"
                         /\ result[j]]
  /\ UNCHANGED <<seq, jobVars, buf, ctxVars, noteVars, waiting>>

(* Mutated: Kill announces the job, which its goroutine does as well. *)
KillMarkNoting(j) ==
  /\ status[j] = "running"
  /\ status' = [status EXCEPT ![j] = "killed"]
  /\ cancelling' = cancelling \cup {j}
  /\ completed' = Append(completed, [job |-> j, st |-> "killed"])
  /\ UNCHANGED <<seq, pc, verdict, answer, result, outVars, cancelled, closing,
                 drained, waiting>>

(* Mutated: Kill leaves a result behind while the process still writes. *)
KillMarkAnswering(j) ==
  /\ status[j] = "running"
  /\ status' = [status EXCEPT ![j] = "killed"]
  /\ result' = [result EXCEPT ![j] = TRUE]
  /\ cancelling' = cancelling \cup {j}
  /\ UNCHANGED <<seq, pc, verdict, answer, outVars, cancelled, closing,
                 noteVars, waiting>>

(* Kill, the critical section: only a Running job is marked. *)
KillMark(j) ==
  /\ status[j] = "running"
  /\ status' = [status EXCEPT ![j] = "killed"]
  /\ cancelling' = cancelling \cup {j}
  /\ UNCHANGED <<seq, pc, verdict, answer, result, outVars, cancelled, closing,
                 noteVars, waiting>>

(* Kill, after j.mu.Unlock(): j.cancel(). *)
KillCancel(j) ==
  /\ j \in cancelling
  /\ cancelling' = cancelling \ {j}
  /\ cancelled' = cancelled \cup {j}
  /\ UNCHANGED <<seq, jobVars, outVars, closing, noteVars, waiting>>

(* resolve: the named jobs that exist, or every Running one when none is. *)
Resolve(ids) ==
  IF ids = {} THEN {j \in 1..seq : status[j] = "running"} ELSE ids \cap 1..seq

Wait(w, ids) ==
  /\ waiting[w] = {}
  /\ Resolve(ids) # {}
  /\ waiting' = [waiting EXCEPT ![w] = Resolve(ids)]
  /\ UNCHANGED <<seq, jobVars, outVars, ctxVars, noteVars>>

(* The loop over j.done has come to its end. *)
WaitReturn(w) ==
  /\ waiting[w] # {}
  /\ \A j \in waiting[w] : pc[j] = "exited"
  /\ waiting' = [waiting EXCEPT ![w] = {}]
  /\ UNCHANGED <<seq, jobVars, outVars, ctxVars, noteVars>>

(* The caller's context or the timeout ends the wait before the jobs do. *)
WaitGiveUp(w) ==
  /\ waiting[w] # {}
  /\ waiting' = [waiting EXCEPT ![w] = {}]
  /\ UNCHANGED <<seq, jobVars, outVars, ctxVars, noteVars>>

DrainCompletedNote ==
  /\ completed # <<>>
  /\ completed' = <<>>
  /\ drained' = drained \o completed
  /\ UNCHANGED <<seq, jobVars, outVars, ctxVars, waiting>>

(* Close: m.cancel(), then wg.Wait().  A job that Start has registered and *)
(* not yet launched is not counted by the WaitGroup.                       *)
CloseCancel ==
  /\ closing = "open"
  /\ closing' = "cancelled"
  /\ UNCHANGED <<seq, jobVars, outVars, cancelling, cancelled, noteVars, waiting>>

CloseReturn ==
  /\ closing = "cancelled"
  /\ \A j \in Jobs : pc[j] \in {"absent", "created", "exited"}
  /\ closing' = "closed"
  /\ UNCHANGED <<seq, jobVars, outVars, cancelling, cancelled, noteVars, waiting>>

-----------------------------------------------------------------------------
Goroutine(j) ==
  \/ Launch(j)
  \/ Write(j)
  \/ \E text, err \in BOOLEAN : RunReturn(j, text, err)
  \/ RecordCompletion(j)
  \/ Publish(j)
  \/ CloseDone(j)

Tools ==
  \/ \E j \in Attended : \/ \E badFilter \in BOOLEAN : BashOutput(j, badFilter)
                         \/ KillMark(j)
                         \/ KillCancel(j)
  \/ \E w \in Waiters : \/ \E ids \in SUBSET Attended : Wait(w, ids)
                        \/ WaitReturn(w)
                        \/ WaitGiveUp(w)

Next ==
  \/ Start
  \/ \E j \in Jobs : Goroutine(j)
  \/ Tools
  \/ DrainCompletedNote
  \/ CloseCancel
  \/ CloseReturn

Spec == Init /\ [][Next]_vars

(* A run function is only obliged to return once its context is cancelled: *)
(* exec.CommandContext kills the process, a sub-agent loop checks ctx.     *)
Stops(j) == ContextDone(j) /\ \E text, err \in BOOLEAN : RunReturn(j, text, err)

Fairness ==
  /\ \A j \in Jobs : /\ WF_vars(Launch(j))
                     /\ WF_vars(Stops(j))
                     /\ WF_vars(RecordCompletion(j))
                     /\ WF_vars(Publish(j))
                     /\ WF_vars(CloseDone(j))
                     /\ WF_vars(KillCancel(j))
  /\ WF_vars(CloseReturn)
  /\ \A w \in Waiters : WF_vars(WaitReturn(w))

FairSpec == Spec /\ Fairness

-----------------------------------------------------------------------------
Note == [job : Jobs, st : Terminal]

(* Every variable keeps its type. *)
TypeOK ==
  /\ seq \in 0..MaxJobs
  /\ status \in [Jobs -> Terminal \cup {"absent", "running"}]
  /\ pc \in [Jobs -> {"absent", "created", "running", "returned", "recorded",
                      "published", "exited"}]
  /\ verdict \in [Jobs -> Terminal \cup {"none"}]
  /\ answer \in [Jobs -> BOOLEAN]
  /\ result \in [Jobs -> BOOLEAN]
  /\ resultRead \in [Jobs -> BOOLEAN]
  /\ buf \in [Jobs -> 0..MaxChunks]
  /\ readOffset \in [Jobs -> 0..MaxChunks]
  /\ shown \in [Jobs -> 0..MaxChunks]
  /\ cancelling \in SUBSET Jobs
  /\ cancelled \in SUBSET Jobs
  /\ closing \in {"open", "cancelled", "closed"}
  /\ completed \in Seq(Note)
  /\ drained \in Seq(Note)
  /\ waiting \in [Waiters -> SUBSET Jobs]

(* The completion note of job j is queued or has been read by a turn. *)
Queued(j) == \E i \in DOMAIN completed : completed[i].job = j
Read(j)   == \E i \in DOMAIN drained : drained[i].job = j
Noted(j)  == Queued(j) \/ Read(j)

(* A job that a reader sees done or failed, and every job whose j.done a   *)
(* waiter has seen closed, already has its completion note: this is the    *)
(* order recordCompletion-before-publish is there for (jobs.go:143-149).   *)
SettledIsNoted ==
  \A j \in Jobs : status[j] \in {"done", "failed"} \/ pc[j] = "exited" => Noted(j)

(* No job is announced twice, whatever the order of its end, a Kill, the   *)
(* drains and Close: a note is in one place and there is one per job.      *)
NotedOnce ==
  /\ \A i, k \in DOMAIN completed : completed[i].job = completed[k].job => i = k
  /\ \A i, k \in DOMAIN drained : drained[i].job = drained[k].job => i = k
  /\ \A j \in Jobs : ~(Queued(j) /\ Read(j))

(* Every job is announced, before its end can be told from its status or   *)
(* its channel, and once.                                                  *)
AnnouncedOnce == SettledIsNoted /\ NotedOnce

(* The one-shot result is surfaced by bash_output only after all streamed  *)
(* output of the job was, although Kill lets a reader see a terminal       *)
(* status while the goroutine still writes.                                *)
ResultIsLast == \A j \in Jobs : resultRead[j] => readOffset[j] = buf[j]

(* A terminal status never changes: neither the goroutine that ends after  *)
(* a Kill nor a Kill that comes after the end rewrites it.                 *)
StatusIsFinal ==
  [][\A j \in Jobs : status[j] \in Terminal => status'[j] = status[j]]_vars

(* The goroutine of a killed job comes to an end.                          *)
KillEnds == \A j \in Jobs : status[j] = "killed" ~> pc[j] = "exited"

(* Close comes back, whatever was running or being started.                *)
CloseReturns == closing = "cancelled" ~> closing = "closed"

(* What a Kill or a Close ends comes to its end.                           *)
EndsAreReached == KillEnds /\ CloseReturns


(* Where the completion note of each job is.                               *)
NoteView == [j \in Jobs |-> IF Queued(j) THEN "queued"
                            ELSE IF Read(j) THEN "read" ELSE "none"]

Contract == INSTANCE JobContract WITH view <- status, note <- NoteView

(* Each step of the table is one step of the contract, or none of it.      *)
ImplementsContract == Contract!Spec

-----------------------------------------------------------------------------
(* What comments of the code claim, and the code does not do. *)

(* jobs.go:147: "an observed terminal status imply the note is already     *)
(* queued".  Kill publishes Killed before the goroutine queues the note.   *)
TerminalIsNoted == \A j \in Jobs : status[j] \in Terminal => Noted(j)

(* jobs.go:225: "a job that just finished keeps its real terminal status". *)
(* A Kill that lands after run has returned replaces it.                   *)
FinishedKeepsStatus ==
  \A j \in Jobs : pc[j] \in {"published", "exited"} => status[j] = verdict[j]

(* jobs.go:334: Close "waits for every background job goroutine to return  *)
(* before unblocking".  A Start that it overtakes is not waited for.       *)
CloseWaitsForAll ==
  closing = "closed" => \A j \in Jobs : pc[j] \in {"absent", "created", "exited"}

(* bgjobs.go:34: bash_output "Returns the output produced since the last   *)
(* bash_output call".  A call with a bad filter spends it unseen.          *)
ConsumedIsShown == \A j \in Jobs : shown[j] = readOffset[j]
=============================================================================
