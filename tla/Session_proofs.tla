--------------------------- MODULE Session_proofs ---------------------------
(***************************************************************************)
(* What belongs to one session: the background jobs it runs, and the files *)
(* it keeps its conversations in.                                          *)
(*                                                                         *)
(* Jobs: the safety of the table for any number of jobs, chunks and        *)
(* waiters.  IInv is the inductive invariant: the position of a job's      *)
(* goroutine determines what readers can already see of it.                *)
(*                                                                         *)
(* Files: for any number of files, turns, calls, compactions and crashes.  *)
(* FilesInv is the inductive invariant, in three layers: where everything  *)
(* stands (Standing), what holds while nothing runs beside a call that     *)
(* leaves a conversation (Own, Gone, Left), and what holds while nothing   *)
(* at all runs together (Remembered, Saved).                               *)
(***************************************************************************)
EXTENDS BackgroundJobs, SessionFiles, SequenceTheorems, TLAPS

-----------------------------------------------------------------------------
(* The jobs.                                                               *)

(* The note of a job exists exactly from RecordCompletion on.              *)
RecordedPc == {"recorded", "published", "exited"}
NotePc == \A j \in Jobs : Noted(j) <=> pc[j] \in RecordedPc

(* What the position of the goroutine says of the status and the verdict.  *)
StatusPc ==
  \A j \in Jobs :
    /\ j > seq <=> pc[j] = "absent"
    /\ pc[j] = "absent" <=> status[j] = "absent"
    /\ status[j] \in {"done", "failed"} => pc[j] \in {"published", "exited"}
    /\ status[j] = "running" => pc[j] \notin {"published", "exited"}
    /\ pc[j] \in RecordedPc \cup {"returned"} => verdict[j] \in Terminal

(* What has been read of a job is ahead of nothing it has written.         *)
OutputPc ==
  \A j \in Jobs :
    /\ shown[j] <= readOffset[j]
    /\ readOffset[j] <= buf[j]
    /\ result[j] => pc[j] \in {"published", "exited"}
    /\ resultRead[j] => result[j] /\ readOffset[j] = buf[j]

IInv == TypeOK /\ NotePc /\ NotedOnce /\ StatusPc /\ OutputPc

(* Every step is one of the named actions, or changes nothing.             *)
LEMMA StepCases ==
  ASSUME [Next]_vars
  PROVE  \/ Start
         \/ \E j \in Jobs : Launch(j)
         \/ \E j \in Jobs : Write(j)
         \/ \E j \in Jobs, text, err \in BOOLEAN : RunReturn(j, text, err)
         \/ \E j \in Jobs : RecordCompletion(j)
         \/ \E j \in Jobs : Publish(j)
         \/ \E j \in Jobs : CloseDone(j)
         \/ \E j \in Jobs, badFilter \in BOOLEAN : BashOutput(j, badFilter)
         \/ \E j \in Jobs : KillMark(j)
         \/ \E j \in Jobs : KillCancel(j)
         \/ \E w \in Waiters, ids \in SUBSET Jobs : Wait(w, ids)
         \/ \E w \in Waiters : WaitReturn(w)
         \/ \E w \in Waiters : WaitGiveUp(w)
         \/ DrainCompletedNote
         \/ CloseCancel
         \/ CloseReturn
         \/ UNCHANGED vars
BY JobBounds DEF Next, Goroutine, Tools, Jobs

(* Every step keeps the types.                                             *)
LEMMA TypeStep ==
  ASSUME TypeOK, StatusPc, OutputPc, [Next]_vars
  PROVE  TypeOK'
<1>1. TypeOK /\ StatusPc /\ OutputPc
  OBVIOUS
<1>2. CASE Start
  <2>1. seq + 1 \in Jobs /\ seq' \in 0..MaxJobs
    BY <1>1, <1>2, JobBounds DEF Start, TypeOK, Jobs
  <2>2. status' \in [Jobs -> Terminal \cup {"absent", "running"}]
    BY <1>1, <1>2, <2>1 DEF Start, TypeOK
  <2>3. pc' \in [Jobs -> {"absent", "created", "running", "returned", "recorded",
                          "published", "exited"}]
    BY <1>1, <1>2, <2>1 DEF Start, TypeOK
  <2>. QED
    BY <1>1, <1>2, <2>1, <2>2, <2>3 DEF Start, TypeOK, outVars, ctxVars, noteVars
<1>3. ASSUME NEW j \in Jobs, Launch(j) PROVE TypeOK'
  BY <1>1, <1>3 DEF Launch, TypeOK, Jobs, Terminal, Note, jobVars, outVars,
       ctxVars, noteVars
<1>4. ASSUME NEW j \in Jobs, Write(j) PROVE TypeOK'
  <2>1. buf[j] + 1 \in 0..MaxChunks
    BY <1>1, <1>4, JobBounds DEF Write, TypeOK
  <2>2. buf' \in [Jobs -> 0..MaxChunks]
    BY <1>1, <1>4, <2>1 DEF Write, TypeOK
  <2>. QED
    BY <1>1, <1>4, <2>2 DEF Write, TypeOK, jobVars, ctxVars, noteVars
<1>5. ASSUME NEW j \in Jobs, NEW text \in BOOLEAN, NEW err \in BOOLEAN,
     RunReturn(j, text, err) PROVE TypeOK'
  BY <1>1, <1>5 DEF RunReturn, Verdict, TypeOK, Jobs, Terminal, Note,
       jobVars, outVars, ctxVars, noteVars
<1>6. ASSUME NEW j \in Jobs, RecordCompletion(j) PROVE TypeOK'
  <2>1. verdict[j] \in Terminal
    BY <1>1, <1>6 DEF RecordCompletion, StatusPc
  <2>2. completed' \in Seq(Note)
    BY <1>1, <1>6, <2>1 DEF RecordCompletion, TypeOK, Note
  <2>. QED
    BY <1>1, <1>6, <2>2 DEF RecordCompletion, TypeOK, jobVars, outVars,
         ctxVars, noteVars
<1>7. ASSUME NEW j \in Jobs, Publish(j) PROVE TypeOK'
  <2>1. verdict[j] \in Terminal
    BY <1>1, <1>7 DEF Publish, MayPublish, StatusPc, RecordedPc
  <2>2. FinalStatus(j) \in Terminal
    BY <2>1 DEF FinalStatus, Terminal
  <2>. QED
    BY <1>1, <1>7, <2>2 DEF Publish, TypeOK, jobVars, outVars, ctxVars,
         noteVars
<1>8. ASSUME NEW j \in Jobs, CloseDone(j) PROVE TypeOK'
  BY <1>1, <1>8 DEF CloseDone, TypeOK, Jobs, Terminal, Note, jobVars,
       outVars, ctxVars, noteVars
<1>9. ASSUME NEW j \in Jobs, NEW badFilter \in BOOLEAN, BashOutput(j,
     badFilter) PROVE TypeOK'
  <2>1. NewOutput(j) \in 0..MaxChunks /\ shown[j] + NewOutput(j) \in 0..MaxChunks
    BY <1>1, JobBounds DEF NewOutput, TypeOK, OutputPc
  <2>2. shown' \in [Jobs -> 0..MaxChunks]
    BY <1>1, <1>9, <2>1 DEF BashOutput, TypeOK
  <2>3. readOffset' \in [Jobs -> 0..MaxChunks]
    BY <1>1, <1>9 DEF BashOutput, TypeOK
  <2>4. resultRead' \in [Jobs -> BOOLEAN]
    BY <1>1, <1>9 DEF BashOutput, TypeOK
  <2>. QED
    BY <1>1, <1>9, <2>2, <2>3, <2>4 DEF BashOutput, TypeOK, jobVars, ctxVars,
         noteVars
<1>10. ASSUME NEW j \in Jobs, KillMark(j) PROVE TypeOK'
  BY <1>1, <1>10 DEF KillMark, TypeOK, Jobs, Terminal, Note, jobVars,
       outVars, ctxVars, noteVars
<1>11. ASSUME NEW j \in Jobs, KillCancel(j) PROVE TypeOK'
  BY <1>1, <1>11 DEF KillCancel, TypeOK, Jobs, Terminal, Note, jobVars,
       outVars, ctxVars, noteVars
<1>12. ASSUME NEW w \in Waiters, NEW ids \in SUBSET Jobs, Wait(w, ids) PROVE
     TypeOK'
  <2>1. Resolve(ids) \in SUBSET Jobs
    BY <1>1, JobBounds DEF Resolve, TypeOK, Jobs
  <2>. QED
    BY <1>1, <1>12, <2>1 DEF Wait, TypeOK, jobVars, outVars, ctxVars, noteVars
<1>13. ASSUME NEW w \in Waiters, WaitReturn(w) PROVE TypeOK'
  BY <1>1, <1>13 DEF WaitReturn, TypeOK, Jobs, Terminal, Note, jobVars,
       outVars, ctxVars, noteVars
<1>14. ASSUME NEW w \in Waiters, WaitGiveUp(w) PROVE TypeOK'
  BY <1>1, <1>14 DEF WaitGiveUp, TypeOK, Jobs, Terminal, Note, jobVars,
       outVars, ctxVars, noteVars
<1>15. CASE DrainCompletedNote
  <2>1. drained' \in Seq(Note) /\ completed' \in Seq(Note)
    BY <1>1, <1>15 DEF DrainCompletedNote, TypeOK
  <2>. QED
    BY <1>1, <1>15, <2>1 DEF DrainCompletedNote, TypeOK, jobVars, outVars, ctxVars
<1>16. CASE CloseCancel
  BY <1>1, <1>16 DEF CloseCancel, TypeOK, Jobs, Terminal, Note, jobVars,
       outVars, ctxVars, noteVars
<1>17. CASE CloseReturn
  BY <1>1, <1>17 DEF CloseReturn, TypeOK, Jobs, Terminal, Note, jobVars,
       outVars, ctxVars, noteVars
<1>18. CASE UNCHANGED vars
  BY <1>1, <1>18 DEF vars, TypeOK, Jobs, Terminal, Note, jobVars, outVars,
       ctxVars, noteVars
<1>. QED
  BY StepCases, <1>2, <1>3, <1>4, <1>5, <1>6, <1>7, <1>8, <1>9, <1>10, <1>11,
       <1>12, <1>13, <1>14, <1>15, <1>16, <1>17, <1>18

(* Every step keeps the order written, read, shown.                        *)
LEMMA OutputStep ==
  ASSUME TypeOK, StatusPc, OutputPc, [Next]_vars
  PROVE  OutputPc'
<1>1. TypeOK /\ StatusPc /\ OutputPc
  OBVIOUS
<1>2. CASE Start
  <2>1. seq + 1 \in Jobs
    BY <1>1, <1>2, JobBounds DEF Start, TypeOK, Jobs
  <2>2. pc[seq + 1] = "absent"
    BY <1>1, <2>1 DEF StatusPc, TypeOK, Jobs
  <2>. QED
    BY <1>1, <1>2, <2>1, <2>2 DEF Start, OutputPc, TypeOK, outVars
<1>3. ASSUME NEW j \in Jobs, Launch(j) PROVE OutputPc'
  BY <1>1, <1>3 DEF Launch, TypeOK, OutputPc, jobVars, outVars, ctxVars,
       noteVars
<1>4. ASSUME NEW j \in Jobs, Write(j) PROVE OutputPc'
  BY <1>1, <1>4 DEF Write, TypeOK, OutputPc, jobVars, outVars, ctxVars,
       noteVars
<1>5. ASSUME NEW j \in Jobs, NEW text \in BOOLEAN, NEW err \in BOOLEAN,
     RunReturn(j, text, err) PROVE OutputPc'
  BY <1>1, <1>5 DEF RunReturn, Verdict, TypeOK, OutputPc, jobVars, outVars,
       ctxVars, noteVars
<1>6. ASSUME NEW j \in Jobs, RecordCompletion(j) PROVE OutputPc'
  BY <1>1, <1>6 DEF RecordCompletion, TypeOK, OutputPc, jobVars, outVars,
       ctxVars, noteVars
<1>7. ASSUME NEW j \in Jobs, Publish(j) PROVE OutputPc'
  BY <1>1, <1>7 DEF Publish, MayPublish, FinalStatus, TypeOK, OutputPc,
       jobVars, outVars, ctxVars, noteVars
<1>8. ASSUME NEW j \in Jobs, CloseDone(j) PROVE OutputPc'
  BY <1>1, <1>8 DEF CloseDone, TypeOK, OutputPc, jobVars, outVars, ctxVars,
       noteVars
<1>9. ASSUME NEW j \in Jobs, NEW badFilter \in BOOLEAN, BashOutput(j,
     badFilter) PROVE OutputPc'
  BY <1>1, <1>9 DEF BashOutput, NewOutput, TypeOK, OutputPc, jobVars,
       outVars, ctxVars, noteVars
<1>10. ASSUME NEW j \in Jobs, KillMark(j) PROVE OutputPc'
  BY <1>1, <1>10 DEF KillMark, TypeOK, OutputPc, jobVars, outVars, ctxVars,
       noteVars
<1>11. ASSUME NEW j \in Jobs, KillCancel(j) PROVE OutputPc'
  BY <1>1, <1>11 DEF KillCancel, TypeOK, OutputPc, jobVars, outVars, ctxVars,
       noteVars
<1>12. ASSUME NEW w \in Waiters, NEW ids \in SUBSET Jobs, Wait(w, ids) PROVE
     OutputPc'
  BY <1>1, <1>12 DEF Wait, Resolve, TypeOK, OutputPc, jobVars, outVars,
       ctxVars, noteVars
<1>13. ASSUME NEW w \in Waiters, WaitReturn(w) PROVE OutputPc'
  BY <1>1, <1>13 DEF WaitReturn, TypeOK, OutputPc, jobVars, outVars, ctxVars,
       noteVars
<1>14. ASSUME NEW w \in Waiters, WaitGiveUp(w) PROVE OutputPc'
  BY <1>1, <1>14 DEF WaitGiveUp, TypeOK, OutputPc, jobVars, outVars, ctxVars,
       noteVars
<1>15. CASE DrainCompletedNote
  BY <1>1, <1>15 DEF DrainCompletedNote, TypeOK, OutputPc, jobVars, outVars,
       ctxVars, noteVars
<1>16. CASE CloseCancel
  BY <1>1, <1>16 DEF CloseCancel, TypeOK, OutputPc, jobVars, outVars,
       ctxVars, noteVars
<1>17. CASE CloseReturn
  BY <1>1, <1>17 DEF CloseReturn, TypeOK, OutputPc, jobVars, outVars,
       ctxVars, noteVars
<1>18. CASE UNCHANGED vars
  BY <1>1, <1>18 DEF vars, TypeOK, OutputPc, jobVars, outVars, ctxVars,
       noteVars
<1>. QED
  BY StepCases, <1>2, <1>3, <1>4, <1>5, <1>6, <1>7, <1>8, <1>9, <1>10, <1>11,
       <1>12, <1>13, <1>14, <1>15, <1>16, <1>17, <1>18

(* Every step keeps what the goroutine's position says of the status.      *)
LEMMA StatusStep ==
  ASSUME TypeOK, StatusPc, [Next]_vars
  PROVE  StatusPc'
<1>1. TypeOK /\ StatusPc
  OBVIOUS
<1>2. CASE Start
  BY <1>1, <1>2 DEF Start, TypeOK, StatusPc, RecordedPc, Jobs, Terminal,
       jobVars, outVars, ctxVars, noteVars
<1>3. ASSUME NEW j \in Jobs, Launch(j) PROVE StatusPc'
  BY <1>1, <1>3 DEF Launch, TypeOK, StatusPc, RecordedPc, Jobs, Terminal,
       jobVars, outVars, ctxVars, noteVars
<1>4. ASSUME NEW j \in Jobs, Write(j) PROVE StatusPc'
  BY <1>1, <1>4 DEF Write, TypeOK, StatusPc, RecordedPc, Jobs, Terminal,
       jobVars, outVars, ctxVars, noteVars
<1>5. ASSUME NEW j \in Jobs, NEW text \in BOOLEAN, NEW err \in BOOLEAN,
     RunReturn(j, text, err) PROVE StatusPc'
  BY <1>1, <1>5 DEF RunReturn, Verdict, TypeOK, StatusPc, RecordedPc, Jobs,
       Terminal, jobVars, outVars, ctxVars, noteVars
<1>6. ASSUME NEW j \in Jobs, RecordCompletion(j) PROVE StatusPc'
  BY <1>1, <1>6 DEF RecordCompletion, TypeOK, StatusPc, RecordedPc, Jobs,
       Terminal, jobVars, outVars, ctxVars, noteVars
<1>7. ASSUME NEW j \in Jobs, Publish(j) PROVE StatusPc'
  BY <1>1, <1>7 DEF Publish, MayPublish, FinalStatus, TypeOK, StatusPc,
       RecordedPc, Jobs, Terminal, jobVars, outVars, ctxVars, noteVars
<1>8. ASSUME NEW j \in Jobs, CloseDone(j) PROVE StatusPc'
  BY <1>1, <1>8 DEF CloseDone, TypeOK, StatusPc, RecordedPc, Jobs, Terminal,
       jobVars, outVars, ctxVars, noteVars
<1>9. ASSUME NEW j \in Jobs, NEW badFilter \in BOOLEAN, BashOutput(j,
     badFilter) PROVE StatusPc'
  BY <1>1, <1>9 DEF BashOutput, NewOutput, TypeOK, StatusPc, RecordedPc,
       Jobs, Terminal, jobVars, outVars, ctxVars, noteVars
<1>10. ASSUME NEW j \in Jobs, KillMark(j) PROVE StatusPc'
  BY <1>1, <1>10 DEF KillMark, TypeOK, StatusPc, RecordedPc, Jobs, Terminal,
       jobVars, outVars, ctxVars, noteVars
<1>11. ASSUME NEW j \in Jobs, KillCancel(j) PROVE StatusPc'
  BY <1>1, <1>11 DEF KillCancel, TypeOK, StatusPc, RecordedPc, Jobs,
       Terminal, jobVars, outVars, ctxVars, noteVars
<1>12. ASSUME NEW w \in Waiters, NEW ids \in SUBSET Jobs, Wait(w, ids) PROVE
     StatusPc'
  BY <1>1, <1>12 DEF Wait, Resolve, TypeOK, StatusPc, RecordedPc, Jobs,
       Terminal, jobVars, outVars, ctxVars, noteVars
<1>13. ASSUME NEW w \in Waiters, WaitReturn(w) PROVE StatusPc'
  BY <1>1, <1>13 DEF WaitReturn, TypeOK, StatusPc, RecordedPc, Jobs,
       Terminal, jobVars, outVars, ctxVars, noteVars
<1>14. ASSUME NEW w \in Waiters, WaitGiveUp(w) PROVE StatusPc'
  BY <1>1, <1>14 DEF WaitGiveUp, TypeOK, StatusPc, RecordedPc, Jobs,
       Terminal, jobVars, outVars, ctxVars, noteVars
<1>15. CASE DrainCompletedNote
  BY <1>1, <1>15 DEF DrainCompletedNote, TypeOK, StatusPc, RecordedPc, Jobs,
       Terminal, jobVars, outVars, ctxVars, noteVars
<1>16. CASE CloseCancel
  BY <1>1, <1>16 DEF CloseCancel, TypeOK, StatusPc, RecordedPc, Jobs,
       Terminal, jobVars, outVars, ctxVars, noteVars
<1>17. CASE CloseReturn
  BY <1>1, <1>17 DEF CloseReturn, TypeOK, StatusPc, RecordedPc, Jobs,
       Terminal, jobVars, outVars, ctxVars, noteVars
<1>18. CASE UNCHANGED vars
  BY <1>1, <1>18 DEF vars, TypeOK, StatusPc, RecordedPc, Jobs, Terminal,
       jobVars, outVars, ctxVars, noteVars
<1>. QED
  BY StepCases, <1>2, <1>3, <1>4, <1>5, <1>6, <1>7, <1>8, <1>9, <1>10, <1>11,
       <1>12, <1>13, <1>14, <1>15, <1>16, <1>17, <1>18

(* A step that touches neither list of notes changes nothing said of them. *)
LEMMA NotesUnchanged ==
  ASSUME UNCHANGED noteVars
  PROVE  (\A j \in Jobs : Noted(j)' <=> Noted(j)) /\ (NotedOnce => NotedOnce')
<1>1. \A j \in Jobs : (Queued(j)' <=> Queued(j)) /\ (Read(j)' <=> Read(j))
  BY DEF noteVars, Queued, Read
<1>. QED
  BY <1>1 DEF noteVars, Noted, NotedOnce

(* The note that RecordCompletion appends, by index.                       *)
LEMMA RecordIndices ==
  ASSUME TypeOK, NEW j \in Jobs, RecordCompletion(j)
  PROVE  /\ Len(completed) \in Nat
         /\ DOMAIN completed = 1..Len(completed)
         /\ DOMAIN completed' = 1..(Len(completed) + 1)
         /\ \A i \in DOMAIN completed : completed'[i] = completed[i]
         /\ completed'[Len(completed) + 1].job = j
         /\ drained' = drained
BY DEF RecordCompletion, TypeOK

(* The same by job.                                                        *)
LEMMA RecordNotes ==
  ASSUME TypeOK, NEW j \in Jobs, RecordCompletion(j)
  PROVE  \A k \in Jobs : /\ Queued(k)' <=> Queued(k) \/ k = j
                         /\ Read(k)' <=> Read(k)
BY RecordIndices DEF Queued, Read

(* What a drain does to the two lists, by index and by job.                *)
LEMMA DrainNotes ==
  ASSUME TypeOK, DrainCompletedNote
  PROVE  /\ Len(completed) \in Nat /\ Len(drained) \in Nat
         /\ DOMAIN completed = 1..Len(completed)
         /\ DOMAIN drained = 1..Len(drained)
         /\ DOMAIN drained' = 1..(Len(drained) + Len(completed))
         /\ \A i \in DOMAIN drained : drained'[i] = drained[i]
         /\ \A i \in DOMAIN completed : drained'[Len(drained) + i] = completed[i]
         /\ \A i \in DOMAIN drained' :
              i \in DOMAIN drained \/ i - Len(drained) \in DOMAIN completed
         /\ DOMAIN completed' = {}
         /\ \A k \in Jobs : ~Queued(k)' /\ (Read(k)' <=> Read(k) \/ Queued(k))
<1>1. /\ Len(completed) \in Nat /\ Len(drained) \in Nat
      /\ DOMAIN completed = 1..Len(completed)
      /\ DOMAIN drained = 1..Len(drained)
      /\ DOMAIN drained' = 1..(Len(drained) + Len(completed))
      /\ \A i \in DOMAIN drained : drained'[i] = drained[i]
      /\ \A i \in DOMAIN completed : drained'[Len(drained) + i] = completed[i]
      /\ \A i \in DOMAIN drained' :
           i \in DOMAIN drained \/ i - Len(drained) \in DOMAIN completed
      /\ DOMAIN completed' = {}
  BY DEF DrainCompletedNote, TypeOK
<1>2. \A k \in Jobs : ~Queued(k)' /\ (Read(k)' <=> Read(k) \/ Queued(k))
  <2>. SUFFICES ASSUME NEW k \in Jobs
                PROVE  ~Queued(k)' /\ (Read(k)' <=> Read(k) \/ Queued(k))
    OBVIOUS
  <2>1. ~Queued(k)'
    BY <1>1 DEF Queued
  <2>2. Read(k) => Read(k)'
    BY <1>1 DEF Read
  <2>3. ASSUME NEW i \in DOMAIN completed, completed[i].job = k PROVE Read(k)'
    <3>1. Len(drained) + i \in DOMAIN drained'
      BY <1>1
    <3>. QED
      BY <1>1, <2>3, <3>1 DEF Read
  <2>4. ASSUME NEW i \in DOMAIN drained', drained'[i].job = k
        PROVE  Read(k) \/ Queued(k)
    <3>1. CASE i \in DOMAIN drained
      BY <1>1, <2>4, <3>1 DEF Read
    <3>2. CASE i - Len(drained) \in DOMAIN completed
      <4>1. drained'[i] = completed[i - Len(drained)]
        BY <1>1, <3>2
      <4>. QED
        BY <2>4, <3>2, <4>1 DEF Queued
    <3>. QED
      BY <1>1, <3>1, <3>2
  <2>. QED
    BY <2>1, <2>2, <2>3, <2>4 DEF Queued, Read
<1>. QED
  BY <1>1, <1>2

(* A note appears when its job is recorded, and a drain moves it whole.    *)
LEMMA NoteStep ==
  ASSUME TypeOK, StatusPc, NotePc, NotedOnce, [Next]_vars
  PROVE  NotePc' /\ NotedOnce'
<1>1. TypeOK /\ StatusPc /\ NotePc /\ NotedOnce
  OBVIOUS
<1>2. CASE Start
  <2>1. seq + 1 \in Jobs
    BY <1>1, <1>2, JobBounds DEF Start, TypeOK, Jobs
  <2>2. pc[seq + 1] = "absent"
    BY <1>1, <2>1 DEF StatusPc, TypeOK, Jobs
  <2>. QED
    BY <1>1, <1>2, <2>1, <2>2, NotesUnchanged DEF Start, NotePc, RecordedPc, TypeOK
<1>3. ASSUME NEW j \in Jobs, Launch(j) PROVE NotePc' /\ NotedOnce'
  BY <1>1, <1>3, NotesUnchanged DEF Launch, NotePc, RecordedPc, TypeOK,
       jobVars, noteVars
<1>4. ASSUME NEW j \in Jobs, Write(j) PROVE NotePc' /\ NotedOnce'
  BY <1>1, <1>4, NotesUnchanged DEF Write, NotePc, RecordedPc, TypeOK,
       jobVars, noteVars
<1>5. ASSUME NEW j \in Jobs, NEW text \in BOOLEAN, NEW err \in BOOLEAN,
     RunReturn(j, text, err) PROVE NotePc' /\ NotedOnce'
  BY <1>1, <1>5, NotesUnchanged DEF RunReturn, Verdict, NotePc, RecordedPc,
       TypeOK, jobVars, noteVars
<1>6. ASSUME NEW j \in Jobs, RecordCompletion(j) PROVE NotePc' /\ NotedOnce'
  <2>1. /\ Len(completed) \in Nat
        /\ DOMAIN completed = 1..Len(completed)
        /\ DOMAIN completed' = 1..(Len(completed) + 1)
        /\ \A i \in DOMAIN completed : completed'[i] = completed[i]
        /\ completed'[Len(completed) + 1].job = j
        /\ drained' = drained
    BY <1>1, <1>6, RecordIndices
  <2>2. \A k \in Jobs : /\ Queued(k)' <=> Queued(k) \/ k = j
                        /\ Read(k)' <=> Read(k)
    BY <1>1, <1>6, RecordNotes
  <2>3. ~Noted(j)
    BY <1>1, <1>6 DEF RecordCompletion, NotePc, RecordedPc
  <2>4. NotePc'
    BY <1>1, <1>6, <2>2 DEF RecordCompletion, NotePc, Noted, RecordedPc, TypeOK
  <2>5. \A i \in DOMAIN completed : completed[i].job # j
    BY <2>3 DEF Noted, Queued
  <2>6. \A i, k \in DOMAIN completed' :
           completed'[i].job = completed'[k].job => i = k
    BY <1>1, <2>1, <2>5 DEF NotedOnce
  <2>7. NotedOnce'
    BY <1>1, <2>1, <2>2, <2>3, <2>6 DEF NotedOnce, Noted
  <2>. QED
    BY <2>4, <2>7
<1>7. ASSUME NEW j \in Jobs, Publish(j) PROVE NotePc' /\ NotedOnce'
  BY <1>1, <1>7, NotesUnchanged DEF Publish, MayPublish, FinalStatus, NotePc,
       RecordedPc, TypeOK, jobVars, noteVars
<1>8. ASSUME NEW j \in Jobs, CloseDone(j) PROVE NotePc' /\ NotedOnce'
  BY <1>1, <1>8, NotesUnchanged DEF CloseDone, NotePc, RecordedPc, TypeOK,
       jobVars, noteVars
<1>9. ASSUME NEW j \in Jobs, NEW badFilter \in BOOLEAN, BashOutput(j,
     badFilter) PROVE NotePc' /\ NotedOnce'
  BY <1>1, <1>9, NotesUnchanged DEF BashOutput, NewOutput, NotePc,
       RecordedPc, TypeOK, jobVars, noteVars
<1>10. ASSUME NEW j \in Jobs, KillMark(j) PROVE NotePc' /\ NotedOnce'
  BY <1>1, <1>10, NotesUnchanged DEF KillMark, NotePc, RecordedPc, TypeOK,
       jobVars, noteVars
<1>11. ASSUME NEW j \in Jobs, KillCancel(j) PROVE NotePc' /\ NotedOnce'
  BY <1>1, <1>11, NotesUnchanged DEF KillCancel, NotePc, RecordedPc, TypeOK,
       jobVars, noteVars
<1>12. ASSUME NEW w \in Waiters, NEW ids \in SUBSET Jobs, Wait(w, ids) PROVE
     NotePc' /\ NotedOnce'
  BY <1>1, <1>12, NotesUnchanged DEF Wait, Resolve, NotePc, RecordedPc,
       TypeOK, jobVars, noteVars
<1>13. ASSUME NEW w \in Waiters, WaitReturn(w) PROVE NotePc' /\ NotedOnce'
  BY <1>1, <1>13, NotesUnchanged DEF WaitReturn, NotePc, RecordedPc, TypeOK,
       jobVars, noteVars
<1>14. ASSUME NEW w \in Waiters, WaitGiveUp(w) PROVE NotePc' /\ NotedOnce'
  BY <1>1, <1>14, NotesUnchanged DEF WaitGiveUp, NotePc, RecordedPc, TypeOK,
       jobVars, noteVars
<1>15. CASE DrainCompletedNote
  <2>1. /\ Len(completed) \in Nat /\ Len(drained) \in Nat
        /\ DOMAIN completed = 1..Len(completed)
        /\ DOMAIN drained = 1..Len(drained)
        /\ DOMAIN drained' = 1..(Len(drained) + Len(completed))
        /\ \A i \in DOMAIN drained : drained'[i] = drained[i]
        /\ \A i \in DOMAIN completed : drained'[Len(drained) + i] = completed[i]
        /\ \A i \in DOMAIN drained' :
             i \in DOMAIN drained \/ i - Len(drained) \in DOMAIN completed
        /\ DOMAIN completed' = {}
    BY <1>1, <1>15, DrainNotes
  <2>2. \A k \in Jobs : ~Queued(k)' /\ (Read(k)' <=> Read(k) \/ Queued(k))
    BY <1>1, <1>15, DrainNotes
  <2>3. NotePc'
    BY <1>1, <1>15, <2>2 DEF DrainCompletedNote, NotePc, Noted, jobVars
  <2>4. ASSUME NEW i \in DOMAIN drained', NEW k \in DOMAIN drained',
               drained'[i].job = drained'[k].job
        PROVE  i = k
    <3>1. CASE i \in DOMAIN drained /\ k \in DOMAIN drained
      BY <1>1, <2>1, <2>4, <3>1 DEF NotedOnce
    <3>2. CASE i \notin DOMAIN drained /\ k \notin DOMAIN drained
      <4>1. /\ drained'[i] = completed[i - Len(drained)]
            /\ drained'[k] = completed[k - Len(drained)]
        BY <2>1, <3>2
      <4>2. i - Len(drained) = k - Len(drained)
        BY <1>1, <2>1, <2>4, <3>2, <4>1 DEF NotedOnce
      <4>. QED
        BY <2>1, <4>2
    <3>3. ASSUME NEW m \in DOMAIN drained, NEW n \in DOMAIN drained' \ DOMAIN drained
          PROVE  drained'[m].job # drained'[n].job
      <4>1. /\ drained'[m] = drained[m]
            /\ n - Len(drained) \in DOMAIN completed
            /\ drained'[n] = completed[n - Len(drained)]
        BY <2>1, <3>3
      <4>2. drained[m].job \in Jobs
        <5>1. drained[m] \in Note
          BY <1>1, <2>1, <3>3 DEF TypeOK
        <5>. QED
          BY <5>1 DEF Note
      <4>. QED
        BY <1>1, <4>1, <4>2 DEF NotedOnce, Queued, Read
    <3>. QED
      BY <2>4, <3>1, <3>2, <3>3
  <2>5. NotedOnce'
    BY <2>1, <2>2, <2>4 DEF NotedOnce
  <2>. QED
    BY <2>3, <2>5
<1>16. CASE CloseCancel
  BY <1>1, <1>16, NotesUnchanged DEF CloseCancel, NotePc, RecordedPc, TypeOK,
       jobVars, noteVars
<1>17. CASE CloseReturn
  BY <1>1, <1>17, NotesUnchanged DEF CloseReturn, NotePc, RecordedPc, TypeOK,
       jobVars, noteVars
<1>18. CASE UNCHANGED vars
  BY <1>1, <1>18, NotesUnchanged DEF vars, NotePc, RecordedPc, TypeOK,
       jobVars, noteVars
<1>. QED
  BY StepCases, <1>2, <1>3, <1>4, <1>5, <1>6, <1>7, <1>8, <1>9, <1>10, <1>11,
       <1>12, <1>13, <1>14, <1>15, <1>16, <1>17, <1>18

(* IInv is an invariant of the specification.                             *)
THEOREM JobsInvariant == Spec => []IInv
<1>1. Init => IInv
  BY JobBounds DEF Init, IInv, TypeOK, NotePc, NotedOnce, StatusPc, OutputPc,
       RecordedPc, Noted, Queued, Read, Jobs, Terminal, Note
<1>2. IInv /\ [Next]_vars => IInv'
  BY TypeStep, OutputStep, StatusStep, NoteStep DEF IInv
<1>. QED
  BY <1>1, <1>2, PTL DEF Spec

(* Every variable keeps its type, for any number of jobs (jobs.go:91-342). *)
THEOREM JobsTypeCorrect == Spec => []TypeOK
BY JobsInvariant, PTL DEF IInv

(* A job seen done or failed, or whose j.done is closed, has its note:     *)
(* recordCompletion comes before the status is published (jobs.go:143).    *)
THEOREM JobsSettledIsNoted == Spec => []SettledIsNoted
<1>1. IInv => SettledIsNoted
  BY DEF IInv, NotePc, StatusPc, RecordedPc, SettledIsNoted
<1>. QED
  BY <1>1, JobsInvariant, PTL

(* No job is announced twice, neither by two notes nor after a drain.      *)
THEOREM JobsNotedOnce == Spec => []NotedOnce
BY JobsInvariant, PTL DEF IInv

(* bash_output surfaces a job's result after all of its streamed output.   *)
THEOREM JobsResultIsLast == Spec => []ResultIsLast
<1>1. IInv => ResultIsLast
  BY DEF IInv, OutputPc, ResultIsLast
<1>. QED
  BY <1>1, JobsInvariant, PTL

(* A job's terminal status is never rewritten, by its goroutine or a Kill. *)
THEOREM JobsStatusIsFinal == Spec => StatusIsFinal
<1>1. IInv /\ [Next]_vars
      => [\A j \in Jobs : status[j] \in Terminal => status'[j] = status[j]]_vars
  <2>. SUFFICES ASSUME IInv, [Next]_vars, NEW j \in Jobs, status[j] \in Terminal
                PROVE  status'[j] = status[j]
    OBVIOUS
  <2>1. j <= seq
    BY DEF IInv, StatusPc, Terminal, TypeOK, Jobs
  <2>2. CASE Start
    BY <2>1, <2>2 DEF Start, IInv, TypeOK, Jobs
  <2>3. ASSUME NEW k \in Jobs, Publish(k) PROVE status'[j] = status[j]
    <3>1. j = k => status[j] = "killed"
      BY <2>3 DEF Publish, MayPublish, IInv, StatusPc, Terminal
    <3>. QED
      BY <2>3, <3>1 DEF Publish, FinalStatus, IInv, TypeOK
  <2>4. ASSUME NEW k \in Jobs, KillMark(k) PROVE status'[j] = status[j]
    BY <2>4 DEF KillMark, IInv, TypeOK, Terminal
  <2>. QED
    BY StepCases, <2>2, <2>3, <2>4 DEF Launch, Write, RunReturn,
         RecordCompletion, CloseDone, BashOutput, KillCancel, Wait, WaitReturn,
         WaitGiveUp, DrainCompletedNote, CloseCancel, CloseReturn, jobVars, vars
<1>. QED
  BY <1>1, JobsInvariant, PTL DEF Spec, StatusIsFinal

-----------------------------------------------------------------------------
(* A step that touches neither notes nor status is none of the contract's. *)
LEMMA ContractStutter ==
  ASSUME UNCHANGED <<status, completed, drained>>
  PROVE  UNCHANGED <<status, NoteView>>
<1>1. \A j \in Jobs : (Queued(j)' <=> Queued(j)) /\ (Read(j)' <=> Read(j))
  BY DEF Queued, Read
<1>. QED
  BY <1>1 DEF NoteView

(* Each action of the table is an action of the contract, or none of it.   *)
LEMMA ContractStep ==
  ASSUME IInv, [Next]_vars
  PROVE  [Contract!Next]_<<status, NoteView>>
<1>1. TypeOK /\ NotePc /\ NotedOnce /\ StatusPc
  BY DEF IInv
<1>2. CASE Start
  <2>1. seq + 1 \in Jobs
    BY <1>1, <1>2, JobBounds DEF Start, TypeOK, Jobs
  <2>2. status[seq + 1] = "absent"
    BY <1>1, <2>1 DEF StatusPc, TypeOK, Jobs
  <2>3. NoteView' = NoteView
    BY <1>2, NotesUnchanged DEF Start, noteVars, NoteView, Queued, Read
  <2>4. Contract!Begin(seq + 1)
    BY <1>2, <2>2, <2>3 DEF Start, Contract!Begin
  <2>. QED
    BY <2>1, <2>4 DEF Contract!Next
<1>3. ASSUME NEW j \in Jobs, KillMark(j) PROVE Contract!Next
  <2>1. NoteView' = NoteView
    BY <1>3 DEF KillMark, noteVars, NoteView, Queued, Read
  <2>2. Contract!Kill(j)
    BY <1>3, <2>1 DEF KillMark, Contract!Kill
  <2>. QED
    BY <2>2 DEF Contract!Next
<1>4. ASSUME NEW j \in Jobs, RecordCompletion(j) PROVE Contract!Next
  <2>1. status[j] \in {"running", "killed"}
    BY <1>1, <1>4 DEF RecordCompletion, StatusPc, TypeOK, Terminal
  <2>2. ~Queued(j) /\ ~Read(j)
    BY <1>1, <1>4 DEF RecordCompletion, NotePc, Noted, RecordedPc
  <2>3. \A k \in Jobs : /\ Queued(k)' <=> Queued(k) \/ k = j
                        /\ Read(k)' <=> Read(k)
    BY <1>1, <1>4, RecordNotes
  <2>4. NoteView[j] = "none"
    BY <2>2 DEF NoteView
  <2>5. NoteView' = [NoteView EXCEPT ![j] = "queued"]
    <3>1. \A k \in Jobs : NoteView'[k] = IF k = j THEN "queued" ELSE NoteView[k]
      BY <2>2, <2>3 DEF NoteView
    <3>. QED
      BY <1>4, <3>1 DEF NoteView
  <2>6. Contract!Announce(j)
    BY <1>4, <2>1, <2>4, <2>5 DEF RecordCompletion, Contract!Announce
  <2>. QED
    BY <2>6 DEF Contract!Next
<1>5. ASSUME NEW j \in Jobs, Publish(j)
      PROVE  Contract!Next \/ UNCHANGED <<status, NoteView>>
  <2>1. NoteView' = NoteView
    BY <1>5 DEF Publish, noteVars, NoteView, Queued, Read
  <2>2. Noted(j)
    BY <1>1, <1>5 DEF Publish, MayPublish, NotePc, RecordedPc
  <2>3. NoteView[j] # "none"
    BY <2>2 DEF NoteView, Noted
  <2>4. verdict[j] \in Terminal /\ status[j] \in {"running", "killed"}
    BY <1>1, <1>5 DEF Publish, MayPublish, StatusPc, RecordedPc, TypeOK, Terminal
  <2>5. status' = [status EXCEPT ![j] = FinalStatus(j)]
    BY <1>5 DEF Publish
  <2>6. CASE status[j] = "killed"
    BY <1>1, <2>1, <2>5, <2>6 DEF FinalStatus, TypeOK
  <2>7. CASE status[j] = "running" /\ verdict[j] = "killed"
    <3>1. Contract!Kill(j)
      BY <2>1, <2>5, <2>7 DEF FinalStatus, Contract!Kill
    <3>. QED
      BY <3>1 DEF Contract!Next
  <2>8. CASE status[j] = "running" /\ verdict[j] \in {"done", "failed"}
    <3>1. Contract!Settle(j, verdict[j])
      BY <2>1, <2>3, <2>5, <2>8 DEF FinalStatus, Contract!Settle
    <3>. QED
      BY <2>8, <3>1 DEF Contract!Next
  <2>. QED
    BY <2>4, <2>6, <2>7, <2>8 DEF Terminal
<1>6. CASE DrainCompletedNote
  <2>1. \A k \in Jobs : ~Queued(k)' /\ (Read(k)' <=> Read(k) \/ Queued(k))
    BY <1>1, <1>6, DrainNotes
  <2>2. NoteView' = [k \in Jobs |-> IF NoteView[k] = "queued" THEN "read"
                                    ELSE NoteView[k]]
    BY <2>1 DEF NoteView
  <2>3. Contract!ReadNotes
    BY <1>6, <2>2 DEF DrainCompletedNote, jobVars, Contract!ReadNotes
  <2>. QED
    BY <2>3 DEF Contract!Next
<1>. QED
  BY StepCases, <1>2, <1>3, <1>4, <1>5, <1>6, ContractStutter DEF Launch, Write,
     RunReturn, CloseDone, BashOutput, KillCancel, Wait, WaitReturn, WaitGiveUp,
     CloseCancel, CloseReturn, jobVars, noteVars, vars

(* The job table implements JobContract, for any number of jobs: a reader  *)
(* sees each job start, end once and be announced once, in that order      *)
(* unless it was killed (jobs.go:114-160).                                 *)
THEOREM JobsImplementContract == Spec => ImplementsContract
<1>1. Init => Contract!Init
  BY DEF Init, Contract!Init, NoteView, Queued, Read
<1>. QED
  BY <1>1, ContractStep, JobsInvariant, PTL DEF Spec, ImplementsContract,
     Contract!Spec

(* A job's end is announced before it can be seen, and once.               *)
THEOREM JobsAnnouncedOnce == Spec => []AnnouncedOnce
BY JobsSettledIsNoted, JobsNotedOnce, PTL DEF AnnouncedOnce

-----------------------------------------------------------------------------
(* The files.                                                              *)

Told == (1..MaxTurns) \X (0..MaxParts)

(***************************************************************************)
(* Types, and where the turn, the saves and the calls stand to each other. *)
(***************************************************************************)

TurnRec == [at : {"idle", "open", "count", "ask", "work", "saving"}, id : 0..MaxTurns,
            start : Nat, parts : 0..MaxParts + 1, folded : BOOLEAN]
SaveRec == [at : {"idle", "asked", "located", "copied"}, path : 0..MaxPaths, list : Messages]
CompactRec == [at : {"idle", "summarizing", "saving"}, list : Messages]
CallRec == [op : Ops \cup {"none"}, path : 0..MaxPaths, list : Messages,
            at : {"idle", "remove", "save", "load", "swap", "copy", "adopt", "bind"}]

HereTypes ==
  /\ running \in BOOLEAN /\ minted \in 0..MaxPaths /\ path \in 0..minted
  /\ list \in Messages /\ turn \in TurnRec

DiskTypes ==
  /\ file \in [Paths -> [saved : BOOLEAN, list : Messages]]
  /\ saver \in [Savers -> SaveRec]

CallTypes == compact \in CompactRec /\ front \in CallRec

PastTypes ==
  /\ born \in [Paths -> SUBSET Told]
  /\ home \in [1..MaxTurns -> 0..MaxPaths]
  /\ finished \subseteq 1..MaxTurns /\ cleared \subseteq Paths

Types == HereTypes /\ DiskTypes /\ CallTypes /\ PastTypes

Control ==
  /\ running <=> turn.at # "idle"
  /\ turn.at # "idle" => turn.id >= 1 /\ turn.id \notin finished
  /\ turn.at \in {"idle", "open", "count"} => turn.parts = 0 /\ ~turn.folded
  /\ turn.at \in {"count", "ask", "work", "saving"} => path # NoPath
  /\ \A t \in finished : t <= turn.id
  /\ ~Idle("turn") => turn.at = "saving"
  /\ ~Idle("compact") => compact.at = "saving"
  /\ ~Idle("front") => front.at = "save"

Calls ==
  /\ front.at = "idle" => front.op = "none"
  /\ front.at = "remove" => front.op = "clear"
  /\ front.at = "swap" => front.op \in {"new", "clear"}
  /\ front.at = "copy" => front.op = "branch"
  /\ front.at = "load" => front.op \in {"switch", "resume", "reload"}
  /\ front.at = "save" => front.op \in {"new", "branch", "switch", "resume", "reload"}
  /\ front.at \in {"adopt", "bind"} => front.op \in {"branch", "switch", "resume", "reload"}

\* The call has read or written the conversation it will adopt.
Holding == front.at \in {"adopt", "bind"} \/ (front.at = "save" /\ front.op = "reload")

Names ==
  /\ \A s \in Savers : saver[s].at \in {"located", "copied"} => saver[s].path \in 1..minted
  /\ front.path <= minted /\ (Holding => front.path \in 1..minted)
  /\ \A p \in Paths : p > minted => file[p] = NoFile /\ born[p] = {} /\ p \notin cleared
  /\ \A t \in 1..MaxTurns : home[t] <= minted

Standing == Types /\ Control /\ Calls /\ Names

-----------------------------------------------------------------------------
(* What messages tell.                                                     *)

LEMMA Bounds ==
  /\ MaxPaths \in Nat /\ MaxTurns \in Nat /\ MaxParts \in Nat
  /\ Ops \subseteq Switches \cup {"resume", "reload"}
BY SessionBounds

LEMMA TellsOf ==
  ASSUME NEW ms, NEW a
  PROVE  a \in Tells(ms) <=> \E i \in DOMAIN ms : a \in ms[i]
BY DEF Tells, Range

LEMMA TellsNothing == Tells(<<>>) = {} /\ <<>> \in Messages
<1>1. <<>> \in Messages
  BY DEF Messages
<1>2. \A a : a \notin Tells(<<>>)
  BY TellsOf
<1>. QED
  BY <1>1, <1>2

LEMMA TellsTold ==
  ASSUME NEW ms \in Messages
  PROVE  Tells(ms) \subseteq Told
<1>1. \A i \in DOMAIN ms : ms[i] \in SUBSET Told
  BY DEF Messages, Told
<1>. QED
  BY <1>1, TellsOf

LEMMA TellsMore ==
  ASSUME NEW ms \in Messages, NEW a \in Told
  PROVE  /\ Append(ms, {a}) \in Messages
         /\ Tells(Append(ms, {a})) = Tells(ms) \cup {a}
         /\ Len(Append(ms, {a})) = Len(ms) + 1 /\ Append(ms, {a}) # <<>>
<1> DEFINE us == Append(ms, {a})
<1>1. ms \in Seq(SUBSET Told) /\ {a} \in SUBSET Told
  BY DEF Messages, Told
<1>2. us \in Seq(SUBSET Told) /\ Len(us) = Len(ms) + 1
  BY <1>1
<1>3. /\ DOMAIN us = DOMAIN ms \cup {Len(ms) + 1} /\ us[Len(ms) + 1] = {a}
      /\ \A k \in DOMAIN ms : us[k] = ms[k]
  BY <1>1
<1> HIDE DEF us
<1>4. \A b : b \in Tells(us) <=> b \in Tells(ms) \cup {a}
  BY <1>3, TellsOf
<1>5. us \in Messages
  BY <1>2 DEF Messages, Told
<1>6. us # <<>>
  BY <1>3
<1>. QED
  BY <1>2, <1>4, <1>5, <1>6 DEF us

(* A fold tells what it replaces.                                          *)
LEMMA FoldTells ==
  ASSUME NEW ms \in Messages, NEW fs \in Folds(ms)
  PROVE  fs \in Messages /\ Tells(fs) = Tells(ms) /\ fs # <<>> /\ ms # <<>>
<1>0. ms \in Seq(SUBSET Told) /\ Len(ms) \in Nat /\ DOMAIN ms = 1..Len(ms)
  BY DEF Messages, Told
<1>1. PICK k \in 2..(Len(ms) - 1) :
        fs = <<Tells(SubSeq(ms, 1, k))>> \o SubSeq(ms, k + 1, Len(ms))
  BY DEF Folds
<1> DEFINE front1 == SubSeq(ms, 1, k)
           back  == SubSeq(ms, k + 1, Len(ms))
<1>2. /\ front1 \in Seq(SUBSET Told) /\ Len(front1) = k
      /\ \A i \in 1..k : front1[i] = ms[i]
  <2>1. \A i \in 1..k : ms[i] \in SUBSET Told
    BY <1>0
  <2>2. 1 \in Int /\ k \in Int /\ 1 <= k
    BY <1>0
  <2>. QED
    BY <2>1, <2>2, SubSeqProperties
<1>3. /\ back \in Seq(SUBSET Told) /\ Len(back) = Len(ms) - k
      /\ \A i \in 1..Len(ms) - k : back[i] = ms[k + i]
  <2>1. \A i \in k + 1..Len(ms) : ms[i] \in SUBSET Told
    BY <1>0
  <2>2. k + 1 \in Int /\ Len(ms) \in Int /\ k + 1 <= Len(ms)
    BY <1>0
  <2>. QED
    BY <1>0, <2>1, <2>2, SubSeqProperties
<1> HIDE DEF front1, back
<1>4. Tells(front1) \subseteq Told
  BY <1>2, TellsTold DEF Messages, Told
<1>5. <<Tells(front1)>> \in Seq(SUBSET Told)
  BY <1>4
<1>6. fs = <<Tells(front1)>> \o back
  BY <1>1 DEF front1, back
<1>7. /\ fs \in Seq(SUBSET Told) /\ Len(fs) = Len(back) + 1 /\ DOMAIN fs = 1..Len(back) + 1
      /\ fs[1] = Tells(front1) /\ \A i \in 1..Len(back) : fs[i + 1] = back[i]
  <2> DEFINE one == <<Tells(front1)>>
  <2>1. one \in Seq(SUBSET Told) /\ Len(one) = 1 /\ one[1] = Tells(front1)
    BY <1>5
  <2>2. fs = one \o back
    BY <1>6
  <2> HIDE DEF one
  <2>3. /\ one \o back \in Seq(SUBSET Told) /\ Len(one \o back) = Len(one) + Len(back)
        /\ \A i \in 1..Len(one) + Len(back) :
             (one \o back)[i] = IF i <= Len(one) THEN one[i] ELSE back[i - Len(one)]
    BY <1>3, <2>1, ConcatProperties
  <2>4. Len(back) \in Nat
    BY <1>3
  <2>5. \A i \in 1..Len(back) : i + 1 \in 1..1 + Len(back) /\ ~(i + 1 <= 1) /\ (i + 1) - 1 = i
    BY <2>4
  <2>6. \A i \in 1..Len(back) : fs[i + 1] = back[i]
    BY <2>1, <2>2, <2>3, <2>5
  <2>7. fs[1] = Tells(front1)
    BY <2>1, <2>2, <2>3, <2>4
  <2>. QED
    BY <2>1, <2>2, <2>3, <2>4, <2>6, <2>7
<1>8. ASSUME NEW a PROVE a \in Tells(fs) <=> a \in Tells(ms)
  <2>1. ASSUME a \in Tells(fs) PROVE a \in Tells(ms)
    <3>1. PICK i \in 1..Len(back) + 1 : a \in fs[i]
      BY <1>7, <2>1, TellsOf
    <3>2. CASE i = 1
      <4>1. PICK j \in DOMAIN front1 : a \in front1[j]
        BY <1>7, <3>1, <3>2, TellsOf
      <4>2. j \in 1..k /\ j \in DOMAIN ms
        BY <1>0, <1>2, <4>1
      <4>. QED
        BY <1>2, <4>1, <4>2, TellsOf
    <3>3. CASE i # 1
      <4>1. i - 1 \in 1..Len(back) /\ (i - 1) + 1 = i
        BY <1>3, <3>1, <3>3, <1>0
      <4>2. a \in back[i - 1]
        BY <1>7, <3>1, <4>1
      <4>3. k + (i - 1) \in DOMAIN ms /\ back[i - 1] = ms[k + (i - 1)]
        BY <1>0, <1>3, <4>1
      <4>. QED
        BY <4>2, <4>3, TellsOf
    <3>. QED
      BY <3>2, <3>3
  <2>2. ASSUME a \in Tells(ms) PROVE a \in Tells(fs)
    <3>1. PICK i \in 1..Len(ms) : a \in ms[i]
      BY <1>0, <2>2, TellsOf
    <3>2. CASE i <= k
      <4>1. i \in DOMAIN front1 /\ a \in front1[i]
        BY <1>0, <1>2, <3>1, <3>2
      <4>2. a \in fs[1] /\ 1 \in DOMAIN fs
        BY <1>0, <1>3, <1>7, <4>1, TellsOf
      <4>. QED
        BY <4>2, TellsOf
    <3>3. CASE i > k
      <4>1. i - k \in 1..Len(back) /\ k + (i - k) = i /\ i - k \in 1..Len(ms) - k
        BY <1>0, <1>3, <3>1, <3>3
      <4>2. a \in back[i - k]
        BY <1>3, <3>1, <4>1
      <4>3. fs[(i - k) + 1] = back[i - k]
        BY <1>7, <4>1
      <4>4. (i - k) + 1 \in DOMAIN fs
        BY <1>3, <1>7, <4>1
      <4>. QED
        BY <4>2, <4>3, <4>4, TellsOf
    <3>. QED
      BY <1>0, <3>1, <3>2, <3>3
  <2>. QED
    BY <2>1, <2>2
<1>9. fs \in Messages
  BY <1>7 DEF Messages, Told
<1>10. fs # <<>> /\ ms # <<>>
  <2>1. 1 \in DOMAIN fs /\ 1 \in DOMAIN ms
    BY <1>0, <1>1, <1>3, <1>7
  <2>. QED
    BY <2>1
<1>. QED
  BY <1>8, <1>9, <1>10

-----------------------------------------------------------------------------
(* Types.                                                                  *)

LEMMA SessionSteps ==
  ASSUME SessionNext
  PROVE  \/ \E s \in Savers : ReadPath(s) \/ CopyMessages(s) \/ ReplaceFile(s)
         \/ AutosaveTick
         \/ TurnBegin \/ TurnOpen \/ TurnCount \/ TurnAdd \/ TurnFold \/ TurnEnd \/ TurnOver
         \/ CompactBegin \/ CompactReplace \/ CompactFail \/ CompactOver
         \/ \E op \in Ops : FrontCall(op)
         \/ FrontRemove \/ FrontSaved \/ FrontSwap \/ FrontCopy
         \/ \E p \in Paths : FrontLoad(p)
         \/ FrontGiveUp \/ FrontAdopt \/ FrontBind
         \/ Crash
BY DEF SessionNext, Save, Turn, Compact, Frontend

LEMMA Minted ==
  ASSUME minted \in 0..MaxPaths, Mint
  PROVE  minted' \in 1..MaxPaths /\ minted' = minted + 1 /\ minted' \in Paths
BY Bounds DEF Mint, Paths

LEMMA TypesStep ==
  ASSUME Standing, SessionNext
  PROVE  Types'
<1> USE Bounds, TellsNothing DEF NoPath, FrontFrame, diskVars, pastVars
<1>0. /\ minted \in 0..MaxPaths /\ path \in 0..minted /\ path \in 0..MaxPaths
      /\ list \in Messages /\ compact.list \in Messages /\ front.list \in Messages
      /\ \A s \in Savers : saver[s].list \in Messages
      /\ \A p \in Paths : file[p].list \in Messages
      /\ turn \in TurnRec /\ saver \in [Savers -> SaveRec] /\ compact \in CompactRec
      /\ front \in CallRec /\ Types
  BY DEF Standing, Types, HereTypes, DiskTypes, CallTypes, SaveRec, CompactRec, CallRec
<1>1. Quiet \in SaveRec /\ NoTurn \in TurnRec /\ NoCall \in CallRec
  BY DEF Quiet, NoTurn, NoCall, SaveRec, TurnRec, CallRec
<1>2. \A s \in Savers : Ask(s) => saver' \in [Savers -> SaveRec]
  BY <1>0 DEF Ask, SaveRec
<1>3. \A id \in 0..MaxTurns : [NoTurn EXCEPT !.id = id] \in TurnRec
  BY <1>1 DEF TurnRec
<1>5. ASSUME NEW s \in Savers, ReadPath(s) PROVE Types'
  <2>1. saver' \in [Savers -> SaveRec]
    BY <1>0, <1>1, <1>5 DEF ReadPath, SaveRec
  <2>. QED
    BY <1>0, <1>5, <2>1 DEF ReadPath, Types, HereTypes, DiskTypes, CallTypes, PastTypes
<1>6. ASSUME NEW s \in Savers, CopyMessages(s) PROVE Types'
  <2>1. saver' \in [Savers -> SaveRec]
    BY <1>0, <1>1, <1>6 DEF CopyMessages, SaveRec
  <2>. QED
    BY <1>0, <1>6, <2>1 DEF CopyMessages, Types, HereTypes, DiskTypes, CallTypes, PastTypes
<1>7. ASSUME NEW s \in Savers, ReplaceFile(s) PROVE Types'
  BY <1>0, <1>1, <1>7 DEF ReplaceFile, Types, HereTypes, DiskTypes, CallTypes, PastTypes
<1>8. CASE AutosaveTick
  BY <1>0, <1>2, <1>8 DEF AutosaveTick, Savers, Types, HereTypes, DiskTypes, CallTypes,
     PastTypes
<1>9. CASE TurnBegin
  <2>1. turn.id + 1 \in 0..MaxTurns
    BY <1>0, <1>9 DEF TurnBegin, TurnRec
  <2>2. turn' \in TurnRec
    BY <1>3, <1>9, <2>1 DEF TurnBegin, TurnRec, NoTurn
  <2>. QED
    BY <1>0, <1>9, <2>2 DEF TurnBegin, Types, HereTypes, DiskTypes, CallTypes, PastTypes
<1>10. CASE TurnOpen
  <2>1. minted' \in 0..MaxPaths /\ path' \in 0..minted'
    BY <1>0, <1>10, Minted DEF TurnOpen
  <2>2. turn' \in TurnRec
    BY <1>0, <1>10 DEF TurnOpen, TurnRec
  <2>. QED
    BY <1>0, <1>10, <2>1, <2>2 DEF TurnOpen, Types, HereTypes, DiskTypes, CallTypes, PastTypes
<1>11. CASE TurnCount
  <2>1. Len(list) \in Nat
    BY <1>0 DEF Messages
  <2>2. turn' \in TurnRec
    BY <1>0, <1>11, <2>1 DEF TurnCount, TurnRec
  <2>. QED
    BY <1>0, <1>11, <2>2 DEF TurnCount, Types, HereTypes, DiskTypes, CallTypes, PastTypes
<1>12. CASE TurnAdd
  <2>1. turn.parts \in 0..MaxParts /\ turn.parts + 1 \in 0..MaxParts + 1
        /\ turn.id \in 1..MaxTurns
    BY <1>0, <1>12 DEF TurnAdd, TurnRec, Standing, Control
  <2>2. turn' \in TurnRec
    BY <1>0, <1>12, <2>1 DEF TurnAdd, TurnRec
  <2>3. <<turn.id, turn.parts>> \in Told
    BY <2>1 DEF Told
  <2>4. list' \in Messages
    BY <1>0, <1>12, <2>3, TellsMore DEF TurnAdd
  <2>5. born' \in [Paths -> SUBSET Told]
    BY <1>0, <1>12, <2>3 DEF TurnAdd, Types, PastTypes
  <2>. QED
    BY <1>0, <1>12, <2>2, <2>4, <2>5 DEF TurnAdd, Types, HereTypes, DiskTypes, CallTypes,
       PastTypes
<1>13. CASE TurnFold
  <2>1. list' \in Messages
    BY <1>0, <1>13, FoldTells DEF TurnFold
  <2>2. turn' \in TurnRec
    BY <1>0, <1>13 DEF TurnFold, TurnRec
  <2>. QED
    BY <1>0, <1>13, <2>1, <2>2 DEF TurnFold, Types, HereTypes, DiskTypes, CallTypes, PastTypes
<1>14. CASE TurnEnd
  <2>1. DiskTypes'
    BY <1>0, <1>2, <1>14 DEF TurnEnd, Savers, Types, DiskTypes
  <2>2. turn' \in TurnRec
    BY <1>0, <1>14 DEF TurnEnd, TurnRec
  <2>. QED
    BY <1>0, <1>14, <2>1, <2>2 DEF TurnEnd, Types, HereTypes, CallTypes, PastTypes
<1>15. CASE TurnOver
  <2>1. turn.id \in 1..MaxTurns
    BY <1>0, <1>15 DEF TurnOver, TurnRec, Standing, Control
  <2>2. turn' \in TurnRec
    BY <1>3, <1>15, <2>1 DEF TurnOver
  <2>. QED
    BY <1>0, <1>15, <2>1, <2>2 DEF TurnOver, Types, HereTypes, DiskTypes, CallTypes, PastTypes
<1>16. CASE CompactBegin \/ CompactFail \/ CompactOver
  <2>1. compact' \in CompactRec
    BY <1>0, <1>16 DEF CompactBegin, CompactFail, CompactOver, CompactRec
  <2>. QED
    BY <1>0, <1>16, <2>1
    DEF CompactBegin, CompactFail, CompactOver, Types, HereTypes, DiskTypes, CallTypes, PastTypes
<1>17. CASE CompactReplace
  <2>1. list' \in Messages
    BY <1>0, <1>17, FoldTells DEF CompactReplace
  <2>2. DiskTypes'
    BY <1>0, <1>2, <1>17 DEF CompactReplace, Savers, Types, DiskTypes
  <2>3. compact' \in CompactRec
    BY <1>0, <1>17 DEF CompactReplace, CompactRec
  <2>. QED
    BY <1>0, <1>17, <2>1, <2>2, <2>3 DEF CompactReplace, Types, HereTypes, CallTypes, PastTypes
<1>18. ASSUME NEW op \in Ops, FrontCall(op) PROVE Types'
  <2>1. DiskTypes'
    BY <1>0, <1>2, <1>18 DEF FrontCall, Savers, Types, DiskTypes
  <2>2. front' \in CallRec
    BY <1>0, <1>1, <1>18 DEF FrontCall, CallRec
  <2>. QED
    BY <1>0, <1>18, <2>1, <2>2 DEF FrontCall, Types, HereTypes, CallTypes, PastTypes
<1>19. CASE FrontRemove
  <2>1. front' \in CallRec
    BY <1>0, <1>19 DEF FrontRemove, CallRec
  <2>2. file' \in [Paths -> [saved : BOOLEAN, list : Messages]]
    BY <1>0, <1>19 DEF FrontRemove, NoFile, Types, DiskTypes
  <2>3. cleared' \subseteq Paths
    BY <1>0, <1>19 DEF FrontRemove, Paths, CallRec, Types, PastTypes
  <2>. QED
    BY <1>0, <1>19, <2>1, <2>2, <2>3 DEF FrontRemove, Types, HereTypes, DiskTypes, CallTypes,
       PastTypes
<1>20. CASE FrontSaved
  <2>1. front.op \in {"new", "branch", "switch", "resume", "reload"}
    BY <1>20 DEF FrontSaved, Standing, Calls
  <2>2. front' \in CallRec
    BY <1>0, <1>20, <2>1 DEF FrontSaved, CallRec
  <2>. QED
    BY <1>0, <1>20, <2>2 DEF FrontSaved, Types, HereTypes, DiskTypes, CallTypes, PastTypes
<1>21. CASE FrontSwap
  <2>1. minted' \in 0..MaxPaths /\ path' \in 0..minted'
    BY <1>0, <1>21, Minted DEF FrontSwap, FreshFile
  <2>. QED
    BY <1>0, <1>1, <1>21, <2>1 DEF FrontSwap, Types, HereTypes, DiskTypes, CallTypes, PastTypes
<1>22. CASE FrontCopy
  <2>1. minted' \in 0..MaxPaths /\ minted' \in Paths /\ path \in 0..minted'
    BY <1>0, <1>22, Minted DEF FrontCopy
  <2>2. Tells(list) \subseteq Told
    BY <1>0, TellsTold
  <2>3. front' \in CallRec
    BY <1>0, <1>22, <2>1 DEF FrontCopy, CallRec
  <2>4. file' \in [Paths -> [saved : BOOLEAN, list : Messages]]
    BY <1>0, <1>22 DEF FrontCopy, Types, DiskTypes
  <2>5. born' \in [Paths -> SUBSET Told]
    BY <1>0, <1>22, <2>2 DEF FrontCopy, Types, PastTypes
  <2>. QED
    BY <1>0, <1>22, <2>1, <2>3, <2>4, <2>5
    DEF FrontCopy, Types, HereTypes, DiskTypes, CallTypes, PastTypes
<1>23. ASSUME NEW p \in Paths, FrontLoad(p) PROVE Types'
  <2>1. DiskTypes'
    BY <1>0, <1>2, <1>23 DEF FrontLoad, Savers, Types, DiskTypes
  <2>2. p \in 0..MaxPaths /\ file[p].list \in Messages
    BY <1>0 DEF Paths
  <2>3. front' \in CallRec
    BY <1>0, <1>23, <2>2 DEF FrontLoad, CallRec
  <2>. QED
    BY <1>0, <1>23, <2>1, <2>3 DEF FrontLoad, Types, HereTypes, CallTypes, PastTypes
<1>24. CASE FrontGiveUp
  BY <1>0, <1>1, <1>24 DEF FrontGiveUp, Types, HereTypes, DiskTypes, CallTypes, PastTypes
<1>25. CASE FrontAdopt
  <2>1. front' \in CallRec
    BY <1>0, <1>25 DEF FrontAdopt, CallRec
  <2>. QED
    BY <1>0, <1>25, <2>1 DEF FrontAdopt, Types, HereTypes, DiskTypes, CallTypes, PastTypes
<1>26. CASE FrontBind
  <2>1. front.path \in 0..minted
    BY <1>0, <1>26 DEF FrontBind, Standing, Names, Holding
  <2>. QED
    BY <1>0, <1>1, <1>26, <2>1
    DEF FrontBind, ItsPath, Types, HereTypes, DiskTypes, CallTypes, PastTypes
<1>27. CASE Crash
  <2>1. \A p \in Paths : Tells(file[p].list) \subseteq Told
    BY <1>0, TellsTold
  <2>2. turn' \in TurnRec
    BY <1>0, <1>3, <1>27 DEF Crash, TurnRec
  <2>3. DiskTypes' /\ CallTypes'
    BY <1>0, <1>1, <1>27 DEF Crash, Types, DiskTypes, CallTypes, CompactRec
  <2>4. born' \in [Paths -> SUBSET Told]
    BY <1>27, <2>1 DEF Crash
  <2>5. HereTypes'
    <3>1. path' = 0 /\ list' = <<>> /\ minted' = minted
      BY <1>27 DEF Crash
    <3>2. running' \in BOOLEAN
      BY <1>27 DEF Crash
    <3>3. path' \in 0..minted' /\ minted' \in 0..MaxPaths /\ list' \in Messages
      BY <1>0, <3>1
    <3>. QED
      BY <2>2, <3>2, <3>3 DEF HereTypes
  <2>6. PastTypes'
    BY <1>0, <1>27, <2>4 DEF Crash, Types, PastTypes
  <2>. QED
    BY <2>3, <2>5, <2>6 DEF Types
<1>. QED
  BY SessionSteps, <1>5, <1>6, <1>7, <1>8, <1>9, <1>10, <1>11, <1>12, <1>13, <1>14, <1>15,
     <1>16,
     <1>17, <1>18, <1>19, <1>20, <1>21, <1>22, <1>23, <1>24, <1>25, <1>26, <1>27

-----------------------------------------------------------------------------
(* Where the turn, the saves and the calls stand.                          *)

LEMMA StandingTypes ==
  ASSUME Standing
  PROVE  /\ running \in BOOLEAN /\ minted \in 0..MaxPaths /\ path \in 0..minted /\ list \in Messages
         /\ turn \in TurnRec /\ saver \in [Savers -> SaveRec] /\ compact \in CompactRec
         /\ front \in CallRec /\ file \in [Paths -> [saved : BOOLEAN, list : Messages]]
         /\ born \in [Paths -> SUBSET Told] /\ home \in [1..MaxTurns -> 0..MaxPaths]
         /\ finished \subseteq 1..MaxTurns /\ cleared \subseteq Paths
         /\ "turn" \in Savers /\ "autosave" \in Savers /\ "compact" \in Savers /\ "front" \in Savers
BY DEF Standing, Types, HereTypes, DiskTypes, CallTypes, PastTypes, Savers

LEMMA ControlStep ==
  ASSUME Standing, SessionNext
  PROVE  Control'
<1> USE StandingTypes DEF FrontFrame, diskVars, pastVars, Standing
<1>0. \A s \in Savers, r \in Savers : Ask(s) => saver'[r].at = IF r = s THEN "asked" ELSE saver[r].at
  BY DEF Ask, SaveRec
<1>1. ASSUME NEW s \in Savers, ReadPath(s) PROVE Control'
  <2>1. \A r \in Savers : saver'[r].at # "idle" => saver[r].at # "idle"
    BY <1>1 DEF ReadPath, Quiet
  <2>. QED
    BY <1>1, <2>1 DEF ReadPath, Control, Idle
<1>2. ASSUME NEW s \in Savers, CopyMessages(s) PROVE Control'
  <2>1. \A r \in Savers : saver'[r].at # "idle" => saver[r].at # "idle"
    BY <1>2 DEF CopyMessages, Quiet
  <2>. QED
    BY <1>2, <2>1 DEF CopyMessages, Control, Idle
<1>3. ASSUME NEW s \in Savers, ReplaceFile(s) PROVE Control'
  <2>1. \A r \in Savers : saver'[r].at # "idle" => saver[r].at # "idle"
    BY <1>3 DEF ReplaceFile, Quiet
  <2>. QED
    BY <1>3, <2>1 DEF ReplaceFile, Control, Idle
<1>4. CASE AutosaveTick
  BY <1>0, <1>4 DEF AutosaveTick, Control, Idle
<1>5. CASE TurnBegin
  BY <1>5 DEF TurnBegin, NoTurn, TurnRec, Control, Idle
<1>6. CASE TurnOpen
  <2>1. path' # NoPath
    BY <1>6, Minted DEF TurnOpen, NoPath, Paths
  <2>. QED
    BY <1>6, <2>1 DEF TurnOpen, TurnRec, Control, Idle
<1>7. CASE TurnCount
  BY <1>7 DEF TurnCount, TurnRec, Control, Idle
<1>8. CASE TurnAdd
  BY <1>8 DEF TurnAdd, TurnRec, Control, Idle
<1>9. CASE TurnFold
  BY <1>9 DEF TurnFold, TurnRec, Control, Idle
<1>10. CASE TurnEnd
  BY <1>0, <1>10 DEF TurnEnd, TurnRec, Control, Idle
<1>11. CASE TurnOver
  BY <1>11 DEF TurnOver, NoTurn, TurnRec, Control, Idle
<1>12. CASE CompactBegin \/ CompactFail \/ CompactOver
  BY <1>12 DEF CompactBegin, CompactFail, CompactOver, Control, Idle
<1>13. CASE CompactReplace
  BY <1>0, <1>13 DEF CompactReplace, Control, Idle
<1>14. ASSUME NEW op \in Ops, FrontCall(op) PROVE Control'
  <2>1. front'.at = "save" \/ \A s \in Savers : saver'[s] = saver[s]
    BY <1>14 DEF FrontCall, NoCall
  <2>2. /\ \A s \in Savers \ {"front"} : saver'[s].at = saver[s].at
        /\ saver'["front"].at # "idle" => front'.at = "save"
    BY <1>0, <1>14, <2>1 DEF FrontCall, Control, Idle
  <2>. QED
    BY <1>14, <2>2 DEF FrontCall, Control, Idle
<1>15. CASE FrontRemove \/ FrontSaved
  BY <1>15 DEF FrontRemove, FrontSaved, SaveThrough, CallRec, Control, Idle
<1>16. CASE FrontSwap
  <2>1. path' # NoPath
    BY <1>16, Minted DEF FrontSwap, FreshFile, NoPath, Paths
  <2>. QED
    BY <1>16, <2>1 DEF FrontSwap, NoCall, CallRec, Control, Idle
<1>17. CASE FrontCopy
  BY <1>17 DEF FrontCopy, CallRec, Control, Idle
<1>18. ASSUME NEW p \in Paths, FrontLoad(p) PROVE Control'
  <2>2. /\ \A s \in Savers \ {"front"} : saver'[s].at = saver[s].at
        /\ saver'["front"].at # "idle" => front'.at = "save"
    BY <1>0, <1>18 DEF FrontLoad, CallRec, Control, Idle
  <2>. QED
    BY <1>18, <2>2 DEF FrontLoad, Control, Idle
<1>19. CASE FrontGiveUp \/ FrontAdopt
  BY <1>19 DEF FrontGiveUp, FrontAdopt, CallRec, NoCall, Control, Idle
<1>20. CASE FrontBind
  <2>1. path' # NoPath
    BY <1>20, Bounds DEF FrontBind, ItsPath, NoPath, Names, Holding
  <2>. QED
    BY <1>20, <2>1 DEF FrontBind, NoCall, Control, Idle
<1>21. CASE Crash
  BY <1>21 DEF Crash, NoTurn, NoCall, Quiet, TurnRec, Control, Idle
<1>. QED
  BY SessionSteps, <1>1, <1>2, <1>3, <1>4, <1>5, <1>6, <1>7, <1>8, <1>9, <1>10, <1>11, <1>12,
     <1>13,
     <1>14, <1>15, <1>16, <1>17, <1>18, <1>19, <1>20, <1>21

LEMMA CallsStep ==
  ASSUME Standing, SessionNext
  PROVE  Calls'
<1> USE StandingTypes, Bounds DEF Standing, CallRec
<1>1. front' = front \/ front' = NoCall => Calls'
  BY DEF Calls, NoCall
<1>2. ASSUME NEW op \in Ops, FrontCall(op) PROVE Calls'
  BY <1>2 DEF FrontCall, NoCall, Calls, Switches
<1>3. CASE FrontRemove \/ FrontSaved \/ FrontCopy \/ FrontAdopt
  BY ZenonT(30), <1>3 DEF FrontRemove, FrontSaved, FrontCopy, FrontAdopt, Calls
<1>4. ASSUME NEW p \in Paths, FrontLoad(p) PROVE Calls'
  BY <1>4 DEF FrontLoad, Calls
<1>5. CASE \/ \E s \in Savers : ReadPath(s) \/ CopyMessages(s) \/ ReplaceFile(s)
           \/ AutosaveTick
           \/ TurnBegin \/ TurnOpen \/ TurnCount \/ TurnAdd \/ TurnFold \/ TurnEnd \/ TurnOver
           \/ CompactBegin \/ CompactReplace \/ CompactFail \/ CompactOver
           \/ FrontSwap \/ FrontGiveUp \/ FrontBind \/ Crash
  BY <1>1, <1>5
  DEF ReadPath, CopyMessages, ReplaceFile, AutosaveTick, TurnBegin, TurnOpen, TurnCount, TurnAdd,
      TurnFold, TurnEnd, TurnOver, CompactBegin, CompactReplace, CompactFail, CompactOver,
      FrontSwap, FrontGiveUp, FrontBind, Crash
<1>. QED
  BY SessionSteps, <1>2, <1>3, <1>4, <1>5

LEMMA NamesStep ==
  ASSUME Standing, SessionNext
  PROVE  Names'
<1> USE StandingTypes, Bounds DEF FrontFrame, diskVars, pastVars, Standing, NoPath
<1> DEFINE NamedSaves == \A s \in Savers : saver[s].at \in {"located", "copied"} => saver[s].path \in 1..minted
           NamedCall == front.path <= minted /\ (Holding => front.path \in 1..minted)
           NamedFiles == \A p \in Paths : p > minted => file[p] = NoFile /\ born[p] = {} /\ p \notin cleared
           NamedTurns == \A t \in 1..MaxTurns : home[t] <= minted
<1>0. NamedSaves /\ NamedCall /\ NamedFiles /\ NamedTurns
  BY DEF Names
<1>1. (NamedSaves /\ NamedCall /\ NamedFiles /\ NamedTurns)' => Names'
  BY DEF Names
<1>2. minted' = minted \/ Mint => minted' \in Nat /\ minted \in Nat /\ minted <= minted' /\ 1..minted \subseteq 1..minted'
  BY DEF Mint
<1>3. ASSUME NEW s \in Savers, Ask(s) \/ saver' = saver, minted' = minted \/ Mint PROVE NamedSaves'
  <2>1. \A r \in Savers : saver'[r] = saver[r] \/ saver'[r].at = "asked"
    BY <1>3 DEF Ask, SaveRec
  <2>2. 1..minted \subseteq 1..minted'
    BY <1>2, <1>3
  <2>. QED
    BY <1>0, <2>1, <2>2
<1>4. ASSUME front' = front \/ front' = NoCall, minted' = minted \/ Mint PROVE NamedCall'
  <2>1. 1..minted \subseteq 1..minted' /\ minted' \in Nat /\ minted <= minted' /\ minted \in Nat
    BY <1>2, <1>4
  <2>2. CASE front' = front
    BY <1>0, <2>1, <2>2 DEF CallRec, Holding
  <2>3. CASE front' = NoCall
    BY <2>1, <2>3 DEF NoCall, Holding
  <2>. QED
    BY <1>4, <2>2, <2>3
<1>5. ASSUME file' = file, born' = born, cleared' = cleared, minted' = minted \/ Mint PROVE NamedFiles'
  BY <1>0, <1>2, <1>5 DEF Paths
<1>6. ASSUME home' = home, minted' = minted \/ Mint PROVE NamedTurns'
  BY <1>0, <1>2, <1>6
<1>7. ASSUME NEW s \in Savers, ReadPath(s) PROVE Names'
  <2>1. NamedSaves'
    BY <1>0, <1>7 DEF ReadPath, Quiet, Unnamed, SaveRec
  <2> HIDE DEF NamedSaves, NamedCall, NamedFiles, NamedTurns
  <2>. QED
    BY <1>1, <1>4, <1>5, <1>6, <1>7, <2>1 DEF ReadPath
<1>8. ASSUME NEW s \in Savers, CopyMessages(s) PROVE Names'
  <2>1. NamedSaves'
    BY <1>0, <1>8 DEF CopyMessages, Quiet, SaveRec
  <2> HIDE DEF NamedSaves, NamedCall, NamedFiles, NamedTurns
  <2>. QED
    BY <1>1, <1>4, <1>5, <1>6, <1>8, <2>1 DEF CopyMessages
<1>9. ASSUME NEW s \in Savers, ReplaceFile(s) PROVE Names'
  <2>1. NamedSaves'
    BY <1>0, <1>9 DEF ReplaceFile, Quiet, SaveRec
  <2>2. saver[s].path \in 1..minted
    BY <1>0, <1>9 DEF ReplaceFile
  <2>3. NamedFiles'
    BY <1>0, <1>9, <2>2 DEF ReplaceFile, Paths
  <2> HIDE DEF NamedSaves, NamedCall, NamedFiles, NamedTurns
  <2>. QED
    BY <1>1, <1>4, <1>6, <1>9, <2>1, <2>3 DEF ReplaceFile
<1>10. CASE \/ AutosaveTick \/ TurnBegin \/ TurnOpen \/ TurnFold \/ TurnEnd \/ TurnOver
            \/ CompactBegin \/ CompactReplace \/ CompactFail \/ CompactOver \/ FrontSwap \/ FrontGiveUp
            \/ FrontBind
  <2>1. minted' = minted \/ Mint
    BY <1>10 DEF AutosaveTick, TurnBegin, TurnOpen, TurnFold, TurnEnd, TurnOver, CompactBegin,
                 CompactReplace, CompactFail, CompactOver, FrontSwap, FreshFile, FrontGiveUp, FrontBind
  <2>2. file' = file /\ born' = born /\ cleared' = cleared /\ home' = home
    BY <1>10 DEF AutosaveTick, TurnBegin, TurnOpen, TurnFold, TurnEnd, TurnOver, CompactBegin,
                 CompactReplace, CompactFail, CompactOver, FrontSwap, FrontGiveUp, FrontBind
  <2>3. front' = front \/ front' = NoCall
    BY <1>10 DEF AutosaveTick, TurnBegin, TurnOpen, TurnFold, TurnEnd, TurnOver, CompactBegin,
                 CompactReplace, CompactFail, CompactOver, FrontSwap, FrontGiveUp, FrontBind
  <2>4. saver' = saver \/ \E s \in Savers : Ask(s)
    BY <1>10 DEF AutosaveTick, TurnBegin, TurnOpen, TurnFold, TurnEnd, TurnOver, CompactBegin,
                 CompactReplace, CompactFail, CompactOver, FrontSwap, FrontGiveUp, FrontBind
  <2> HIDE DEF NamedSaves, NamedCall, NamedFiles, NamedTurns
  <2>. QED
    BY <1>1, <1>3, <1>4, <1>5, <1>6, <2>1, <2>2, <2>3, <2>4
<1>11. CASE TurnCount
  <2>1. NamedTurns'
    BY <1>0, <1>11 DEF TurnCount, TurnRec
  <2> HIDE DEF NamedSaves, NamedCall, NamedFiles, NamedTurns
  <2>. QED
    BY <1>1, <1>3, <1>4, <1>5, <1>11, <2>1 DEF TurnCount
<1>12. CASE TurnAdd
  <2>1. path \in 1..minted
    BY <1>12 DEF TurnAdd, Control
  <2>2. NamedFiles'
    BY <1>0, <1>12, <2>1 DEF TurnAdd, Paths
  <2> HIDE DEF NamedSaves, NamedCall, NamedFiles, NamedTurns
  <2>. QED
    BY <1>1, <1>3, <1>4, <1>6, <1>12, <2>2 DEF TurnAdd
<1>13. ASSUME NEW op \in Ops, FrontCall(op) PROVE Names'
  <2>1. NamedCall'
    BY <1>13 DEF FrontCall, NoCall, Holding
  <2>2. saver' = saver \/ Ask("front")
    BY <1>13 DEF FrontCall
  <2> HIDE DEF NamedSaves, NamedCall, NamedFiles, NamedTurns
  <2>. QED
    BY <1>1, <1>3, <1>5, <1>6, <1>13, <2>1, <2>2 DEF FrontCall
<1>14. CASE FrontRemove
  <2>1. NamedCall'
    BY <1>0, <1>14 DEF FrontRemove, CallRec, Holding
  <2>2. \A p \in Paths : /\ file'[p] = file[p] \/ file'[p] = NoFile
                         /\ p \in cleared' => p \in cleared \/ p = front.path
    BY <1>14 DEF FrontRemove, NoFile
  <2>3. front.path <= minted
    BY <1>0
  <2>4. NamedFiles'
    BY <1>0, <1>14, <2>2, <2>3 DEF FrontRemove, CallRec, Paths
  <2> HIDE DEF NamedSaves, NamedCall, NamedFiles, NamedTurns
  <2>. QED
    BY <1>1, <1>3, <1>6, <1>14, <2>1, <2>4 DEF FrontRemove
<1>15. CASE FrontSaved
  <2>1. NamedCall'
    BY <1>0, <1>15 DEF FrontSaved, CallRec, Holding, Calls
  <2> HIDE DEF NamedSaves, NamedCall, NamedFiles, NamedTurns
  <2>. QED
    BY <1>1, <1>3, <1>5, <1>6, <1>15, <2>1 DEF FrontSaved
<1>16. CASE FrontCopy
  <2>0. minted' \in 1..minted' /\ Mint
    BY <1>16, Minted DEF FrontCopy
  <2>1. NamedCall'
    BY <1>16, <2>0 DEF FrontCopy, CallRec
  <2>2. NamedFiles'
    BY <1>0, <1>2, <1>16, <2>0 DEF FrontCopy, Paths
  <2> HIDE DEF NamedSaves, NamedCall, NamedFiles, NamedTurns
  <2>. QED
    BY <1>1, <1>3, <1>6, <1>16, <2>0, <2>1, <2>2 DEF FrontCopy
<1>17. ASSUME NEW p \in Paths, FrontLoad(p) PROVE Names'
  <2>1. p \in 1..minted
    BY <1>0, <1>17 DEF FrontLoad, NoFile, Paths
  <2>2. NamedCall'
    BY <1>17, <2>1 DEF FrontLoad, CallRec
  <2>3. saver' = saver \/ Ask("front")
    BY <1>17 DEF FrontLoad
  <2> HIDE DEF NamedSaves, NamedCall, NamedFiles, NamedTurns
  <2>. QED
    BY <1>1, <1>3, <1>5, <1>6, <1>17, <2>2, <2>3 DEF FrontLoad
<1>18. CASE FrontAdopt
  <2>1. NamedCall'
    BY <1>0, <1>18 DEF FrontAdopt, CallRec, Holding
  <2> HIDE DEF NamedSaves, NamedCall, NamedFiles, NamedTurns
  <2>. QED
    BY <1>1, <1>3, <1>5, <1>6, <1>18, <2>1 DEF FrontAdopt
<1>19. CASE Crash
  <2>1. \A p \in Paths : p > minted => Tells(file[p].list) = {}
    BY <1>0, TellsNothing DEF NoFile
  <2>2. NamedFiles'
    BY <1>0, <1>19, <2>1 DEF Crash
  <2>3. NamedSaves' /\ NamedTurns'
    BY <1>0, <1>19 DEF Crash, Quiet
  <2> HIDE DEF NamedSaves, NamedCall, NamedFiles, NamedTurns
  <2>. QED
    BY <1>1, <1>4, <1>19, <2>2, <2>3 DEF Crash
<1>. QED
  BY SessionSteps, <1>7, <1>8, <1>9, <1>10, <1>11, <1>12, <1>13, <1>14, <1>15, <1>16, <1>17,
     <1>18, <1>19

LEMMA StandingStep ==
  ASSUME Standing, [SessionNext]_sessionVars
  PROVE  Standing'
<1>1. CASE SessionNext
  BY <1>1, TypesStep, ControlStep, CallsStep, NamesStep DEF Standing
<1>2. CASE UNCHANGED sessionVars
  BY <1>2 DEF sessionVars, diskVars, pastVars, Standing, Types, HereTypes, DiskTypes,
     CallTypes, PastTypes,
              Control, Calls, Names, Holding, Idle
<1>. QED
  BY <1>1, <1>2

-----------------------------------------------------------------------------
(* Who writes what.                                                        *)

Fronts == \/ \E op \in Ops : FrontCall(op)
          \/ FrontRemove \/ FrontSaved \/ FrontSwap \/ FrontCopy
          \/ \E p \in Paths : FrontLoad(p)
          \/ FrontGiveUp \/ FrontAdopt \/ FrontBind

Saves == \E s \in Savers : ReadPath(s) \/ CopyMessages(s) \/ ReplaceFile(s)

LEMMA Writers ==
  ASSUME SessionNext
  PROVE  /\ file' = file \/ (\E s \in Savers : ReplaceFile(s)) \/ FrontRemove \/ FrontCopy
         /\ born' = born \/ TurnAdd \/ FrontCopy \/ Crash
         /\ list' = list \/ TurnAdd \/ TurnFold \/ CompactReplace \/ FrontSwap \/ FrontAdopt \/ Crash
         /\ path' = path \/ TurnOpen \/ FrontSwap \/ FrontBind \/ Crash
         /\ front' = front \/ Fronts \/ Crash
         /\ compact' = compact \/ Compact \/ Crash
         /\ turn' = turn \/ Turn \/ Crash
         /\ saver' = saver \/ Saves \/ Crash
              \/ ((\E s \in Savers : Ask(s)) /\ path' = path /\ born' = born)
         /\ cleared' = cleared \/ FrontRemove
         /\ home' = home \/ TurnCount
         /\ finished' = finished \/ TurnOver
         /\ exposed' = exposed \/ TurnEnd
         /\ minted' = minted \/ TurnOpen \/ FrontSwap \/ FrontCopy
<1> USE DEF FrontFrame, diskVars, pastVars, Savers
<1>1. ASSUME NEW s \in Savers, ReadPath(s) \/ CopyMessages(s) \/ ReplaceFile(s)
      PROVE  /\ UNCHANGED <<born, list, path, front, compact, turn, cleared, home, finished,
                            exposed, minted>>
             /\ file' = file \/ ReplaceFile(s)
             /\ Saves
  BY <1>1 DEF ReadPath, CopyMessages, ReplaceFile, Saves
<1>2. CASE AutosaveTick
  BY <1>2 DEF AutosaveTick
<1>3. CASE TurnBegin \/ TurnOpen \/ TurnCount \/ TurnAdd \/ TurnFold \/ TurnEnd \/ TurnOver
  <2>1. CASE TurnBegin
    <3>1. UNCHANGED <<file, born, list, path, front, compact, saver, cleared, home, finished,
                      exposed, minted>>
      BY <2>1 DEF TurnBegin
    <3>. QED
      BY <2>1, <3>1 DEF Turn
  <2>2. CASE TurnOpen
    <3>1. UNCHANGED <<file, born, list, front, compact, saver, cleared, home, finished,
                      exposed>>
      BY <2>2 DEF TurnOpen
    <3>. QED
      BY <2>2, <3>1 DEF Turn
  <2>3. CASE TurnCount
    <3>1. UNCHANGED <<file, born, list, path, front, compact, saver, cleared, finished,
                      exposed, minted>>
      BY <2>3 DEF TurnCount
    <3>. QED
      BY <2>3, <3>1 DEF Turn
  <2>4. CASE TurnAdd
    <3>1. UNCHANGED <<file, path, front, compact, saver, cleared, home, finished, exposed,
                      minted>>
      BY <2>4 DEF TurnAdd
    <3>. QED
      BY <2>4, <3>1 DEF Turn
  <2>5. CASE TurnFold
    <3>1. UNCHANGED <<file, born, path, front, compact, saver, cleared, home, finished,
                      exposed, minted>>
      BY <2>5 DEF TurnFold
    <3>. QED
      BY <2>5, <3>1 DEF Turn
  <2>6. CASE TurnEnd
    <3>1. UNCHANGED <<file, born, list, path, front, compact, cleared, home, finished,
                      minted>> /\ (saver' = saver \/ Ask("turn"))
      BY <2>6 DEF TurnEnd
    <3>. QED
      BY <2>6, <3>1 DEF Turn
  <2>7. CASE TurnOver
    <3>1. UNCHANGED <<file, born, list, path, front, compact, saver, cleared, home, exposed,
                      minted>>
      BY <2>7 DEF TurnOver
    <3>. QED
      BY <2>7, <3>1 DEF Turn
  <2>. QED
    BY <1>3, <2>1, <2>2, <2>3, <2>4, <2>5, <2>6, <2>7
<1>4. CASE CompactBegin \/ CompactReplace \/ CompactFail \/ CompactOver
  BY <1>4 DEF CompactBegin, CompactReplace, CompactFail, CompactOver, Compact
<1>5. ASSUME NEW op \in Ops, FrontCall(op)
      PROVE  /\ UNCHANGED <<file, born, list, path, compact, turn, cleared, home, finished,
                            exposed, minted>>
             /\ saver' = saver \/ Ask("front")
             /\ Fronts
  BY <1>5 DEF FrontCall, Fronts
<1>6. ASSUME NEW p \in Paths, FrontLoad(p)
      PROVE  /\ UNCHANGED <<file, born, list, path, compact, turn, cleared, home, finished,
                            exposed, minted>>
             /\ saver' = saver \/ Ask("front")
             /\ Fronts
  BY <1>6 DEF FrontLoad, Fronts
<1>7. CASE FrontRemove \/ FrontSaved \/ FrontSwap \/ FrontCopy \/ FrontGiveUp \/ FrontAdopt \/ FrontBind
  <2>1. CASE FrontRemove
    <3>1. UNCHANGED <<born, list, path, compact, turn, saver, home, finished, exposed, minted>>
      BY <2>1 DEF FrontRemove
    <3>. QED
      BY <2>1, <3>1 DEF Fronts
  <2>2. CASE FrontSaved
    <3>1. UNCHANGED <<file, born, list, path, compact, turn, saver, cleared, home, finished,
                      exposed, minted>>
      BY <2>2 DEF FrontSaved
    <3>. QED
      BY <2>2, <3>1 DEF Fronts
  <2>3. CASE FrontSwap
    <3>1. UNCHANGED <<file, born, compact, turn, saver, cleared, home, finished, exposed>>
      BY <2>3 DEF FrontSwap
    <3>. QED
      BY <2>3, <3>1 DEF Fronts
  <2>4. CASE FrontCopy
    <3>1. UNCHANGED <<list, path, compact, turn, saver, cleared, home, finished, exposed>>
      BY <2>4 DEF FrontCopy
    <3>. QED
      BY <2>4, <3>1 DEF Fronts
  <2>5. CASE FrontGiveUp
    <3>1. UNCHANGED <<file, born, list, path, compact, turn, saver, cleared, home, finished,
                      exposed, minted>>
      BY <2>5 DEF FrontGiveUp
    <3>. QED
      BY <2>5, <3>1 DEF Fronts
  <2>6. CASE FrontAdopt
    <3>1. UNCHANGED <<file, born, path, compact, turn, saver, cleared, home, finished, exposed,
                      minted>>
      BY <2>6 DEF FrontAdopt
    <3>. QED
      BY <2>6, <3>1 DEF Fronts
  <2>7. CASE FrontBind
    <3>1. UNCHANGED <<file, born, list, compact, turn, saver, cleared, home, finished, exposed,
                      minted>>
      BY <2>7 DEF FrontBind
    <3>. QED
      BY <2>7, <3>1 DEF Fronts
  <2>. QED
    BY <1>7, <2>1, <2>2, <2>3, <2>4, <2>5, <2>6, <2>7
<1>8. CASE Crash
  <2>1. UNCHANGED <<file, cleared, home, finished, exposed, minted>>
    BY <1>8 DEF Crash
  <2>. QED
    BY <1>8, <2>1
<1>. QED
  BY SessionSteps, <1>1, <1>2, <1>3, <1>4, <1>5, <1>6, <1>7, <1>8

-----------------------------------------------------------------------------
(* What the steps do to what the conversations, files and saves tell.      *)

LEMMA ReplaceFileDoes ==
  ASSUME Standing, NEW s \in Savers, ReplaceFile(s)
  PROVE  /\ saver[s].at = "copied" /\ saver[s].path \in Paths
         /\ file'[saver[s].path] = [saved |-> TRUE, list |-> saver[s].list]
         /\ \A p \in Paths : p # saver[s].path => file'[p] = file[p]
         /\ \A r \in Savers : saver'[r] = IF r = s THEN Quiet ELSE saver[r]
         /\ UNCHANGED <<running, path, list, minted, turn, compact, front, born, home,
                        finished, exposed, cleared>>
<1>1. saver[s].path \in Paths
  BY StandingTypes, Bounds DEF ReplaceFile, Standing, Names, Paths
<1>. QED
  BY <1>1, StandingTypes DEF ReplaceFile, pastVars

LEMMA CopyMessagesDoes ==
  ASSUME Standing, NEW s \in Savers, CopyMessages(s)
  PROVE  /\ saver[s].at = "located" /\ saver[s].path \in Paths
         /\ \A r \in Savers \ {s} : saver'[r] = saver[r]
         /\ list = <<>> => saver'[s] = Quiet
         /\ list # <<>> => saver'[s] = [at |-> "copied", path |-> saver[s].path, list |-> list]
         /\ UNCHANGED <<running, path, list, file, minted, turn, compact, front, born, home,
                        finished, exposed, cleared>>
<1>1. saver[s].path \in Paths
  BY StandingTypes, Bounds DEF CopyMessages, Standing, Names, Paths
<1>. QED
  BY <1>1, StandingTypes DEF CopyMessages, SaveRec, diskVars, pastVars

LEMMA ReadPathDoes ==
  ASSUME Standing, NEW s \in Savers, ReadPath(s)
  PROVE  /\ saver[s].at = "asked"
         /\ \A r \in Savers \ {s} : saver'[r] = saver[r]
         /\ path = NoPath => saver'[s] = Quiet
         /\ path # NoPath => saver'[s] = [at |-> "located", path |-> path, list |-> <<>>]
         /\ UNCHANGED <<running, path, list, file, minted, turn, compact, front, born, home,
                        finished, exposed, cleared>>
BY StandingTypes DEF ReadPath, Unnamed, SaveRec, diskVars, pastVars

LEMMA AskDoes ==
  ASSUME Standing, NEW s \in Savers, Ask(s)
  PROVE  /\ saver'[s].at = "asked"
         /\ \A r \in Savers \ {s} : saver'[r] = saver[r]
BY StandingTypes DEF Ask, SaveRec

LEMMA TurnAddDoes ==
  ASSUME Standing, TurnAdd
  PROVE  /\ path \in Paths /\ <<turn.id, turn.parts>> \in Told /\ turn.at \in {"ask", "work"}
         /\ Tells(list') = Tells(list) \cup {<<turn.id, turn.parts>>} /\ Len(list') = Len(list) + 1
         /\ \A p \in Paths : born'[p] = IF p = path THEN born[p] \cup {<<turn.id, turn.parts>>} ELSE born[p]
         /\ turn'.at = "work" /\ turn'.id = turn.id /\ turn'.start = turn.start
         /\ turn'.parts = turn.parts + 1 /\ turn'.folded = turn.folded
         /\ UNCHANGED <<running, path, file, minted, saver, compact, front, home, finished,
                        exposed, cleared>>
<1>1. path \in Paths
  BY StandingTypes, Bounds DEF TurnAdd, Standing, Control, NoPath, Paths
<1>2. turn.id \in 1..MaxTurns /\ turn.parts \in 0..MaxParts
  BY StandingTypes, Bounds DEF TurnAdd, Standing, Control, TurnRec
<1>3. <<turn.id, turn.parts>> \in Told
  BY <1>2 DEF Told
<1>. QED
  BY <1>1, <1>3, TellsMore, StandingTypes DEF TurnAdd, TurnRec, diskVars

LEMMA TurnFoldDoes ==
  ASSUME Standing, TurnFold
  PROVE  /\ Tells(list') = Tells(list) /\ list # <<>>
         /\ turn.at = "work" /\ turn'.at = "work" /\ turn'.id = turn.id
         /\ turn'.parts = turn.parts /\ turn'.folded /\ turn'.start = turn.start
         /\ UNCHANGED <<running, path, file, minted, saver, compact, front, born, home,
                        finished, exposed, cleared>>
BY FoldTells, StandingTypes DEF TurnFold, TurnRec, diskVars, pastVars

LEMMA CompactReplaceDoes ==
  ASSUME Standing, CompactReplace
  PROVE  /\ Tells(list') = Tells(compact.list)
         /\ compact.at = "summarizing" /\ compact'.at = "saving"
         /\ UNCHANGED <<running, path, file, minted, turn, front, born, home, finished,
                        exposed, cleared>>
BY FoldTells, StandingTypes DEF CompactReplace, CompactRec, diskVars, pastVars

LEMMA FrontRemoveDoes ==
  ASSUME Standing, FrontRemove
  PROVE  /\ \A p \in Paths : file'[p] = IF p = front.path THEN NoFile ELSE file[p]
         /\ \A p \in Paths : p \in cleared' <=> p \in cleared \/ p = front.path
         /\ front.at = "remove" /\ front'.at = "swap" /\ front'.op = front.op
         /\ UNCHANGED <<running, path, list, minted, turn, saver, compact, born, home,
                        finished, exposed>>
<1>1. NoPath \notin Paths
  BY DEF NoPath, Paths
<1>. QED
  BY <1>1, StandingTypes DEF FrontRemove, FrontFrame, CallRec

LEMMA SavedGoesOn ==
  ASSUME Standing, FrontSaved
  PROVE  /\ front.at = "save" /\ saver["front"].at = "idle"
         /\ front'.op = front.op /\ front'.path = front.path /\ front'.list = front.list
         /\ \/ front.op = "new" /\ front'.at = "swap"
            \/ front.op = "branch" /\ front'.at = "copy"
            \/ front.op \in {"switch", "resume"} /\ front'.at = "load"
            \/ front.op = "reload" /\ front'.at = "adopt"
         /\ UNCHANGED <<running, path, list, file, minted, turn, saver, compact, born, home,
                        finished, exposed, cleared>>
<1>1. front.at = "save" /\ front.op \in {"new", "branch", "switch", "resume", "reload"}
  BY DEF FrontSaved, Standing, Calls
<1>. QED
  BY <1>1, StandingTypes DEF FrontSaved, SaveThrough, Idle, FrontFrame, CallRec, diskVars,
     pastVars

LEMMA FrontCopyDoes ==
  ASSUME Standing, FrontCopy
  PROVE  /\ minted' \in Paths /\ minted' = minted + 1
         /\ file[minted'] = NoFile /\ born[minted'] = {} /\ minted' \notin cleared /\ path # minted'
         /\ \A p \in Paths : file'[p] = IF p = minted' THEN [saved |-> TRUE, list |-> list] ELSE file[p]
         /\ \A p \in Paths : born'[p] = IF p = minted' THEN Tells(list) ELSE born[p]
         /\ front.at = "copy" /\ front'.at = "adopt" /\ front'.path = minted' /\ front'.list = list
         /\ front'.op = front.op
         /\ UNCHANGED <<running, path, list, turn, saver, compact, home, finished, exposed,
                        cleared>>
<1>1. minted' \in Paths /\ minted' = minted + 1 /\ minted' > minted /\ path # minted'
  BY StandingTypes, Minted, Bounds DEF FrontCopy
<1>2. file[minted'] = NoFile /\ born[minted'] = {} /\ minted' \notin cleared
  BY <1>1 DEF Standing, Names
<1>. QED
  BY <1>1, <1>2, StandingTypes DEF FrontCopy, FrontFrame, CallRec

LEMMA FreshPath ==
  ASSUME Standing, Mint, path' = minted'
  PROVE  /\ path' \in Paths /\ path' # NoPath /\ minted' = minted + 1
         /\ file[path'] = NoFile /\ born[path'] = {} /\ path' \notin cleared /\ path # path'
         /\ \A t \in 1..MaxTurns : home[t] # path'
<1>1. minted' \in Paths /\ minted' = minted + 1 /\ minted' > minted /\ path # minted'
      /\ minted' # NoPath
  BY StandingTypes, Minted, Bounds DEF NoPath
<1>2. file[minted'] = NoFile /\ born[minted'] = {} /\ minted' \notin cleared
  BY <1>1 DEF Standing, Names
<1>3. \A t \in 1..MaxTurns : home[t] # minted'
  BY <1>1, StandingTypes DEF Standing, Names
<1>. QED
  BY <1>1, <1>2, <1>3

LEMMA CrashDoes ==
  ASSUME Standing, Crash
  PROVE  /\ \A p \in Paths : born'[p] = Tells(file[p].list)
         /\ path' = NoPath /\ list' = <<>> /\ ~running'
         /\ turn'.at = "idle" /\ turn'.id = turn.id /\ compact'.at = "idle" /\ front' = NoCall
         /\ \A s \in Savers : saver'[s] = Quiet
         /\ UNCHANGED <<file, minted, home, finished, exposed, cleared>>
BY StandingTypes DEF Crash, NoTurn, TurnRec, diskVars

-----------------------------------------------------------------------------
(* What the files, the saves and the calls tell, as long as nothing ran    *)
(* beside a call that leaves the conversation.                             *)

Clean == overlaps = {}

Apart ==
  /\ Alone /\ front.at # "idle" => ~running /\ Idle("autosave") /\ compact.at = "idle"
  /\ Clean /\ compact.at # "idle" => ~running
  /\ Clean /\ front.op = "reload" /\ front.at = "save" => front.path # path

OwnFiles == \A p \in Paths : Tells(file[p].list) \subseteq born[p]

OwnList ==
  front.at # "bind" => IF path = NoPath THEN list = <<>> ELSE Tells(list) \subseteq born[path]

OwnSaves ==
  \A s \in Savers :
    /\ saver[s].at \in {"located", "copied"} => saver[s].path = path
    /\ saver[s].at = "copied" => Tells(saver[s].list) \subseteq born[path]

OwnSummary ==
  compact.at = "summarizing" => path # NoPath /\ Tells(compact.list) \subseteq born[path]

OwnCall ==
  /\ Holding => Tells(front.list) \subseteq born[front.path]
  /\ front.at = "bind" => list = front.list

OwnTurns ==
  \A p \in Paths : \A a \in born[p] :
    a[1] <= turn.id /\ (turn.at # "idle" /\ a[1] = turn.id => a[2] < turn.parts)

Own == OwnFiles /\ OwnList /\ OwnSaves /\ OwnSummary /\ OwnCall /\ OwnTurns

LEMMA ApartStep ==
  ASSUME SessionNext
  PROVE  Apart' /\ (Alone' => Alone) /\ (Clean' => Clean) /\ (Clean => Alone)
<1>1. overlaps' = overlaps \cup Beside
  BY DEF SessionNext
<1>2. Alone' => Alone /\ "turn" \notin Beside /\ "autosave" \notin Beside /\ "compact" \notin Beside
  BY <1>1 DEF Alone
<1>3. Clean' => Clean /\ Beside = {}
  BY <1>1 DEF Clean
<1>4. Alone' /\ front'.at # "idle" => ~running' /\ saver'["autosave"].at = "idle" /\ compact'.at = "idle"
  BY <1>2 DEF Beside
<1>5. Clean' /\ compact'.at # "idle" => ~running'
  BY <1>3 DEF Beside
<1>6. Clean' /\ front'.op = "reload" /\ front'.at = "save" => front'.path # path'
  BY <1>3 DEF Beside
<1>7. Clean => Alone
  BY DEF Clean, Alone
<1>. QED
  BY <1>2, <1>3, <1>4, <1>5, <1>6, <1>7 DEF Apart, Idle

LEMMA CallAlone ==
  ASSUME Standing, Apart, Alone, front.at # "idle"
  PROVE  /\ ~running /\ turn.at = "idle" /\ compact.at = "idle"
         /\ \A s \in Savers : s # "front" => saver[s].at = "idle"
         /\ front.at # "save" => \A s \in Savers : saver[s].at = "idle"
BY DEF Standing, Control, Apart, Idle, Savers

Here == Standing /\ Apart /\ Alone /\ Own

LEMMA HereHas ==
  ASSUME Here
  PROVE  /\ Standing /\ Apart /\ Alone /\ OwnFiles /\ OwnList /\ OwnSaves /\ OwnSummary /\ OwnCall /\ OwnTurns
         /\ running => front.at = "idle"
         /\ turn.at # "idle" => running
         /\ compact.at # "idle" => front.at = "idle"
         /\ \A s \in Savers : saver[s].at # "idle" => front.at \in {"idle", "save"}
         /\ \A s \in Savers : saver[s].at \in {"located", "copied"} => path # NoPath /\ path \in Paths
         /\ path # NoPath => path \in Paths
<1>1. Standing
  BY DEF Here
<1>2. \A s \in Savers : saver[s].at \in {"located", "copied"} => saver[s].path \in 1..minted /\ saver[s].path = path
  BY DEF Here, Standing, Names, Own, OwnSaves
<1>. QED
  BY <1>1, <1>2, CallAlone, StandingTypes, Bounds DEF Here, Own, NoPath, Paths, Standing,
     Control

LEMMA OwnFilesStep ==
  ASSUME Here, SessionNext
  PROVE  OwnFiles'
<1> USE HereHas
<1>1. ASSUME file' = file, born' = born PROVE OwnFiles'
  BY <1>1 DEF OwnFiles
<1>2. ASSUME NEW s \in Savers, ReplaceFile(s) PROVE OwnFiles'
  <2>1. saver[s].path = path /\ Tells(saver[s].list) \subseteq born[path] /\ born' = born
    BY <1>2, ReplaceFileDoes DEF OwnSaves
  <2>2. /\ file'[path] = [saved |-> TRUE, list |-> saver[s].list]
        /\ \A p \in Paths : p # path => file'[p] = file[p]
    BY <1>2, <2>1, ReplaceFileDoes
  <2>3. file'[path].list = saver[s].list
    BY <2>2
  <2>. QED
    BY <2>1, <2>2, <2>3 DEF OwnFiles
<1>3. CASE TurnAdd
  BY <1>3, TurnAddDoes DEF OwnFiles
<1>4. CASE FrontRemove
  BY <1>4, FrontRemoveDoes, TellsNothing DEF OwnFiles, NoFile
<1>5. CASE FrontCopy
  BY <1>5, FrontCopyDoes DEF OwnFiles
<1>6. CASE Crash
  BY <1>6, CrashDoes DEF OwnFiles
<1>. QED
  BY Writers, <1>1, <1>2, <1>3, <1>4, <1>5, <1>6

LEMMA OwnListStep ==
  ASSUME Here, SessionNext
  PROVE  OwnList'
<1> USE HereHas DEF NoPath
<1>1. ASSUME UNCHANGED <<list, path, born, front>> PROVE OwnList'
  BY <1>1 DEF OwnList
<1>2. CASE TurnOpen
  <2>1. front.at = "idle" /\ UNCHANGED <<list, born, front>>
    BY <1>2 DEF TurnOpen, pastVars
  <2>2. CASE path = NoPath
    <3>1. list' = <<>> /\ path' # NoPath
      BY <1>2, <2>1, <2>2, FreshPath DEF TurnOpen, OwnList
    <3>. QED
      BY <3>1, <2>1, TellsNothing DEF OwnList
  <2>3. CASE path # NoPath
    BY <1>1, <1>2, <2>1, <2>3 DEF TurnOpen
  <2>. QED
    BY <2>2, <2>3
<1>3. CASE TurnAdd
  <2>1. path \in Paths /\ path # NoPath /\ path' = path /\ front'.at # "bind"
        /\ front.at # "bind"
    BY <1>3, TurnAddDoes DEF Paths, Standing, Control
  <2>2. /\ Tells(list') = Tells(list) \cup {<<turn.id, turn.parts>>}
        /\ born'[path] = born[path] \cup {<<turn.id, turn.parts>>}
    BY <1>3, <2>1, TurnAddDoes
  <2>3. Tells(list) \subseteq born[path]
    BY <2>1 DEF OwnList
  <2>. QED
    BY <2>1, <2>2, <2>3 DEF OwnList
<1>4. CASE TurnFold
  <2>1. front.at = "idle" /\ front' = front /\ path' = path /\ born' = born /\ path # NoPath
    BY <1>4, TurnFoldDoes DEF Standing, Control
  <2>. QED
    BY <1>4, <2>1, TurnFoldDoes DEF OwnList
<1>5. CASE CompactReplace
  BY <1>5, CompactReplaceDoes DEF OwnList, OwnSummary
<1>6. ASSUME NEW op \in Ops, FrontCall(op) PROVE OwnList'
  <2>1. front.at # "bind" /\ UNCHANGED <<list, path, born>>
    BY <1>6 DEF FrontCall, pastVars
  <2>. QED
    BY <2>1 DEF OwnList
<1>7. ASSUME NEW p \in Paths, FrontLoad(p) PROVE OwnList'
  <2>1. front.at # "bind" /\ UNCHANGED <<list, path, born>>
    BY <1>7 DEF FrontLoad, pastVars
  <2>. QED
    BY <2>1 DEF OwnList
<1>8. CASE FrontRemove \/ FrontSaved \/ FrontGiveUp
  <2>1. front.at # "bind" /\ UNCHANGED <<list, path, born>>
    BY <1>8 DEF FrontRemove, FrontSaved, FrontGiveUp, pastVars
  <2>. QED
    BY <2>1 DEF OwnList
<1>9. CASE FrontSwap
  <2>1. list' = <<>> /\ path' # NoPath
    BY <1>9, FreshPath DEF FrontSwap, FreshFile
  <2>. QED
    BY <2>1, TellsNothing DEF OwnList
<1>10. CASE FrontCopy
  <2>1. path # NoPath => born'[path] = born[path]
    BY <1>10, FrontCopyDoes
  <2>2. front.at # "bind" /\ list' = list /\ path' = path
    BY <1>10, FrontCopyDoes
  <2>. QED
    BY <2>1, <2>2 DEF OwnList
<1>11. CASE FrontAdopt
  <2>1. front'.at = "bind"
    BY <1>11, StandingTypes DEF FrontAdopt, CallRec
  <2>. QED
    BY <2>1 DEF OwnList
<1>12. CASE FrontBind
  <2>1. list' = front.list /\ path' = front.path
        /\ Tells(front.list) \subseteq born[front.path] /\ born' = born
    BY <1>12 DEF FrontBind, ItsPath, OwnCall, Holding, pastVars, diskVars
  <2>2. front.path \in 1..minted
    BY <1>12 DEF FrontBind, Holding, Standing, Names
  <2>3. path' # NoPath
    BY <2>1, <2>2
  <2>. QED
    BY <2>1, <2>3 DEF OwnList
<1>13. CASE Crash
  BY <1>13, CrashDoes DEF OwnList
<1>. QED
  BY Writers, <1>1, <1>2, <1>3, <1>4, <1>5, <1>6, <1>7, <1>8, <1>9, <1>10, <1>11, <1>12,
     <1>13 DEF Fronts

LEMMA OwnSavesStep ==
  ASSUME Here, SessionNext
  PROVE  OwnSaves'
<1> USE HereHas DEF NoPath
<1>1. ASSUME UNCHANGED <<saver, path, born>> PROVE OwnSaves'
  BY <1>1 DEF OwnSaves
<1>2. ASSUME NEW s \in Savers, ReadPath(s) PROVE OwnSaves'
  BY <1>2, ReadPathDoes DEF OwnSaves, Quiet
<1>3. ASSUME NEW s \in Savers, CopyMessages(s) PROVE OwnSaves'
  <2>1. saver[s].at = "located" /\ front.at # "bind" /\ path # NoPath
    BY <1>3, CopyMessagesDoes
  <2>2. Tells(list) \subseteq born[path]
    BY <2>1 DEF OwnList
  <2>. QED
    <3>1. saver'[s] = Quiet \/ saver'[s] = [at |-> "copied", path |-> saver[s].path, list |-> list]
      BY <1>3, CopyMessagesDoes
    <3>2. path' = path /\ born' = born /\ saver[s].path = path
      BY <1>3, <2>1, CopyMessagesDoes DEF OwnSaves
    <3>3. \A r \in Savers \ {s} : saver'[r] = saver[r]
      BY <1>3, CopyMessagesDoes
    <3>. QED
      BY <2>2, <3>1, <3>2, <3>3 DEF OwnSaves, Quiet
<1>4. ASSUME NEW s \in Savers, ReplaceFile(s) PROVE OwnSaves'
  <2>1. \A r \in Savers : saver'[r] = Quiet \/ saver'[r] = saver[r]
    BY <1>4, ReplaceFileDoes
  <2>2. path' = path /\ born' = born
    BY <1>4, ReplaceFileDoes
  <2>. QED
    BY <2>1, <2>2 DEF OwnSaves, Quiet
<1>5. ASSUME NEW s \in Savers, Ask(s), path' = path, born' = born PROVE OwnSaves'
  BY <1>5, AskDoes DEF OwnSaves
<1>6. CASE TurnAdd
  BY <1>6, TurnAddDoes DEF OwnSaves
<1>7. ASSUME \A s \in Savers : saver[s].at \notin {"located", "copied"}, saver' = saver PROVE OwnSaves'
  BY <1>7 DEF OwnSaves
<1>8. CASE TurnOpen
  <2>1. CASE path = NoPath
    <3>1. \A s \in Savers : saver[s].at \notin {"located", "copied"}
      BY <2>1
    <3>. QED
      BY <1>7, <1>8, <3>1 DEF TurnOpen
  <2>2. CASE path # NoPath
    BY <1>1, <1>8, <2>2 DEF TurnOpen, pastVars
  <2>. QED
    BY <2>1, <2>2
<1>9. CASE FrontSwap \/ FrontBind
  BY <1>7, <1>9 DEF FrontSwap, FrontBind
<1>10. CASE FrontCopy
  BY <1>7, <1>10, FrontCopyDoes
<1>11. CASE Crash
  BY <1>11, CrashDoes DEF OwnSaves, Quiet
<1>. QED
  BY Writers, <1>1, <1>2, <1>3, <1>4, <1>5, <1>6, <1>8, <1>9, <1>10, <1>11 DEF Saves

LEMMA OwnSummaryStep ==
  ASSUME Here, SessionNext, Alone'
  PROVE  OwnSummary'
<1> USE HereHas DEF NoPath
<1>1. ASSUME UNCHANGED <<compact, path, born>> PROVE OwnSummary'
  BY <1>1 DEF OwnSummary
<1>2. CASE CompactBegin
  <2>1. Apart'
    BY ApartStep
  <2>2. compact'.at = "summarizing" /\ compact'.list = list /\ UNCHANGED <<list, path, born,
                                                                           front>>
    BY <1>2 DEF CompactBegin, pastVars
  <2>3. front.at = "idle"
    BY <2>1, <2>2 DEF Apart
  <2>4. list # <<>>
    BY <1>2, FoldTells, StandingTypes DEF CompactBegin
  <2>. QED
    BY <2>2, <2>3, <2>4 DEF OwnSummary, OwnList
<1>3. CASE CompactReplace \/ CompactFail \/ CompactOver
  <2>1. compact'.at # "summarizing"
    BY <1>3 DEF CompactReplace, CompactFail, CompactOver
  <2>. QED
    BY <2>1 DEF OwnSummary
<1>4. CASE TurnOpen
  BY <1>4 DEF TurnOpen, OwnSummary, pastVars
<1>5. CASE TurnAdd
  BY <1>5, TurnAddDoes DEF OwnSummary
<1>6. ASSUME compact.at = "idle", compact' = compact PROVE OwnSummary'
  BY <1>6 DEF OwnSummary
<1>7. CASE FrontSwap \/ FrontBind
  BY <1>6, <1>7 DEF FrontSwap, FrontBind, FrontFrame
<1>8. CASE FrontCopy
  BY <1>6, <1>8 DEF FrontCopy, FrontFrame
<1>9. CASE Crash
  BY <1>9, CrashDoes DEF OwnSummary
<1>. QED
  BY Writers, <1>1, <1>2, <1>3, <1>4, <1>5, <1>7, <1>8, <1>9 DEF Compact

LEMMA OwnCallStep ==
  ASSUME Here, SessionNext, Alone'
  PROVE  OwnCall'
<1> USE HereHas
<1>0. front \in CallRec
  BY StandingTypes
<1>1. ASSUME UNCHANGED <<front, list, born>> PROVE OwnCall'
  BY <1>1 DEF OwnCall, Holding
<1>2. ASSUME front.at = "idle", front' = front PROVE OwnCall'
  BY <1>2 DEF OwnCall, Holding
<1>3. CASE TurnAdd \/ TurnFold
  BY <1>2, <1>3, TurnAddDoes, TurnFoldDoes
<1>4. CASE CompactReplace
  BY <1>2, <1>4, CompactReplaceDoes
<1>5. ASSUME NEW op \in Ops, FrontCall(op) PROVE OwnCall'
  BY <1>5 DEF FrontCall, NoCall, OwnCall, Holding
<1>6. CASE FrontRemove
  BY <1>6, FrontRemoveDoes DEF OwnCall, Holding
<1>7. CASE FrontSaved
  <2>1. front.at = "save" /\ UNCHANGED <<list, born>> /\ front'.list = front.list
        /\ front'.path = front.path
    BY <1>0, <1>7 DEF FrontSaved, CallRec, pastVars
  <2>2. \/ front'.at \in {"swap", "copy", "load"}
        \/ front'.at = "adopt" /\ front.op = "reload"
    BY <1>7, SavedGoesOn
  <2>. QED
    BY <2>1, <2>2 DEF OwnCall, Holding
<1>8. CASE FrontSwap \/ FrontGiveUp \/ FrontBind \/ Crash
  <2>1. front' = NoCall
    BY <1>8 DEF FrontSwap, FrontGiveUp, FrontBind, Crash
  <2>. QED
    BY <2>1 DEF OwnCall, Holding, NoCall
<1>9. CASE FrontCopy
  BY <1>9, FrontCopyDoes DEF OwnCall, Holding
<1>10. ASSUME NEW p \in Paths, FrontLoad(p) PROVE OwnCall'
  <2>1. front'.path = p /\ front'.list = file[p].list /\ front'.at \in {"save", "adopt"}
        /\ born' = born
    BY <1>0, <1>10 DEF FrontLoad, CallRec, pastVars
  <2>. QED
    BY <2>1 DEF OwnCall, OwnFiles
<1>11. CASE FrontAdopt
  <2>1. front'.at = "bind" /\ front'.path = front.path /\ front'.list = front.list
        /\ list' = front.list
        /\ born' = born /\ front.at = "adopt"
    BY <1>0, <1>11 DEF FrontAdopt, CallRec, pastVars
  <2>. QED
    BY <2>1 DEF OwnCall, Holding
<1>. QED
  BY Writers, <1>1, <1>3, <1>4, <1>5, <1>6, <1>7, <1>8, <1>9, <1>10, <1>11 DEF Fronts

LEMMA OwnTurnsStep ==
  ASSUME Here, SessionNext
  PROVE  OwnTurns'
<1> USE HereHas
<1>0. turn \in TurnRec /\ \A p \in Paths : \A a \in born[p] : a[1] \in Nat /\ a[2] \in Nat
  <2>1. \A a \in Told : a[1] \in Nat /\ a[2] \in Nat
    BY Bounds DEF Told
  <2>. QED
    BY <2>1, StandingTypes
<1>1. ASSUME UNCHANGED <<turn, born>> PROVE OwnTurns'
  BY <1>1 DEF OwnTurns
<1>2. CASE TurnBegin
  <2>1. turn'.id = turn.id + 1 /\ turn'.parts = 0 /\ born' = born /\ turn.id \in Nat
    BY <1>0, <1>2 DEF TurnBegin, NoTurn, TurnRec, pastVars
  <2>. QED
    BY <1>0, <2>1 DEF OwnTurns
<1>3. CASE TurnOpen \/ TurnCount \/ TurnEnd
  <2>1. turn'.id = turn.id /\ turn'.parts = turn.parts /\ born' = born /\ turn.at # "idle"
    BY <1>0, <1>3 DEF TurnOpen, TurnCount, TurnEnd, TurnRec, pastVars
  <2>. QED
    BY <2>1 DEF OwnTurns
<1>4. CASE TurnFold
  BY <1>4, TurnFoldDoes DEF OwnTurns
<1>5. CASE TurnAdd
  <2>0. /\ turn'.at = "work" /\ turn.at # "idle" /\ turn'.id = turn.id /\ turn'.parts = turn.parts + 1
        /\ turn.id \in Nat /\ turn.parts \in Nat
    BY <1>0, <1>5, TurnAddDoes, Bounds DEF TurnRec
  <2>1. ASSUME NEW p \in Paths, NEW a \in born'[p]
        PROVE  a \in born[p] \/ a = <<turn.id, turn.parts>>
    BY <1>5, <2>1, TurnAddDoes
  <2>2. ASSUME NEW p \in Paths, NEW a \in born'[p]
        PROVE  a[1] <= turn'.id /\ (a[1] = turn'.id => a[2] < turn'.parts)
    BY <1>0, <2>0, <2>1 DEF OwnTurns
  <2>. QED
    BY <2>2 DEF OwnTurns
<1>6. CASE TurnOver
  <2>1. turn'.id = turn.id /\ turn'.at = "idle" /\ born' = born
    BY <1>0, <1>6 DEF TurnOver, NoTurn, TurnRec, pastVars
  <2>. QED
    BY <2>1 DEF OwnTurns
<1>7. CASE FrontCopy
  <2>1. front.at = "copy" /\ turn' = turn
    BY <1>7, FrontCopyDoes
  <2>2. \A a \in Tells(list) : path \in Paths /\ a \in born[path]
    BY <2>1, TellsNothing DEF OwnList
  <2>3. \A p \in Paths : born'[p] = born[p] \/ born'[p] = Tells(list)
    BY <1>7, FrontCopyDoes
  <2>. QED
    BY <2>1, <2>2, <2>3 DEF OwnTurns
<1>8. CASE Crash
  <2>1. \A p \in Paths : born'[p] \subseteq born[p]
    BY <1>8, CrashDoes DEF OwnFiles
  <2>2. turn'.at = "idle" /\ turn'.id = turn.id
    BY <1>8, CrashDoes
  <2>. QED
    BY <2>1, <2>2 DEF OwnTurns
<1>. QED
  BY Writers, <1>1, <1>2, <1>3, <1>4, <1>5, <1>6, <1>7, <1>8 DEF Turn

LEMMA OwnStep ==
  ASSUME Here, SessionNext, Alone'
  PROVE  Here'
BY OwnFilesStep, OwnListStep, OwnSavesStep, OwnSummaryStep, OwnCallStep, OwnTurnsStep,
   ApartStep,
   StandingStep DEF Here, Own

-----------------------------------------------------------------------------
(* What was cleared stays gone, and what is left is in its file.           *)

Gone ==
  /\ \A p \in cleared : ~file[p].saved
  /\ path \in cleared => front.at = "swap"
  /\ front.at = "remove" => front.path = path
  /\ front.at = "swap" /\ front.op = "clear" /\ path # NoPath => path \in cleared
  /\ Holding => front.path \notin cleared

\* The call has seen to it that the file tells what the conversation does.
Stored ==
  \/ front.at \in {"copy", "adopt"}
  \/ front.at = "swap" /\ front.op # "clear"
  \/ front.at = "load" /\ front.op # "reload"
  \/ front.at = "save" /\ saver["front"].at = "idle"

Left ==
  /\ Stored /\ path # NoPath => Tells(list) \subseteq Tells(file[path].list)
  /\ front.at = "save" /\ saver["front"].at = "copied" => saver["front"].list = list

LEMMA GoneStep ==
  ASSUME Here, Gone, SessionNext
  PROVE  Gone'
<1> USE HereHas
<1>0. front \in CallRec /\ cleared \subseteq Paths /\ NoPath \notin Paths /\ "front" \in Savers
  BY StandingTypes DEF NoPath, Paths
<1>1. ASSUME UNCHANGED <<file, cleared, path, front>> PROVE Gone'
  BY <1>1 DEF Gone, Holding
<1>2. ASSUME NEW s \in Savers, ReplaceFile(s) PROVE Gone'
  <2>1. UNCHANGED <<cleared, path, front>> /\ front.at \in {"idle", "save"}
        /\ saver[s].path = path
    BY <1>2, ReplaceFileDoes DEF OwnSaves
  <2>2. path \notin cleared
    BY <2>1 DEF Gone
  <2>3. \A p \in cleared : file'[p] = file[p]
    BY <1>0, <1>2, <2>1, <2>2, ReplaceFileDoes
  <2>. QED
    BY <2>1, <2>3 DEF Gone, Holding
<1>3. CASE TurnOpen
  <2>1. front.at = "idle" /\ UNCHANGED <<file, cleared, front>>
    BY <1>3 DEF TurnOpen, pastVars
  <2>2. path' = path \/ path' \notin cleared
    BY <1>3, FreshPath DEF TurnOpen
  <2>. QED
    BY <2>1, <2>2 DEF Gone, Holding
<1>4. ASSUME NEW op \in Ops, FrontCall(op) PROVE Gone'
  <2>1. front.at = "idle" /\ UNCHANGED <<file, cleared, path>> /\ front'.path = path
        /\ front'.at \in {"remove", "load", "save"} /\ ~Holding'
    BY <1>4 DEF FrontCall, NoCall, Holding, diskVars, pastVars
  <2>. QED
    BY <2>1 DEF Gone
<1>5. CASE FrontRemove
  <2>1. /\ front.at = "remove" /\ front'.at = "swap" /\ front.path = path /\ path' = path
        /\ \A p \in cleared' : p \in Paths /\ (p \in cleared \/ p = path) /\ (file'[p] = NoFile \/ file'[p] = file[p])
        /\ path \in Paths => file'[path] = NoFile /\ path \in cleared'
        /\ ~Holding'
    <3>1. cleared' \subseteq Paths
      BY <1>5, StandingStep, StandingTypes DEF Standing, Types, PastTypes
    <3>. QED
      BY <1>5, <3>1, FrontRemoveDoes DEF Gone, Holding
  <2>2. \A p \in cleared' : ~file'[p].saved
    BY <2>1 DEF Gone, NoFile
  <2>. QED
    BY <2>1, <2>2 DEF Gone
<1>6. CASE FrontSaved
  <2>1. front.at = "save" /\ UNCHANGED <<file, cleared, path>> /\ front'.path = front.path
        /\ front'.at \notin {"remove", "bind"} /\ (front'.at = "swap" => front'.op # "clear")
        /\ (Holding' => Holding)
    BY <1>6, SavedGoesOn DEF Holding
  <2>. QED
    BY <2>1 DEF Gone
<1>7. CASE FrontSwap
  <2>1. path' \notin cleared /\ front' = NoCall /\ UNCHANGED <<file, cleared>>
    BY <1>7, FreshPath DEF FrontSwap, FreshFile, pastVars
  <2>. QED
    BY <2>1 DEF Gone, Holding, NoCall
<1>8. CASE FrontGiveUp
  <2>1. front.at = "load" /\ front' = NoCall /\ UNCHANGED <<file, cleared, path>>
    BY <1>8 DEF FrontGiveUp, diskVars, pastVars
  <2>. QED
    BY <2>1 DEF Gone, Holding, NoCall
<1>9. CASE FrontCopy
  <2>1. \A p \in cleared : file'[p] = file[p]
    BY <1>0, <1>9, FrontCopyDoes
  <2>2. front.at = "copy" /\ front'.at = "adopt" /\ front'.path \notin cleared'
        /\ path' = path /\ cleared' = cleared
    BY <1>9, FrontCopyDoes
  <2>. QED
    BY <2>1, <2>2 DEF Gone
<1>10. ASSUME NEW p \in Paths, FrontLoad(p) PROVE Gone'
  <2>1. front.at = "load" /\ UNCHANGED <<file, cleared, path>> /\ front'.path = p
        /\ file[p].saved
        /\ front'.at \in {"save", "adopt"}
    BY <1>0, <1>10 DEF FrontLoad, CallRec, diskVars, pastVars
  <2>. QED
    BY <2>1 DEF Gone
<1>11. CASE FrontAdopt
  <2>1. front.at = "adopt" /\ UNCHANGED <<file, cleared, path>> /\ front'.path = front.path
        /\ front'.at = "bind"
    BY <1>0, <1>11 DEF FrontAdopt, CallRec, diskVars, pastVars
  <2>. QED
    BY <2>1 DEF Gone, Holding
<1>12. CASE FrontBind
  <2>1. front.at = "bind" /\ path' = front.path /\ front' = NoCall /\ UNCHANGED <<file,
                                                                                  cleared>>
    BY <1>12 DEF FrontBind, ItsPath, diskVars, pastVars
  <2>. QED
    BY <2>1 DEF Gone, Holding, NoCall
<1>13. CASE Crash
  <2>1. path' = NoPath /\ front' = NoCall /\ UNCHANGED <<file, cleared>>
    BY <1>13, CrashDoes
  <2>. QED
    BY <1>0, <2>1 DEF Gone, Holding, NoCall
<1>. QED
  BY Writers, <1>1, <1>2, <1>3, <1>4, <1>5, <1>6, <1>7, <1>8, <1>9, <1>10, <1>11, <1>12,
     <1>13 DEF Fronts

LEMMA LeftStep ==
  ASSUME Here, Left, SessionNext, Alone'
  PROVE  Left'
<1> USE HereHas
<1>0. front \in CallRec /\ "front" \in Savers /\ Standing' /\ Apart'
  BY StandingTypes, StandingStep, ApartStep
<1>1. ASSUME front'.at = "idle" PROVE Left'
  BY <1>1 DEF Left, Stored
<1>2. ASSUME front'.at # "idle", ~Fronts, ~Crash
      PROVE  front' = front /\ front.at # "idle" /\ UNCHANGED <<list, path>>
  <2>1. front' = front /\ front.at # "idle" /\ ~running /\ compact.at = "idle"
        /\ turn.at = "idle"
    BY <1>2, Writers, CallAlone
  <2>2. ~TurnOpen /\ ~TurnAdd /\ ~TurnFold /\ ~CompactReplace
    BY <2>1 DEF TurnOpen, TurnAdd, TurnFold, CompactReplace
  <2>. QED
    BY <1>2, <2>1, <2>2, Writers DEF Fronts
<1>3. ASSUME front'.at # "idle", ~Fronts, ~Crash, ~Saves PROVE Left'
  <2>1. front' = front /\ UNCHANGED <<list, path>>
    BY <1>2, <1>3
  <2>2. file' = file
    BY <1>3, Writers DEF Fronts, Saves
  <2>3. saver' = saver \/ \E s \in Savers : Ask(s)
    BY <1>3, Writers
  <2>4. saver'["front"] = saver["front"] \/ saver'["front"].at = "asked"
    BY <1>0, <2>3, AskDoes
  <2>. QED
    BY <2>1, <2>2, <2>4 DEF Left, Stored
<1>4. ASSUME front'.at # "idle", NEW s \in Savers, ReadPath(s) PROVE Left'
  <2>1. UNCHANGED <<front, list, path, file>> /\ saver[s].at = "asked"
    BY <1>4, ReadPathDoes
  <2>2. s = "front" /\ front.at = "save"
    BY <1>4, <2>1, CallAlone
  <2>3. path = NoPath \/ saver'["front"].at = "located"
    BY <1>4, <2>2, ReadPathDoes
  <2>4. path = NoPath => saver'["front"] = Quiet
    BY <1>4, <2>2, ReadPathDoes
  <2>. QED
    BY <2>1, <2>2, <2>3, <2>4 DEF Left, Stored, Quiet
<1>5. ASSUME front'.at # "idle", NEW s \in Savers, CopyMessages(s) PROVE Left'
  <2>1. UNCHANGED <<front, list, path, file>> /\ saver[s].at = "located"
    BY <1>5, CopyMessagesDoes
  <2>2. s = "front" /\ front.at = "save"
    BY <1>5, <2>1, CallAlone
  <2>3. CASE list = <<>>
    <3>1. saver'["front"] = Quiet
      BY <1>5, <2>2, <2>3, CopyMessagesDoes
    <3>. QED
      BY <2>1, <2>2, <2>3, <3>1, TellsNothing DEF Left, Stored, Quiet
  <2>4. CASE list # <<>>
    <3>0. saver'["front"] = [at |-> "copied", path |-> saver["front"].path, list |-> list]
      BY <1>5, <2>2, <2>4, CopyMessagesDoes
    <3>1. saver'["front"].at = "copied" /\ saver'["front"].list = list
      BY <3>0
    <3>. QED
      BY <2>1, <2>2, <3>1 DEF Left, Stored
  <2>. QED
    BY <2>3, <2>4
<1>6. ASSUME front'.at # "idle", NEW s \in Savers, ReplaceFile(s) PROVE Left'
  <2>1. UNCHANGED <<front, list, path>> /\ saver[s].at = "copied"
    BY <1>6, ReplaceFileDoes
  <2>2. s = "front" /\ front.at = "save"
    BY <1>6, <2>1, CallAlone
  <2>3. saver["front"].list = list /\ saver["front"].path = path
    BY <2>1, <2>2 DEF Left, OwnSaves
  <2>4. file'[path] = [saved |-> TRUE, list |-> list] /\ saver'["front"] = Quiet
    BY <1>0, <1>6, <2>2, <2>3, ReplaceFileDoes
  <2>. QED
    BY <2>1, <2>4 DEF Left, Quiet
<1>7. ASSUME NEW op \in Ops, FrontCall(op) PROVE Left'
  <2>1. front'.at \in {"remove", "load", "save"} /\ (front'.at = "load" => front'.op = "reload")
    BY <1>7 DEF FrontCall, NoCall
  <2>2. front'.at = "save" => Ask("front")
    BY <1>7 DEF FrontCall, NoCall
  <2>3. front'.at = "save" => saver'["front"].at = "asked"
    BY <1>0, <2>2, AskDoes
  <2>. QED
    BY <2>1, <2>3 DEF Left, Stored
<1>8. CASE FrontRemove
  <2>1. front'.at = "swap" /\ front'.op = "clear"
    BY <1>8, FrontRemoveDoes DEF Standing, Calls
  <2>. QED
    BY <2>1 DEF Left, Stored
<1>9. CASE FrontSaved
  <2>1. front'.at # "save" /\ front.at = "save" /\ saver["front"].at = "idle"
        /\ UNCHANGED <<list, path, file>>
    BY <1>9, SavedGoesOn
  <2>. QED
    BY <2>1 DEF Left, Stored
<1>10. CASE FrontSwap \/ FrontGiveUp \/ FrontBind \/ Crash
  <2>1. front' = NoCall
    BY <1>10 DEF FrontSwap, FrontGiveUp, FrontBind, Crash
  <2>. QED
    BY <1>1, <2>1 DEF NoCall
<1>11. CASE FrontCopy
  <2>1. front.at = "copy" /\ front'.at = "adopt" /\ UNCHANGED <<list, path>>
    BY <1>11, FrontCopyDoes
  <2>2. path # NoPath => file'[path] = file[path]
    BY <1>11, FrontCopyDoes
  <2>. QED
    BY <2>1, <2>2 DEF Left, Stored
<1>12. ASSUME NEW p \in Paths, FrontLoad(p) PROVE Left'
  <2>1. /\ front.at = "load" /\ UNCHANGED <<list, path, file>>
        /\ IF front.op = "reload" THEN front'.at = "save" /\ Ask("front") ELSE front'.at = "adopt"
    BY <1>0, <1>12 DEF FrontLoad, CallRec, diskVars
  <2>2. front'.at = "save" => saver'["front"].at = "asked"
    BY <1>0, <2>1, AskDoes
  <2>. QED
    BY <2>1, <2>2 DEF Left, Stored
<1>13. CASE FrontAdopt
  <2>1. front'.at = "bind"
    BY <1>0, <1>13 DEF FrontAdopt, CallRec
  <2>. QED
    BY <2>1 DEF Left, Stored
<1>. QED
  BY <1>1, <1>3, <1>4, <1>5, <1>6, <1>7, <1>8, <1>9, <1>10, <1>11, <1>12, <1>13 DEF Fronts,
     Saves

-----------------------------------------------------------------------------
(* What was said is kept, as long as nothing at all ran together: the      *)
(* conversation in memory tells all of it, and so does the file of every   *)
(* other one.                                                              *)

KeptList == path # NoPath /\ front.at # "bind" => born[path] \subseteq Tells(list)

KeptSummary == compact.at = "summarizing" => born[path] \subseteq Tells(compact.list)

KeptCall == Holding => born[front.path] \subseteq Tells(front.list)

KeptFiles ==
  \A p \in Paths : p \notin cleared /\ (p # path \/ front.at = "bind") =>
    born[p] \subseteq Tells(file[p].list)

TurnGrows ==
  turn.at \in {"ask", "work"} /\ ~turn.folded => Len(list) = turn.start + turn.parts

Remembered == KeptList /\ KeptSummary /\ KeptCall /\ KeptFiles /\ TurnGrows

HereClean == Here /\ Gone /\ Left /\ Clean /\ Remembered

LEMMA CleanHas ==
  ASSUME HereClean
  PROVE  Here /\ Gone /\ Left /\ Clean /\ KeptList /\ KeptSummary /\ KeptCall /\ KeptFiles /\ TurnGrows
BY DEF HereClean, Remembered

LEMMA KeptListStep ==
  ASSUME HereClean, SessionNext
  PROVE  KeptList'
<1> USE CleanHas, HereHas
<1>1. ASSUME UNCHANGED <<list, path, born>>, front.at # "bind" PROVE KeptList'
  BY <1>1 DEF KeptList
<1>2. ASSUME UNCHANGED <<list, path, born, front>> PROVE KeptList'
  BY <1>2 DEF KeptList
<1>3. CASE TurnOpen
  <2>1. front.at = "idle" /\ UNCHANGED <<list, born, front>>
    BY <1>3 DEF TurnOpen, pastVars
  <2>2. path' = path \/ (path' # path /\ born[path'] = {})
    BY <1>3, FreshPath DEF TurnOpen
  <2>. QED
    BY <2>1, <2>2 DEF KeptList
<1>4. CASE TurnAdd
  <2>1. path \in Paths /\ path # NoPath /\ path' = path /\ front.at # "bind"
    BY <1>4, TurnAddDoes DEF Standing, Control
  <2>2. /\ Tells(list') = Tells(list) \cup {<<turn.id, turn.parts>>}
        /\ born'[path] = born[path] \cup {<<turn.id, turn.parts>>}
    BY <1>4, <2>1, TurnAddDoes
  <2>. QED
    BY <2>1, <2>2 DEF KeptList
<1>5. CASE TurnFold
  <2>1. Tells(list') = Tells(list) /\ UNCHANGED <<path, born, front>>
    BY <1>5, TurnFoldDoes
  <2>. QED
    BY <2>1 DEF KeptList
<1>6. CASE CompactReplace
  <2>1. Tells(list') = Tells(compact.list) /\ UNCHANGED <<path, born, front>>
        /\ compact.at = "summarizing"
    BY <1>6, CompactReplaceDoes
  <2>. QED
    BY <2>1 DEF KeptList, KeptSummary
<1>7. ASSUME NEW op \in Ops, FrontCall(op) PROVE KeptList'
  BY <1>1, <1>7 DEF FrontCall, pastVars
<1>8. ASSUME NEW p \in Paths, FrontLoad(p) PROVE KeptList'
  BY <1>1, <1>8 DEF FrontLoad, pastVars
<1>9. CASE FrontRemove \/ FrontSaved \/ FrontGiveUp
  BY <1>1, <1>9 DEF FrontRemove, FrontSaved, FrontGiveUp, pastVars
<1>10. CASE FrontSwap
  <2>1. born[path'] = {} /\ born' = born
    BY <1>10, FreshPath DEF FrontSwap, FreshFile, pastVars
  <2>. QED
    BY <2>1 DEF KeptList
<1>11. CASE FrontCopy
  <2>1. path' = path /\ list' = list /\ front.at # "bind" /\ (path # NoPath => born'[path] = born[path])
    BY <1>11, FrontCopyDoes
  <2>. QED
    BY <2>1 DEF KeptList
<1>12. CASE FrontAdopt
  <2>1. front'.at = "bind"
    BY <1>12, StandingTypes DEF FrontAdopt, CallRec
  <2>. QED
    BY <2>1 DEF KeptList
<1>13. CASE FrontBind
  <2>1. front.at = "bind" /\ path' = front.path /\ UNCHANGED <<list, born>>
    BY <1>13 DEF FrontBind, ItsPath, diskVars, pastVars
  <2>. QED
    BY <2>1 DEF KeptList, KeptCall, OwnCall, Holding
<1>14. CASE Crash
  BY <1>14, CrashDoes DEF KeptList
<1>. QED
  BY Writers, <1>2, <1>3, <1>4, <1>5, <1>6, <1>7, <1>8, <1>9, <1>10, <1>11, <1>12, <1>13,
     <1>14 DEF Fronts

LEMMA KeptSummaryStep ==
  ASSUME HereClean, SessionNext, Clean'
  PROVE  KeptSummary'
<1> USE CleanHas, HereHas
<1>0. Alone' /\ Apart'
  BY ApartStep DEF Clean, Alone
<1>1. ASSUME UNCHANGED <<compact, path, born>> PROVE KeptSummary'
  BY <1>1 DEF KeptSummary
<1>2. CASE CompactBegin
  <2>2. compact'.at = "summarizing" /\ compact'.list = list /\ UNCHANGED <<list, path, born,
                                                                           front>>
    BY <1>2 DEF CompactBegin, pastVars
  <2>3. front.at = "idle"
    BY <1>0, <2>2 DEF Apart
  <2>4. list # <<>>
    BY <1>2, FoldTells, StandingTypes DEF CompactBegin
  <2>5. path # NoPath
    BY <2>3, <2>4 DEF OwnList
  <2>. QED
    BY <2>2, <2>3, <2>5 DEF KeptSummary, KeptList
<1>3. CASE CompactReplace \/ CompactFail \/ CompactOver
  <2>1. compact'.at # "summarizing"
    BY <1>3 DEF CompactReplace, CompactFail, CompactOver
  <2>. QED
    BY <2>1 DEF KeptSummary
<1>4. CASE TurnOpen
  <2>1. compact' = compact /\ born' = born /\ (path # NoPath => path' = path)
    BY <1>4 DEF TurnOpen, pastVars
  <2>. QED
    BY <2>1 DEF KeptSummary, OwnSummary
<1>5. CASE TurnAdd
  <2>1. running /\ running' = running /\ compact' = compact
    BY <1>5, TurnAddDoes
  <2>2. compact'.at = "idle"
    BY <1>0, <2>1 DEF Apart
  <2>. QED
    BY <2>2 DEF KeptSummary
<1>6. ASSUME compact.at = "idle", compact' = compact PROVE KeptSummary'
  BY <1>6 DEF KeptSummary
<1>7. CASE FrontSwap \/ FrontBind
  BY <1>6, <1>7 DEF FrontSwap, FrontBind, FrontFrame
<1>8. CASE FrontCopy
  BY <1>6, <1>8 DEF FrontCopy, FrontFrame
<1>9. CASE Crash
  BY <1>9, CrashDoes DEF KeptSummary
<1>. QED
  BY Writers, <1>1, <1>2, <1>3, <1>4, <1>5, <1>7, <1>8, <1>9 DEF Compact

LEMMA KeptCallStep ==
  ASSUME HereClean, SessionNext, Clean'
  PROVE  KeptCall'
<1> USE CleanHas, HereHas
<1>0. front \in CallRec /\ Apart'
  BY StandingTypes, ApartStep
<1>1. ASSUME UNCHANGED <<front, born>> PROVE KeptCall'
  BY <1>1 DEF KeptCall, Holding
<1>2. CASE TurnAdd
  <2>1. front'.at = "idle"
    BY <1>2, TurnAddDoes
  <2>. QED
    BY <2>1 DEF KeptCall, Holding
<1>3. ASSUME NEW op \in Ops, FrontCall(op) PROVE KeptCall'
  BY <1>3 DEF FrontCall, NoCall, KeptCall, Holding
<1>4. CASE FrontRemove
  BY <1>4, FrontRemoveDoes DEF KeptCall, Holding
<1>5. CASE FrontSaved
  <2>1. (Holding' => Holding) /\ front'.path = front.path /\ front'.list = front.list /\ born' = born
    BY <1>5, SavedGoesOn DEF Holding
  <2>. QED
    BY <2>1 DEF KeptCall
<1>6. CASE FrontSwap \/ FrontGiveUp \/ FrontBind \/ Crash
  <2>1. front' = NoCall
    BY <1>6 DEF FrontSwap, FrontGiveUp, FrontBind, Crash
  <2>. QED
    BY <2>1 DEF KeptCall, Holding, NoCall
<1>7. CASE FrontCopy
  BY <1>7, FrontCopyDoes DEF KeptCall
<1>8. ASSUME NEW p \in Paths, FrontLoad(p) PROVE KeptCall'
  <2>1. /\ front.at = "load" /\ file[p].saved /\ front'.path = p /\ front'.list = file[p].list
        /\ front'.op = front.op /\ UNCHANGED <<born, path>>
        /\ front.op = "reload" => front'.at = "save"
    BY <1>0, <1>8 DEF FrontLoad, CallRec, pastVars
  <2>2. p \notin cleared
    BY <2>1 DEF Gone
  <2>3. CASE p # path
    BY <2>1, <2>2, <2>3 DEF KeptFiles, KeptCall
  <2>4. CASE p = path
    <3>1. front.op # "reload"
      BY <1>0, <2>1, <2>4 DEF Apart
    <3>2. path # NoPath
      BY <2>4 DEF Paths, NoPath
    <3>3. born[path] \subseteq Tells(list) /\ Tells(list) \subseteq Tells(file[path].list)
      BY <2>1, <3>1, <3>2 DEF KeptList, Left, Stored
    <3>. QED
      BY <2>1, <2>4, <3>3 DEF KeptCall
  <2>. QED
    BY <2>3, <2>4
<1>9. CASE FrontAdopt
  <2>1. Holding /\ front'.path = front.path /\ front'.list = front.list /\ born' = born
    BY <1>0, <1>9 DEF FrontAdopt, CallRec, Holding, pastVars
  <2>. QED
    BY <2>1 DEF KeptCall
<1>. QED
  BY Writers, <1>1, <1>2, <1>3, <1>4, <1>5, <1>6, <1>7, <1>8, <1>9 DEF Fronts

LEMMA KeptFilesStep ==
  ASSUME HereClean, SessionNext
  PROVE  KeptFiles'
<1> USE CleanHas, HereHas
<1>0. front \in CallRec /\ NoPath \notin Paths
  BY StandingTypes DEF NoPath, Paths
<1>1. ASSUME UNCHANGED <<file, born, cleared, path, front>> PROVE KeptFiles'
  BY <1>1 DEF KeptFiles
<1>2. ASSUME UNCHANGED <<file, born, cleared, path>>, front'.at # "bind" PROVE KeptFiles'
  BY <1>2 DEF KeptFiles
<1>3. ASSUME NEW s \in Savers, ReplaceFile(s) PROVE KeptFiles'
  <2>1. UNCHANGED <<born, cleared, path, front>> /\ saver[s].at = "copied"
    BY <1>3, ReplaceFileDoes
  <2>2. front.at # "bind" /\ saver[s].path = path
    BY <2>1 DEF OwnSaves
  <2>3. \A p \in Paths : p # path => file'[p] = file[p]
    BY <1>3, <2>2, ReplaceFileDoes
  <2>. QED
    BY <2>1, <2>2, <2>3 DEF KeptFiles
<1>4. CASE TurnAdd
  <2>1. UNCHANGED <<file, cleared, path, front>> /\ front.at = "idle"
        /\ \A p \in Paths : p # path => born'[p] = born[p]
    BY <1>4, TurnAddDoes
  <2>. QED
    BY <2>1 DEF KeptFiles
<1>5. CASE TurnOpen
  <2>1. UNCHANGED <<file, born, cleared, front>> /\ (path' # path => path = NoPath) /\ front.at = "idle"
    BY <1>5 DEF TurnOpen, pastVars
  <2>. QED
    BY <1>0, <2>1 DEF KeptFiles
<1>6. ASSUME NEW op \in Ops, FrontCall(op) PROVE KeptFiles'
  <2>1. front'.at # "bind" /\ UNCHANGED <<file, born, cleared, path>>
    BY <1>6 DEF FrontCall, NoCall, diskVars, pastVars
  <2>. QED
    BY <1>2, <2>1
<1>7. ASSUME NEW p \in Paths, FrontLoad(p) PROVE KeptFiles'
  <2>1. front'.at # "bind" /\ UNCHANGED <<file, born, cleared, path>>
    BY <1>0, <1>7 DEF FrontLoad, CallRec, diskVars, pastVars
  <2>. QED
    BY <1>2, <2>1
<1>8. CASE FrontSaved
  <2>1. front'.at # "bind" /\ UNCHANGED <<file, born, cleared, path>>
    BY <1>8, SavedGoesOn
  <2>. QED
    BY <1>2, <2>1
<1>9. CASE FrontGiveUp
  <2>1. front'.at # "bind" /\ UNCHANGED <<file, born, cleared, path>>
    BY <1>9 DEF FrontGiveUp, NoCall, diskVars, pastVars
  <2>. QED
    BY <1>2, <2>1
<1>10. CASE FrontRemove
  <2>1. UNCHANGED <<born, path>> /\ front'.at = "swap"
        /\ \A p \in Paths : p \notin cleared' => p \notin cleared /\ file'[p] = file[p]
    BY <1>10, FrontRemoveDoes
  <2>. QED
    BY <2>1 DEF KeptFiles
<1>11. CASE FrontSwap
  <2>1. front.at = "swap" /\ UNCHANGED <<file, born, cleared>> /\ front'.at = "idle"
    BY <1>11 DEF FrontSwap, NoCall, pastVars
  <2>2. path # NoPath /\ path \notin cleared => born[path] \subseteq Tells(file[path].list)
    BY <2>1 DEF Gone, Left, Stored, KeptList
  <2>3. ASSUME NEW p \in Paths, p \notin cleared PROVE born[p] \subseteq Tells(file[p].list)
    BY <1>0, <2>2, <2>3 DEF KeptFiles
  <2>. QED
    BY <2>1, <2>3 DEF KeptFiles
<1>12. CASE FrontCopy
  <2>0. /\ minted' \in Paths
        /\ \A p \in Paths : file'[p] = IF p = minted' THEN [saved |-> TRUE, list |-> list] ELSE file[p]
        /\ \A p \in Paths : born'[p] = IF p = minted' THEN Tells(list) ELSE born[p]
    BY <1>12, FrontCopyDoes
  <2>1. UNCHANGED <<cleared, path>> /\ front'.at = "adopt"
    BY <1>12, FrontCopyDoes
  <2>2. \A p \in Paths : p # minted' => file'[p] = file[p] /\ born'[p] = born[p]
    BY <2>0
  <2>3. file'[minted'] = [saved |-> TRUE, list |-> list] /\ born'[minted'] = Tells(list)
    BY <2>0
  <2>4. born'[minted'] \subseteq Tells(file'[minted'].list)
    BY <2>3
  <2>. QED
    BY <2>1, <2>2, <2>4 DEF KeptFiles
<1>13. CASE FrontAdopt
  <2>1. front.at = "adopt" /\ UNCHANGED <<file, born, cleared, path>>
    BY <1>13 DEF FrontAdopt, diskVars, pastVars
  <2>2. path # NoPath => born[path] \subseteq Tells(file[path].list)
    BY <2>1 DEF Left, Stored, KeptList
  <2>3. ASSUME NEW p \in Paths, p \notin cleared PROVE born[p] \subseteq Tells(file[p].list)
    BY <1>0, <2>2, <2>3 DEF KeptFiles
  <2>. QED
    BY <2>1, <2>3 DEF KeptFiles
<1>14. CASE FrontBind
  <2>1. front.at = "bind" /\ UNCHANGED <<file, born, cleared>>
    BY <1>14 DEF FrontBind, diskVars, pastVars
  <2>. QED
    BY <2>1 DEF KeptFiles
<1>15. CASE Crash
  BY <1>15, CrashDoes DEF KeptFiles
<1>. QED
  BY Writers, <1>1, <1>3, <1>4, <1>5, <1>6, <1>7, <1>8, <1>9, <1>10, <1>11, <1>12, <1>13,
     <1>14, <1>15 DEF Fronts

LEMMA TurnGrowsStep ==
  ASSUME HereClean, SessionNext, Clean'
  PROVE  TurnGrows'
<1> USE CleanHas, HereHas
<1>0. turn \in TurnRec /\ Apart' /\ Standing' /\ list \in Messages
  BY StandingTypes, ApartStep, StandingStep
<1>1. ASSUME UNCHANGED <<turn, list>> PROVE TurnGrows'
  BY <1>1 DEF TurnGrows
<1>2. ASSUME turn'.at \notin {"ask", "work"} PROVE TurnGrows'
  BY <1>2 DEF TurnGrows
<1>3. CASE TurnBegin \/ TurnOpen \/ TurnEnd \/ TurnOver
  BY <1>0, <1>2, <1>3 DEF TurnBegin, TurnOpen, TurnEnd, TurnOver, NoTurn, TurnRec
<1>4. CASE TurnCount
  <2>1. turn'.start = Len(list) /\ turn'.parts = 0 /\ list' = list /\ Len(list) \in Nat
    BY <1>0, <1>4 DEF TurnCount, TurnRec, Standing, Control, Messages
  <2>. QED
    BY <2>1 DEF TurnGrows
<1>5. CASE TurnAdd
  <2>1. /\ Len(list') = Len(list) + 1 /\ turn'.parts = turn.parts + 1 /\ turn'.start = turn.start
        /\ turn'.folded = turn.folded /\ turn.at \in {"ask", "work"} /\ turn.start \in Nat /\ turn.parts \in Nat
    BY <1>0, <1>5, TurnAddDoes, Bounds DEF TurnRec
  <2>. QED
    BY <2>1 DEF TurnGrows
<1>6. CASE TurnFold
  BY <1>6, TurnFoldDoes DEF TurnGrows
<1>7. CASE CompactReplace
  <2>1. compact'.at = "saving"
    BY <1>7, CompactReplaceDoes
  <2>2. ~running'
    BY <1>0, <2>1 DEF Apart
  <2>3. turn'.at = "idle"
    BY <1>0, <2>2 DEF Standing, Control
  <2>. QED
    BY <1>2, <2>3
<1>8. CASE FrontSwap \/ FrontAdopt
  <2>1. front.at # "idle" /\ turn' = turn
    BY <1>8 DEF FrontSwap, FrontAdopt, FrontFrame
  <2>. QED
    BY <1>2, <2>1
<1>9. CASE Crash
  BY <1>2, <1>9, CrashDoes
<1>. QED
  BY Writers, <1>1, <1>3, <1>4, <1>5, <1>6, <1>7, <1>8, <1>9 DEF Turn

-----------------------------------------------------------------------------
(* What a turn said is in its file once it is over, and from the moment    *)
(* its end is being saved no copy of an older state is on its way there.   *)

\* What turn t said, as far as the file in use is concerned.
Said(t) == {a \in born[path] : a[1] = t}

\* The turns whose last save has been asked for.
Lasting == {t \in 1..MaxTurns : t \notin exposed
                                /\ (t \in finished \/ (t = turn.id /\ turn.at = "saving"))}

InFile ==
  \A t \in finished : t \notin exposed /\ home[t] = path /\ path # NoPath /\ path \notin cleared =>
    Said(t) \subseteq Tells(file[path].list)

InSaves ==
  \A s \in Savers : \A t \in Lasting :
    saver[s].at = "copied" /\ home[t] = path => Said(t) \subseteq Tells(saver[s].list)

InTurn ==
  turn.at = "saving" /\ saver["turn"].at = "idle" /\ turn.id \notin exposed /\ home[turn.id] = path =>
    Said(turn.id) \subseteq Tells(file[path].list)

Saved == InFile /\ InSaves /\ InTurn

KeptHere == HereClean /\ Saved

LEMMA KeptHas ==
  ASSUME KeptHere
  PROVE  /\ HereClean /\ InFile /\ InSaves /\ InTurn
         /\ turn.at = "saving" => /\ running /\ front.at = "idle" /\ path # NoPath /\ path \in Paths
                                  /\ turn.id \in 1..MaxTurns /\ turn.id \notin finished
         /\ finished \subseteq 1..MaxTurns
         /\ \A t \in finished : t \notin exposed => t \in Lasting
<1>1. HereClean /\ InFile /\ InSaves /\ InTurn /\ Here /\ Standing
  BY CleanHas, HereHas DEF KeptHere, Saved
<1>2. finished \subseteq 1..MaxTurns /\ turn \in TurnRec
  BY <1>1, StandingTypes
<1>3. turn.at = "saving" => /\ running /\ front.at = "idle" /\ path # NoPath /\ path \in Paths
                            /\ turn.id \in 1..MaxTurns /\ turn.id \notin finished
  BY <1>1, <1>2, HereHas, Bounds DEF Standing, Control, TurnRec
<1>. QED
  BY <1>1, <1>2, <1>3 DEF Lasting

LEMMA InFileStep ==
  ASSUME KeptHere, SessionNext
  PROVE  InFile'
<1> USE KeptHas, CleanHas, HereHas
<1>0. finished \subseteq 1..MaxTurns /\ NoPath \notin Paths
  BY StandingTypes DEF NoPath, Paths
<1>1. ASSUME UNCHANGED <<finished, exposed, home, path, cleared, born, file>> PROVE InFile'
  BY <1>1 DEF InFile, Said
<1>2. ASSUME NEW s \in Savers, ReplaceFile(s) PROVE InFile'
  <2>1. UNCHANGED <<finished, exposed, home, path, cleared, born>> /\ saver[s].at = "copied"
    BY <1>2, ReplaceFileDoes
  <2>2. saver[s].path = path
    BY <2>1 DEF OwnSaves
  <2>3. file'[path] = [saved |-> TRUE, list |-> saver[s].list]
    BY <1>2, <2>2, ReplaceFileDoes
  <2>4. ASSUME NEW t \in finished, t \notin exposed, home[t] = path
        PROVE  Said(t) \subseteq Tells(file'[path].list)
    BY <2>1, <2>3, <2>4 DEF InSaves
  <2>. QED
    BY <2>1, <2>4 DEF InFile, Said
<1>3. CASE TurnOpen
  <2>1. UNCHANGED <<finished, exposed, home, cleared, born, file>>
    BY <1>3 DEF TurnOpen, pastVars
  <2>2. path' = path \/ \A t \in 1..MaxTurns : home[t] # path'
    BY <1>3, FreshPath DEF TurnOpen
  <2>. QED
    BY <1>0, <2>1, <2>2 DEF InFile, Said
<1>4. CASE TurnCount
  <2>1. UNCHANGED <<finished, exposed, path, cleared, born, file>> /\ turn.id \notin finished
        /\ \A t \in finished : home'[t] = home[t]
    BY <1>0, <1>4, StandingTypes DEF TurnCount, Standing, Control, diskVars
  <2>. QED
    BY <2>1 DEF InFile, Said
<1>5. CASE TurnAdd
  <2>1. UNCHANGED <<finished, exposed, home, path, cleared, file>>
        /\ turn.id \notin finished /\ path \in Paths
    BY <1>5, TurnAddDoes DEF Standing, Control
  <2>2. born'[path] = born[path] \cup {<<turn.id, turn.parts>>}
    BY <1>5, <2>1, TurnAddDoes
  <2>3. \A t \in finished : Said(t)' \subseteq Said(t)
    BY <2>1, <2>2 DEF Said
  <2>. QED
    BY <2>1, <2>3 DEF InFile
<1>6. CASE TurnEnd
  <2>1. UNCHANGED <<finished, home, path, cleared, born, file>> /\ exposed \subseteq exposed'
    BY <1>6 DEF TurnEnd, diskVars
  <2>. QED
    BY <2>1 DEF InFile, Said
<1>7. CASE TurnOver
  <2>1. UNCHANGED <<exposed, home, path, cleared, born, file>>
        /\ finished' = finished \cup {turn.id}
        /\ turn.at = "saving" /\ saver["turn"].at = "idle"
    BY <1>7 DEF TurnOver, Idle, diskVars
  <2>. QED
    BY <2>1 DEF InFile, InTurn, Said
<1>8. CASE FrontRemove
  <2>1. front.path = path /\ UNCHANGED <<finished, exposed, home, path, born>>
    BY <1>8, FrontRemoveDoes DEF Gone
  <2>2. path \notin Paths \/ path \in cleared'
    BY <1>8, <2>1, FrontRemoveDoes
  <2>. QED
    BY <2>1, <2>2 DEF InFile
<1>9. CASE FrontSwap
  <2>1. UNCHANGED <<finished, exposed, home, cleared, born, file>> /\ \A t \in 1..MaxTurns : home[t] # path'
    BY <1>9, FreshPath DEF FrontSwap, FreshFile, pastVars
  <2>. QED
    BY <1>0, <2>1 DEF InFile
<1>10. CASE FrontCopy
  <2>1. UNCHANGED <<finished, exposed, home, path, cleared>>
        /\ (path # NoPath => born'[path] = born[path] /\ file'[path] = file[path])
    BY <1>10, FrontCopyDoes
  <2>. QED
    BY <2>1 DEF InFile, Said
<1>11. CASE FrontBind
  <2>1. front.at = "bind" /\ UNCHANGED <<finished, exposed, home, cleared, born, file>>
        /\ path' = front.path
    BY <1>11 DEF FrontBind, ItsPath, diskVars, pastVars
  <2>2. path' \in Paths
    BY <1>11, StandingTypes, Bounds, <2>1 DEF FrontBind, Standing, Names, Holding, Paths
  <2>3. path' \notin cleared => born[path'] \subseteq Tells(file[path'].list)
    BY <2>1, <2>2 DEF KeptFiles
  <2>. QED
    BY <2>1, <2>3 DEF InFile, Said
<1>12. CASE Crash
  BY <1>12, CrashDoes DEF InFile
<1>. QED
  BY Writers, <1>1, <1>2, <1>3, <1>4, <1>5, <1>6, <1>7, <1>8, <1>9, <1>10, <1>11, <1>12

LEMMA InSavesStep ==
  ASSUME KeptHere, SessionNext
  PROVE  InSaves'
<1> USE KeptHas, CleanHas, HereHas
<1>0. /\ finished \subseteq 1..MaxTurns /\ turn \in TurnRec /\ saver \in [Savers -> SaveRec]
      /\ home \in [1..MaxTurns -> 0..MaxPaths]
  BY StandingTypes
\* Saves that copy nothing: all that is needed is that Lasting does not grow.
<1>1. ASSUME \A s \in Savers : saver'[s].at = "copied" => saver'[s] = saver[s],
             UNCHANGED <<path, home>>, Lasting' \subseteq Lasting,
             \A t \in Lasting' : Said(t)' \subseteq Said(t)
      PROVE  InSaves'
  BY <1>1 DEF InSaves
<1>2. ASSUME UNCHANGED <<turn, finished, exposed>> PROVE Lasting' = Lasting
  BY <1>2 DEF Lasting
<1>3. ASSUME UNCHANGED <<path, born>>, NEW t PROVE Said(t)' = Said(t)
  BY <1>3 DEF Said
<1>4. ASSUME \A s \in Savers : saver'[s].at # "copied" PROVE InSaves'
  BY <1>4 DEF InSaves
<1>5. ASSUME NEW s \in Savers, ReadPath(s) PROVE InSaves'
  <2>1. UNCHANGED <<path, home, turn, finished, exposed, born>>
    BY <1>5, ReadPathDoes
  <2>2. \A r \in Savers : saver'[r].at = "copied" => saver'[r] = saver[r]
    BY <1>5, ReadPathDoes DEF Quiet
  <2>. QED
    BY <1>1, <1>2, <1>3, <2>1, <2>2
<1>6. ASSUME NEW s \in Savers, CopyMessages(s) PROVE InSaves'
  <2>1. UNCHANGED <<path, home, turn, finished, exposed, born>> /\ saver[s].at = "located"
    BY <1>6, CopyMessagesDoes
  <2>2. born[path] \subseteq Tells(list)
    BY <2>1 DEF KeptList
  <2>3. saver'[s] = Quiet \/ saver'[s] = [at |-> "copied", path |-> saver[s].path, list |-> list]
    BY <1>6, CopyMessagesDoes
  <2>4. ASSUME NEW t \in Lasting, saver'[s].at = "copied"
        PROVE  Said(t) \subseteq Tells(saver'[s].list)
    <3>1. saver'[s].list = list
      BY <2>3, <2>4 DEF Quiet
    <3>. QED
      BY <2>2, <3>1 DEF Said
  <2>5. \A r \in Savers \ {s} : saver'[r] = saver[r]
    BY <1>6, CopyMessagesDoes
  <2>. QED
    BY <1>2, <1>3, <2>1, <2>4, <2>5 DEF InSaves
<1>7. ASSUME NEW s \in Savers, ReplaceFile(s) PROVE InSaves'
  <2>1. UNCHANGED <<path, home, turn, finished, exposed, born>>
    BY <1>7, ReplaceFileDoes
  <2>2. \A r \in Savers : saver'[r].at = "copied" => saver'[r] = saver[r]
    <3>1. \A r \in Savers : saver'[r] = Quiet \/ saver'[r] = saver[r]
      BY <1>7, ReplaceFileDoes
    <3>. QED
      BY <3>1 DEF Quiet
  <2>. QED
    BY <1>1, <1>2, <1>3, <2>1, <2>2
<1>8. CASE TurnBegin \/ TurnFold
  <2>1. UNCHANGED <<path, home, finished, exposed, born, saver>> /\ turn'.at # "saving"
    BY <1>0, <1>8, TurnFoldDoes DEF TurnBegin, NoTurn, TurnRec, pastVars
  <2>2. Lasting' \subseteq Lasting
    BY <2>1 DEF Lasting
  <2>. QED
    BY <1>1, <1>3, <2>1, <2>2
<1>9. CASE TurnOpen
  <2>1. UNCHANGED <<home, finished, exposed, born, saver>> /\ turn'.at # "saving"
        /\ (path # NoPath => path' = path)
    BY <1>0, <1>9 DEF TurnOpen, TurnRec, pastVars
  <2>2. Lasting' \subseteq Lasting
    BY <2>1 DEF Lasting
  <2>3. CASE path # NoPath
    BY <1>1, <1>3, <2>1, <2>2, <2>3
  <2>4. CASE path = NoPath
    <3>1. \A s \in Savers : saver'[s].at # "copied"
      BY <2>1, <2>4
    <3>. QED
      BY <1>4, <3>1
  <2>. QED
    BY <2>3, <2>4
<1>10. CASE TurnCount
  <2>1. UNCHANGED <<path, finished, exposed, born, saver>> /\ turn'.at # "saving"
        /\ turn.id \notin finished
        /\ \A t \in finished : home'[t] = home[t]
    BY <1>0, <1>10 DEF TurnCount, TurnRec, Standing, Control
  <2>2. Lasting' \subseteq Lasting /\ Lasting' \subseteq finished
    BY <2>1 DEF Lasting
  <2>. QED
    BY <1>3, <2>1, <2>2 DEF InSaves
<1>11. CASE TurnAdd
  <2>1. UNCHANGED <<finished, exposed, home, path, saver>> /\ turn'.at # "saving"
        /\ turn.id \notin finished
        /\ path \in Paths
    BY <1>11, TurnAddDoes DEF Standing, Control
  <2>2. born'[path] = born[path] \cup {<<turn.id, turn.parts>>}
    BY <1>11, <2>1, TurnAddDoes
  <2>3. Lasting' \subseteq Lasting /\ Lasting' \subseteq finished
    BY <2>1 DEF Lasting
  <2>4. \A t \in finished : Said(t)' \subseteq Said(t)
    BY <2>1, <2>2 DEF Said
  <2>. QED
    BY <1>1, <2>1, <2>3, <2>4
<1>12. CASE TurnEnd
  <2>1. /\ UNCHANGED <<path, home, finished, born>> /\ turn'.id = turn.id /\ turn.at \in {"ask", "work"}
        /\ exposed \subseteq exposed' /\ (turn.id \notin exposed' => saver["autosave"].at = "idle")
    BY <1>0, <1>12 DEF TurnEnd, TurnRec, Idle
  <2>2. saver' = saver \/ Ask("turn")
    BY <1>12 DEF TurnEnd
  <2>3. \A s \in Savers : saver'[s].at = "copied" => saver'[s] = saver[s]
    <3>1. "turn" \in Savers
      BY DEF Savers
    <3>. QED
      BY <2>2, <3>1, AskDoes
  <2>4. CASE turn.id \in exposed'
    <3>1. Lasting' \subseteq Lasting
      BY <2>1, <2>4 DEF Lasting
    <3>. QED
      BY <1>1, <1>3, <2>1, <2>3, <3>1
  <2>5. CASE turn.id \notin exposed'
    <3>1. \A s \in Savers : saver[s].at = "idle"
      BY <2>1, <2>5 DEF Standing, Control, Apart, Idle, Savers
    <3>2. \A s \in Savers : saver'[s].at # "copied"
      BY <2>3, <3>1
    <3>. QED
      BY <1>4, <3>2
  <2>. QED
    BY <2>4, <2>5
<1>13. CASE TurnOver
  <2>1. UNCHANGED <<path, home, exposed, born, saver>> /\ finished' = finished \cup {turn.id}
        /\ turn'.at = "idle" /\ turn.at = "saving"
    BY <1>13 DEF TurnOver, NoTurn
  <2>2. Lasting' \subseteq Lasting
    BY <2>1 DEF Lasting
  <2>. QED
    BY <1>1, <1>3, <2>1, <2>2
<1>14. CASE FrontSwap \/ FrontBind
  BY <1>4, <1>14 DEF FrontSwap, FrontBind
<1>15. CASE FrontCopy
  BY <1>4, <1>15, FrontCopyDoes
<1>16. CASE Crash
  BY <1>4, <1>16, CrashDoes DEF Quiet
<1>17. ASSUME ~Saves, ~Turn, ~FrontSwap, ~FrontBind, ~FrontCopy, ~Crash PROVE InSaves'
  <2>0. ~TurnOpen /\ ~TurnAdd /\ ~TurnCount /\ ~TurnEnd /\ ~TurnOver
    BY <1>17 DEF Turn
  <2>1. UNCHANGED <<path, home, turn, finished, exposed, born>>
    BY <1>17, <2>0, Writers
  <2>2. saver' = saver \/ \E s \in Savers : Ask(s)
    BY <1>17, Writers
  <2>3. \A s \in Savers : saver'[s].at = "copied" => saver'[s] = saver[s]
    BY <2>2, AskDoes
  <2>. QED
    BY <1>1, <1>2, <1>3, <2>1, <2>3
<1>. QED
  BY <1>5, <1>6, <1>7, <1>8, <1>9, <1>10, <1>11, <1>12, <1>13, <1>14, <1>15, <1>16,
     <1>17 DEF Saves, Turn

LEMMA InTurnStep ==
  ASSUME KeptHere, SessionNext
  PROVE  InTurn'
<1> USE KeptHas, CleanHas, HereHas
<1>0. turn \in TurnRec /\ "turn" \in Savers /\ "front" # "turn" /\ list \in Messages
  BY StandingTypes
<1>1. ASSUME turn'.at # "saving" \/ saver'["turn"].at # "idle" PROVE InTurn'
  BY <1>1 DEF InTurn
<1>2. ASSUME turn.at = "saving", turn' = turn,
             UNCHANGED <<exposed, home, path, born, file>>, saver'["turn"] = saver["turn"]
      PROVE  InTurn'
  BY <1>2 DEF InTurn, Said
<1>3. CASE TurnEnd
  <2>1. /\ UNCHANGED <<path, home, born, file, list>> /\ turn'.id = turn.id /\ turn.at \in {"ask", "work"}
        /\ turn.folded => turn.id \in exposed'
        /\ IF Len(list) > turn.start THEN Ask("turn") ELSE saver' = saver
    BY <1>0, <1>3 DEF TurnEnd, TurnRec, Changed, diskVars
  <2>2. CASE Len(list) > turn.start
    <3>1. saver'["turn"].at = "asked"
      BY <1>0, <2>1, <2>2, AskDoes
    <3>. QED
      BY <1>1, <3>1
  <2>3. CASE turn.folded
    BY <2>1, <2>3 DEF InTurn
  <2>4. CASE ~turn.folded /\ ~(Len(list) > turn.start)
    <3>1. turn.parts = 0
      <4>1. Len(list) = turn.start + turn.parts /\ turn.start \in Nat /\ turn.parts \in Nat
        BY <1>0, <2>1, <2>4, Bounds DEF TurnGrows, TurnRec
      <4>. QED
        BY <2>4, <4>1
    <3>2. path \in Paths
      BY <2>1 DEF Standing, Control
    <3>3. ASSUME NEW a \in born[path], a[1] = turn.id PROVE FALSE
      <4>1. a[2] < turn.parts
        BY <2>1, <3>2, <3>3 DEF OwnTurns
      <4>2. a[2] \in Nat
        <5>1. a \in Told
          BY <3>2, <3>3, StandingTypes
        <5>. QED
          BY <5>1, Bounds DEF Told
      <4>. QED
        BY <3>1, <4>1, <4>2
    <3>4. Said(turn.id)' = {}
      BY <2>1, <3>3 DEF Said
    <3>. QED
      BY <2>1, <3>4 DEF InTurn
  <2>. QED
    BY <2>2, <2>3, <2>4
<1>4. CASE Turn /\ ~TurnEnd
  <2>1. turn'.at # "saving"
    BY <1>0, <1>4, TurnAddDoes, TurnFoldDoes
    DEF Turn, TurnBegin, TurnOpen, TurnCount, TurnOver, NoTurn, TurnRec
  <2>. QED
    BY <1>1, <2>1
<1>5. CASE Crash
  BY <1>1, <1>5, CrashDoes
<1>6. ASSUME turn.at = "saving", NEW s \in Savers, ReadPath(s) PROVE InTurn'
  <2>1. UNCHANGED <<turn, exposed, home, path, born, file>>
    BY <1>6, ReadPathDoes
  <2>2. CASE s = "turn"
    <3>1. saver'["turn"] = [at |-> "located", path |-> path, list |-> <<>>]
      BY <1>6, <2>2, ReadPathDoes
    <3>2. saver'["turn"].at # "idle"
      BY <3>1
    <3>. QED
      BY <1>1, <3>2
  <2>3. CASE s # "turn"
    <3>0. \A r \in Savers \ {s} : saver'[r] = saver[r]
      BY <1>6, ReadPathDoes
    <3>1. saver'["turn"] = saver["turn"]
      BY <1>0, <2>3, <3>0
    <3>. QED
      BY <1>2, <1>6, <2>1, <3>1
  <2>. QED
    BY <2>2, <2>3
<1>7. ASSUME turn.at = "saving", NEW s \in Savers, CopyMessages(s) PROVE InTurn'
  <2>1. UNCHANGED <<turn, exposed, home, path, born, file>>
    BY <1>7, CopyMessagesDoes
  <2>2. CASE s = "turn" /\ list # <<>>
    <3>1. saver'["turn"] = [at |-> "copied", path |-> saver["turn"].path, list |-> list]
      BY <1>7, <2>2, CopyMessagesDoes
    <3>. QED
      BY <1>1, <3>1
  <2>3. CASE s = "turn" /\ list = <<>>
    <3>1. born[path] = {}
      BY <1>7, <2>3, TellsNothing DEF KeptList
    <3>2. Said(turn.id)' = {}
      BY <2>1, <3>1 DEF Said
    <3>. QED
      BY <2>1, <3>2 DEF InTurn
  <2>4. CASE s # "turn"
    <3>0. \A r \in Savers \ {s} : saver'[r] = saver[r]
      BY <1>7, CopyMessagesDoes
    <3>1. saver'["turn"] = saver["turn"]
      BY <1>0, <2>4, <3>0
    <3>. QED
      BY <1>2, <1>7, <2>1, <3>1
  <2>. QED
    BY <2>2, <2>3, <2>4
<1>8. ASSUME turn.at = "saving", NEW s \in Savers, ReplaceFile(s) PROVE InTurn'
  <2>1. UNCHANGED <<turn, exposed, home, path, born>> /\ saver[s].at = "copied"
    BY <1>8, ReplaceFileDoes
  <2>2. saver[s].path = path
    BY <2>1 DEF OwnSaves
  <2>3. file'[path] = [saved |-> TRUE, list |-> saver[s].list]
    BY <1>8, <2>2, ReplaceFileDoes
  <2>4. file'[path].list = saver[s].list
    BY <2>3
  <2>5. turn.id \notin exposed => turn.id \in Lasting
    BY <1>8 DEF Lasting
  <2>. QED
    BY <1>8, <2>1, <2>4, <2>5 DEF InTurn, InSaves, Said
<1>9. ASSUME turn.at = "saving", ~Saves, ~Turn, ~Crash PROVE InTurn'
  <2>0. ~TurnOpen /\ ~TurnAdd /\ ~TurnCount /\ ~TurnEnd /\ ~TurnOver
        /\ ~FrontRemove /\ ~FrontSwap /\ ~FrontCopy /\ ~FrontBind
    BY <1>9 DEF Turn, FrontRemove, FrontSwap, FrontCopy, FrontBind
  <2>1. UNCHANGED <<turn, exposed, home, path, born, file>>
    BY <1>9, <2>0, Writers DEF Saves
  <2>2. saver' = saver \/ \E s \in Savers : Ask(s)
    BY <1>9, Writers
  <2>3. saver'["turn"] = saver["turn"] \/ saver'["turn"].at = "asked"
    BY <1>0, <2>2, AskDoes
  <2>. QED
    BY <1>1, <1>2, <1>9, <2>1, <2>3
<1>10. ASSUME turn.at # "saving", ~Turn, ~Crash PROVE InTurn'
  <2>1. turn' = turn
    BY <1>10, Writers
  <2>. QED
    BY <1>1, <1>10, <2>1
<1>. QED
  BY <1>3, <1>4, <1>5, <1>6, <1>7, <1>8, <1>9, <1>10 DEF Saves

-----------------------------------------------------------------------------
(* The invariant, and what it gives.                                       *)

FilesInv ==
  /\ Standing /\ Apart
  /\ Alone => Own /\ Gone /\ Left
  /\ Clean => Remembered /\ Saved

LEMMA FilesInit ==
  ASSUME SessionInit
  PROVE  FilesInv
<1> USE Bounds, TellsNothing
<1>1. Types
  <2>1. NoTurn \in TurnRec /\ Quiet \in SaveRec /\ NoCall \in CallRec
    BY DEF NoTurn, TurnRec, Quiet, SaveRec, NoCall, CallRec, NoPath
  <2>2. [at |-> "idle", list |-> <<>>] \in CompactRec
        /\ NoFile \in [saved : BOOLEAN, list : Messages]
    BY DEF CompactRec, NoFile
  <2>3. HereTypes
    <3>1. running \in BOOLEAN /\ turn \in TurnRec
      BY <2>1 DEF SessionInit
    <3>2. minted \in 0..MaxPaths /\ path \in 0..minted /\ list \in Messages
      BY DEF SessionInit, NoPath
    <3>. QED
      BY <3>1, <3>2 DEF HereTypes
  <2>4. DiskTypes /\ CallTypes
    BY <2>1, <2>2 DEF SessionInit, DiskTypes, CallTypes
  <2>5. PastTypes
    BY DEF SessionInit, PastTypes, NoPath
  <2>. QED
    BY <2>3, <2>4, <2>5 DEF Types
<1>2. Control /\ Calls /\ Names
  <2>1. Control
    BY DEF SessionInit, Control, NoTurn, NoCall, Quiet, Idle, NoPath, Savers
  <2>2. Calls
    BY DEF SessionInit, Calls, NoCall
  <2>3. Names
    BY DEF SessionInit, Names, Holding, Quiet, NoCall, NoPath
  <2>. QED
    BY <2>1, <2>2, <2>3
<1>3. Apart
  BY DEF SessionInit, Apart, NoCall
<1>4. Own
  <2>1. OwnFiles
    BY DEF SessionInit, OwnFiles, NoFile
  <2>2. OwnList /\ OwnSaves /\ OwnSummary /\ OwnCall /\ OwnTurns
    BY DEF SessionInit, OwnList, OwnSaves, OwnSummary, OwnCall, OwnTurns, Quiet, NoCall, Holding
  <2>. QED
    BY <2>1, <2>2 DEF Own
<1>5. Gone /\ Left
  BY DEF SessionInit, Gone, Left, Stored, NoCall, Holding
<1>6. Remembered
  BY DEF SessionInit, Remembered, KeptList, KeptSummary, KeptCall, KeptFiles, TurnGrows,
     NoTurn, NoCall, Holding
<1>7. Saved
  BY DEF SessionInit, Saved, InFile, InSaves, InTurn, Quiet, NoTurn
<1>. QED
  BY <1>1, <1>2, <1>3, <1>4, <1>5, <1>6, <1>7 DEF FilesInv, Standing

LEMMA FilesStep ==
  ASSUME FilesInv, SessionNext
  PROVE  FilesInv'
<1>1. Standing' /\ Apart' /\ (Alone' => Alone) /\ (Clean' => Clean /\ Alone)
  BY StandingStep, ApartStep DEF FilesInv
<1>2. ASSUME Alone' PROVE Own' /\ Gone' /\ Left'
  <2>1. Here /\ Gone /\ Left
    BY <1>1, <1>2 DEF FilesInv, Here
  <2>. QED
    BY <1>2, <2>1, OwnStep, GoneStep, LeftStep DEF Here
<1>3. ASSUME Clean' PROVE Remembered' /\ Saved'
  <2>1. KeptHere /\ HereClean
    BY <1>1, <1>3 DEF FilesInv, Here, HereClean, KeptHere
  <2>2. Remembered'
    BY <1>3, <2>1, KeptListStep, KeptSummaryStep, KeptCallStep, KeptFilesStep,
       TurnGrowsStep DEF Remembered
  <2>3. Saved'
    BY <2>1, InFileStep, InSavesStep, InTurnStep DEF Saved
  <2>. QED
    BY <2>2, <2>3
<1>. QED
  BY <1>1, <1>2, <1>3 DEF FilesInv

LEMMA FilesInductive ==
  ASSUME FilesInv, [SessionNext]_sessionVars
  PROVE  FilesInv'
<1>1. CASE SessionNext
  BY <1>1, FilesStep
<1>2. CASE UNCHANGED sessionVars
  <2>0. UNCHANGED <<running, path, list, file, minted, turn, saver, compact, front, born, home,
                    finished, exposed, cleared, overlaps>>
    BY <1>2 DEF sessionVars, diskVars, pastVars
  <2>1. Standing'
    BY <1>2, StandingStep DEF FilesInv
  <2>2. Apart' /\ Alone' = Alone /\ Clean' = Clean
    BY <2>0 DEF FilesInv, Apart, Alone, Clean, Idle
  <2>3. Own => Own'
    BY <2>0 DEF Own, OwnFiles, OwnList, OwnSaves, OwnSummary, OwnCall, OwnTurns, Holding
  <2>4. Gone /\ Left => Gone' /\ Left'
    BY <2>0 DEF Gone, Left, Stored, Holding
  <2>5. Remembered => Remembered'
    BY <2>0 DEF Remembered, KeptList, KeptSummary, KeptCall, KeptFiles, TurnGrows, Holding
  <2>6. Saved => Saved'
    BY <2>0 DEF Saved, InFile, InSaves, InTurn, Said, Lasting
  <2>. QED
    BY <2>1, <2>2, <2>3, <2>4, <2>5, <2>6 DEF FilesInv
<1>. QED
  BY <1>1, <1>2

LEMMA FilesHold == SessionSpec => []FilesInv
<1>1. SessionInit => FilesInv
  BY FilesInit
<1>2. FilesInv /\ [SessionNext]_sessionVars => FilesInv'
  BY FilesInductive
<1>. QED
  BY <1>1, <1>2, PTL DEF SessionSpec

(* The variables keep their types.                                         *)
THEOREM SessionTypeCorrect == SessionSpec => []SessionTypes
<1>1. FilesInv => SessionTypes
  <2>1. ASSUME Standing PROVE SessionTypes
    BY <2>1 DEF Standing, Types, HereTypes, DiskTypes, CallTypes, PastTypes, SaveRec,
       CompactRec,
                CallRec, Names, SessionTypes, Told
  <2>. QED
    BY <2>1 DEF FilesInv
<1>. QED
  BY <1>1, FilesHold, PTL

(* A session file tells only what was said in its own conversation,        *)
(* whatever saves, folds, calls and crashes there have been, as long as    *)
(* nothing ran beside a call that left a conversation.                     *)
THEOREM FilesAreTheirOwn == SessionSpec => []FileIsItsOwn
<1>1. FilesInv => FileIsItsOwn
  BY DEF FilesInv, FileIsItsOwn, Own, OwnFiles
<1>. QED
  BY <1>1, FilesHold, PTL

(* The conversation in memory tells all that was said in it, and a turn    *)
(* that has ended is in its file, however often the process ends.          *)
THEOREM TurnsKept == SessionSpec => []TurnsAreKept
<1>1. ASSUME FilesInv PROVE NothingForgotten
  <2>1. ASSUME overlaps = {}, path # NoPath, front.at # "bind" PROVE Tells(list) = born[path]
    <3>1. Own /\ Remembered
      BY <1>1, <2>1 DEF FilesInv, Clean, Alone
    <3>. QED
      BY <2>1, <3>1 DEF Own, OwnList, Remembered, KeptList
  <2>. QED
    BY <2>1 DEF NothingForgotten
<1>2. ASSUME FilesInv PROVE FinishedTurnsAreSaved
  <2>1. ASSUME overlaps = {}, NEW t \in finished \ exposed, home[t] # NoPath, home[t] \notin cleared
        PROVE  {a \in born[home[t]] : a[1] = t} \subseteq Tells(file[home[t]].list)
    <3>1. Standing /\ Remembered /\ Saved
      BY <1>2, <2>1 DEF FilesInv, Clean
    <3>2. home[t] \in Paths
      BY <2>1, <3>1, StandingTypes, Bounds DEF NoPath, Paths
    <3>3. CASE home[t] = path
      BY <2>1, <3>1, <3>3 DEF Saved, InFile, Said
    <3>4. CASE home[t] # path
      <4>1. born[home[t]] \subseteq Tells(file[home[t]].list)
        BY <2>1, <3>1, <3>2, <3>4 DEF Remembered, KeptFiles
      <4>. QED
        BY <4>1
    <3>. QED
      BY <3>3, <3>4
  <2>. QED
    BY <2>1 DEF FinishedTurnsAreSaved, TurnIsSaved
<1>3. FilesInv => TurnsAreKept
  BY <1>1, <1>2 DEF TurnsAreKept
<1>. QED
  BY <1>3, FilesHold, PTL

(* A conversation is left as the user asked: with all it tells in its      *)
(* file, or, cleared, with a file that no later save brings back.          *)
THEOREM LeftAsTheUserAsked == SessionSpec => []LeftAsAsked
<1>1. ASSUME FilesInv PROVE LeftIsSaved
  <2>1. ASSUME Alone, path # NoPath, front.at \in {"swap", "adopt"}, front.op # "clear"
        PROVE  Tells(list) \subseteq Tells(file[path].list)
    BY <1>1, <2>1 DEF FilesInv, Left, Stored
  <2>. QED
    BY <2>1 DEF LeftIsSaved
<1>2. ASSUME FilesInv PROVE ClearedStaysGone
  BY <1>2 DEF FilesInv, Gone, ClearedStaysGone
<1>3. FilesInv => LeftAsAsked
  BY <1>1, <1>2 DEF LeftAsAsked
<1>. QED
  BY <1>3, FilesHold, PTL
=============================================================================
