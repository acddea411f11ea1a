-------------------------- MODULE Scheduler_proofs --------------------------
(***************************************************************************)
(* The timer, the fires and the task list of Scheduler, for any number of  *)
(* tasks and goroutines, any instants and periods.                         *)
(***************************************************************************)
EXTENDS Scheduler, SequenceTheorems, TLAPS

Listed(ts, ids) ==
  /\ ts \in Seq(Entries)
  /\ Distinct(ts)
  /\ \A i \in DOMAIN ts : ts[i].id \in ids

Scalars ==
  /\ time \in Nat /\ up \in BOOLEAN /\ running \in BOOLEAN /\ timer \in Nat
  /\ at \in [Fires -> {"idle", "started", "collecting", "picking", "running", "arming"}]
  /\ due \in [Fires -> SUBSET Nat]
  /\ task \in [Fires -> Tasks \cup {Never}]
  /\ manual \subseteq Tasks /\ missed \subseteq Tasks /\ told \subseteq Tasks
  /\ created \subseteq Tasks /\ edits \in Nat

(* The list and the file hold tasks that were created, each once.          *)
Lists == Listed(tasks, created) /\ Listed(disk, created)

(* While the application is down nothing is set and nothing runs.          *)
Down == ~up => ~running /\ timer = Never /\ \A f \in Fires : ~InFlight(f)

(* A timer that is set while a fire runs was set by somebody else.         *)
SetByOthers == timer # Never => \A f \in Fires : InFlight(f) => f \in disturbed

Flights == Down /\ Sequential /\ SetByOthers

(* What an undisturbed fire has still to run is due, and the task it runs  *)
(* is the first of these.                                                  *)
DueInv ==
  \A f \in Fires \ disturbed :
    /\ at[f] \in {"picking", "running"} =>
         \A k \in due[f] : k \in DOMAIN tasks /\ IsDue(tasks[k])
    /\ at[f] = "running" => \E i \in IndexOf(tasks, task[f]) : IsFirst(f, i)

(* No entry holds an instant that was recorded, and those are past.        *)
Unsettled(ts) ==
  \A i \in DOMAIN ts :
    ts[i].nextRun # Never => <<ts[i].id, ts[i].nextRun>> \notin settled

Past == \A id, t : <<id, t>> \in settled => t \in Nat /\ t <= time

AgainInv == Past /\ Unsettled(tasks) /\ Unsettled(disk)

IInv == Scalars /\ Lists /\ Armed /\ Flights /\ DueInv /\ AgainInv

-----------------------------------------------------------------------------
(* Expressions and lists.                                                  *)

LEMMA LaterThanNow ==
  ASSUME NEW e \in Exprs
  PROVE  e.when \in Nat /\ e.when > 0
<1>0. \A n \in Nat \ {0} : n \in Nat /\ n > 0
  OBVIOUS
<1>1. CASE e \in [kind : {"at"}, when : Instants]
  <2>1. e.when \in Instants
    BY <1>1
  <2>. QED
    BY <2>1, ScheduleAssumption, <1>0
<1>2. CASE e \in [kind : {"every", "bad"}, when : Periods]
  <2>1. e.when \in Periods
    BY <1>2
  <2>. QED
    BY <2>1, ScheduleAssumption, <1>0
<1>. QED
  BY <1>1, <1>2 DEF Exprs

LEMMA NextRunLater ==
  ASSUME NEW e \in Exprs, NEW t \in Nat
  PROVE  NextRun(e, t) \in Nat /\ (NextRun(e, t) = Never \/ NextRun(e, t) > t)
BY LaterThanNow DEF NextRun, Never

(* A recurring task always has a next run.                                 *)
LEMMA RecurringRuns ==
  ASSUME NEW e \in Exprs, NEW t \in Nat, ~IsOneShot(e)
  PROVE  NextRun(e, t) # Never
BY LaterThanNow DEF NextRun, Never

LEMMA Appended ==
  ASSUME NEW ids, NEW ts, Listed(ts, ids), NEW t \in Entries, t.id \notin ids
  PROVE  /\ Listed(Append(ts, t), ids \cup {t.id})
         /\ \A k \in DOMAIN Append(ts, t) :
              Append(ts, t)[k] = t \/ \E j \in DOMAIN ts : Append(ts, t)[k] = ts[j]
<1> DEFINE us == Append(ts, t)
<1>1. us \in Seq(Entries) /\ DOMAIN us = 1..Len(ts) + 1 /\ DOMAIN ts = 1..Len(ts)
  BY DEF Listed
<1>2. us[Len(ts) + 1] = t /\ \A k \in DOMAIN ts : us[k] = ts[k]
  BY DEF Listed
<1>3. \A k \in DOMAIN us : k = Len(ts) + 1 \/ k \in DOMAIN ts
  BY <1>1 DEF Listed
<1>. QED
  BY <1>1, <1>2, <1>3 DEF Listed, Distinct

LEMMA Removed ==
  ASSUME NEW ids, NEW ts, Listed(ts, ids), NEW i \in DOMAIN ts
  PROVE  /\ Listed(RemoveAt(ts, i), ids)
         /\ \A k \in DOMAIN RemoveAt(ts, i) :
              \E j \in DOMAIN ts : RemoveAt(ts, i)[k] = ts[j]
         /\ \A j \in DOMAIN ts \ {i} :
              \E k \in DOMAIN RemoveAt(ts, i) : RemoveAt(ts, i)[k] = ts[j]
<1> DEFINE front == SubSeq(ts, 1, i - 1)
           back  == SubSeq(ts, i + 1, Len(ts))
           us    == RemoveAt(ts, i)
           old(k) == IF k < i THEN k ELSE k + 1
<1>1. i \in 1..Len(ts) /\ Len(ts) \in Nat /\ DOMAIN ts = 1..Len(ts) /\ ts \in Seq(Entries)
  BY DEF Listed
<1>2. /\ front \in Seq(Entries) /\ Len(front) = i - 1
      /\ \A k \in 1..i - 1 : front[k] = ts[k]
  <2>1. \A k \in 1..i - 1 : ts[k] \in Entries
    BY <1>1
  <2>2. 1 \in Int /\ i - 1 \in Int /\ 0 <= i - 1
    BY <1>1
  <2>. QED
    BY <2>1, <2>2, SubSeqProperties
<1>3. /\ back \in Seq(Entries) /\ Len(back) = Len(ts) - i
      /\ \A k \in 1..Len(ts) - i : back[k] = ts[k + i]
  <2>1. \A k \in i + 1..Len(ts) : ts[k] \in Entries
    BY <1>1
  <2>2. i + 1 \in Int /\ Len(ts) \in Int /\ i <= Len(ts)
    BY <1>1
  <2>. QED
    BY <1>1, <2>1, <2>2, SubSeqProperties
<1>4. us = front \o back
  BY DEF RemoveAt
<1> HIDE DEF front, back, us
<1>5. /\ us \in Seq(Entries) /\ Len(us) = Len(front) + Len(back)
      /\ \A k \in 1..Len(front) + Len(back) :
           us[k] = IF k <= Len(front) THEN front[k] ELSE back[k - Len(front)]
  BY <1>2, <1>3, <1>4, ConcatProperties
<1>6. Len(us) = Len(ts) - 1 /\ DOMAIN us = 1..Len(ts) - 1
  BY <1>1, <1>2, <1>3, <1>5
<1>7. \A k \in DOMAIN us : old(k) \in DOMAIN ts /\ us[k] = ts[old(k)]
  <2> SUFFICES ASSUME NEW k \in DOMAIN us PROVE old(k) \in DOMAIN ts /\ us[k] = ts[old(k)]
    OBVIOUS
  <2>1. k \in 1..Len(front) + Len(back) /\ k \in 1..Len(ts) - 1
    BY <1>1, <1>2, <1>3, <1>6
  <2>2. us[k] = IF k <= i - 1 THEN front[k] ELSE back[k - (i - 1)]
    BY <1>2, <1>5, <2>1
  <2>3. CASE k < i
    <3>1. k \in 1..i - 1 /\ k \in DOMAIN ts
      BY <1>1, <2>1, <2>3
    <3>. QED
      BY <1>2, <2>2, <2>3, <3>1
  <2>4. CASE k >= i
    <3>1. k - (i - 1) \in 1..Len(ts) - i /\ k - (i - 1) + i = k + 1 /\ ~(k <= i - 1)
      BY <1>1, <2>1, <2>4
    <3>2. back[k - (i - 1)] = ts[k + 1]
      BY <1>3, <3>1
    <3>3. old(k) = k + 1 /\ k + 1 \in DOMAIN ts
      BY <1>1, <2>1, <2>4
    <3>. QED
      BY <2>2, <3>1, <3>2, <3>3
  <2>. QED
    BY <1>1, <2>1, <2>3, <2>4
<1>8. \A k, l \in DOMAIN us : old(k) = old(l) => k = l
  BY <1>1, <1>6
<1>10. \A j \in DOMAIN ts \ {i} : \E k \in DOMAIN us : old(k) = j
  <2> SUFFICES ASSUME NEW j \in DOMAIN ts \ {i} PROVE \E k \in DOMAIN us : old(k) = j
    OBVIOUS
  <2>1. CASE j < i
    <3>1. j \in DOMAIN us /\ old(j) = j
      BY <1>1, <1>6, <2>1
    <3>. QED
      BY <3>1
  <2>2. CASE j > i
    <3>1. j - 1 \in DOMAIN us /\ old(j - 1) = j
      BY <1>1, <1>6, <2>2
    <3>. QED
      BY <3>1
  <2>. QED
    BY <1>1, <2>1, <2>2
<1> HIDE DEF old
<1>9. Listed(us, ids)
  BY <1>5, <1>7, <1>8 DEF Listed, Distinct
<1>11. \A j \in DOMAIN ts \ {i} : \E k \in DOMAIN us : us[k] = ts[j]
  BY <1>7, <1>10
<1>. QED
  BY <1>7, <1>9, <1>11 DEF us

LEMMA Replaced ==
  ASSUME NEW ids, NEW ts, Listed(ts, ids), NEW i \in DOMAIN ts,
         NEW t \in Entries, t.id = ts[i].id
  PROVE  LET us == [ts EXCEPT ![i] = t]
         IN  /\ Listed(us, ids)
             /\ DOMAIN us = DOMAIN ts
             /\ us[i] = t
             /\ \A k \in DOMAIN ts : k # i => us[k] = ts[k]
<1> DEFINE us == [ts EXCEPT ![i] = t]
<1>1. us \in Seq(Entries)
  BY DEF Listed
<1>2. DOMAIN us = DOMAIN ts /\ us[i] = t /\ \A k \in DOMAIN ts : k # i => us[k] = ts[k]
  OBVIOUS
<1>3. \A k \in DOMAIN us : us[k].id = ts[k].id
  BY <1>2
<1> HIDE DEF us
<1>4. Listed(us, ids)
  BY <1>1, <1>2, <1>3 DEF Listed, Distinct
<1>. QED
  BY <1>2, <1>4 DEF us

LEMMA EntryLoaded ==
  ASSUME NEW t \in Entries, time \in Nat
  PROVE  /\ Loaded(t) \in Entries /\ Loaded(t).id = t.id
         /\ Loaded(t).nextRun \in {t.nextRun, Never} \/ Loaded(t).nextRun > time
<1>1. NextRun(t.expr, time) \in Nat /\ (NextRun(t.expr, time) = Never \/ NextRun(t.expr, time) > time)
  BY NextRunLater DEF Entries
<1>. QED
  BY <1>1 DEF Loaded, Passed, Entries, Never

LEMMA EntryRecorded ==
  ASSUME NEW t \in Entries, time \in Nat
  PROVE  /\ Recorded(t) \in Entries /\ Recorded(t).id = t.id
         /\ Recorded(t).nextRun = Never \/ Recorded(t).nextRun > time
<1>1. NextRun(t.expr, time) \in Nat /\ (NextRun(t.expr, time) = Never \/ NextRun(t.expr, time) > time)
  BY NextRunLater DEF Entries
<1>. QED
  BY <1>1 DEF Recorded, Entries, Never

LEMMA EntryEdited ==
  ASSUME NEW t \in Entries, NEW e \in Exprs, NEW on \in BOOLEAN, time \in Nat
  PROVE  /\ Edited(t, e, on) \in Entries /\ Edited(t, e, on).id = t.id
         /\ Edited(t, e, on).nextRun = Never \/ Edited(t, e, on).nextRun > time
         /\ HalfEdited(t, e, on) \in Entries /\ HalfEdited(t, e, on).id = t.id
         /\ HalfEdited(t, e, on).nextRun = t.nextRun
<1>1. NextRun(e, time) \in Nat /\ (NextRun(e, time) = Never \/ NextRun(e, time) > time)
  BY NextRunLater
<1>2. IsOneShot(e) \in BOOLEAN
  BY DEF IsOneShot
<1>. QED
  BY <1>1, <1>2 DEF Edited, HalfEdited, Entries, Never

LEMMA ListLoaded ==
  ASSUME NEW ids, NEW ts, Listed(ts, ids), time \in Nat
  PROVE  Listed([i \in DOMAIN ts |-> Loaded(ts[i])], ids)
<1> DEFINE us == [i \in DOMAIN ts |-> Loaded(ts[i])]
<1>1. \A i \in DOMAIN ts : ts[i] \in Entries
  BY DEF Listed
<1>2. \A i \in DOMAIN ts : us[i] \in Entries /\ us[i].id = ts[i].id
  BY <1>1, EntryLoaded
<1>3. us \in Seq(Entries) /\ DOMAIN us = DOMAIN ts
  BY <1>2 DEF Listed
<1> HIDE DEF us
<1>4. Listed(us, ids)
  BY <1>2, <1>3 DEF Listed, Distinct
<1>. QED
  BY <1>4 DEF us

LEMMA Armament ==
  ASSUME NEW ts, ts \in Seq(Entries), Arm(ts)
  PROVE  /\ timer' \in Nat
         /\ \A i \in Waiting(ts) : timer' # Never /\ timer' <= ts[i].nextRun
<1>1. \A i \in DOMAIN ts : ts[i] \in Entries
  OBVIOUS
<1>2. \A i \in Waiting(ts) : ts[i].nextRun \in Nat /\ ts[i].nextRun # Never
  BY <1>1 DEF Waiting, Entries
<1>. QED
  BY <1>2 DEF Arm, Never

-----------------------------------------------------------------------------
(* Types.                                                                  *)

LEMMA Committed ==
  ASSUME Scalars, NEW ts, ts \in Seq(Entries), Commit(ts)
  PROVE  /\ tasks' = ts /\ disk' = ts /\ timer' \in Nat
         /\ running => \A i \in Waiting(ts) : timer' # Never /\ timer' <= ts[i].nextRun
         /\ ~running => timer' = timer
<1>1. CASE running
  BY <1>1, Armament DEF Commit, ArmIfRunning
<1>2. CASE ~running
  BY <1>2 DEF Commit, ArmIfRunning, Scalars
<1>. QED
  BY <1>1, <1>2

LEMMA MemberOf ==
  ASSUME NEW ids, NEW ts, Listed(ts, ids), NEW i \in DOMAIN ts
  PROVE  ts[i] \in Entries /\ ts[i].id \in ids
BY DEF Listed

LEMMA TypeStep ==
  ASSUME Scalars, Lists, Next
  PROVE  Scalars' /\ Lists'
<1> USE DEF fireVars, pastVars
<1>1. ASSUME NEW id \in Tasks, NEW e \in Exprs, Create(id, e) PROVE Scalars' /\ Lists'
  <2> DEFINE t == [id |-> id, expr |-> e, oneShot |-> IsOneShot(e), enabled |-> TRUE,
                   nextRun |-> NextRun(e, time), hasRun |-> FALSE]
  <2>1. t \in Entries /\ t.id = id
    BY NextRunLater DEF Entries, IsOneShot, Scalars
  <2> HIDE DEF t
  <2>2. id \notin created /\ created' = created \cup {id} /\ Commit(Append(tasks, t))
    BY <1>1 DEF Create, t
  <2>3. Listed(Append(tasks, t), created')
    BY <2>1, <2>2, Appended DEF Lists
  <2>4. tasks' = Append(tasks, t) /\ disk' = Append(tasks, t) /\ timer' \in Nat
    BY <2>2, <2>3, Committed DEF Listed
  <2>5. Scalars'
    BY <1>1, <2>2, <2>4 DEF Create, Scalars
  <2>. QED
    BY <2>3, <2>4, <2>5 DEF Lists
<1>2. ASSUME NEW id \in Tasks, Delete(id) PROVE Scalars' /\ Lists'
  <2>1. PICK i \in DOMAIN tasks : Commit(RemoveAt(tasks, i))
    BY <1>2 DEF Delete, IndexOf
  <2>2. Listed(RemoveAt(tasks, i), created)
    BY Removed DEF Lists
  <2>3. tasks' = RemoveAt(tasks, i) /\ disk' = RemoveAt(tasks, i) /\ timer' \in Nat
    BY <2>1, <2>2, Committed DEF Listed
  <2>. QED
    BY <1>2, <2>2, <2>3 DEF Delete, Scalars, Lists
<1>3. ASSUME NEW id \in Tasks, NEW e \in Exprs, NEW on \in BOOLEAN, Update(id, e, on)
      PROVE  Scalars' /\ Lists'
  <2>1. PICK i \in DOMAIN tasks : Commit([tasks EXCEPT ![i] = Edited(tasks[i], e, on)])
    BY <1>3 DEF Update, IndexOf
  <2>2. Edited(tasks[i], e, on) \in Entries /\ Edited(tasks[i], e, on).id = tasks[i].id
    BY MemberOf, EntryEdited DEF Lists, Scalars
  <2>3. Listed([tasks EXCEPT ![i] = Edited(tasks[i], e, on)], created)
    BY <2>2, Replaced DEF Lists
  <2>4. /\ tasks' = [tasks EXCEPT ![i] = Edited(tasks[i], e, on)]
        /\ disk' = tasks' /\ timer' \in Nat
    BY <2>1, <2>3, Committed DEF Listed
  <2>5. edits' \in Nat
    BY <1>3 DEF Update, Edit, Scalars
  <2>. QED
    BY <1>3, <2>3, <2>4, <2>5 DEF Update, Scalars, Lists
<1>4. ASSUME NEW id \in Tasks, NEW e \in Exprs, NEW on \in BOOLEAN, UpdateRefused(id, e, on)
      PROVE  Scalars' /\ Lists'
  <2>1. PICK i \in DOMAIN tasks : tasks' = [tasks EXCEPT ![i] = HalfEdited(tasks[i], e, on)]
    BY <1>4 DEF UpdateRefused, IndexOf
  <2>2. HalfEdited(tasks[i], e, on) \in Entries /\ HalfEdited(tasks[i], e, on).id = tasks[i].id
    BY MemberOf, EntryEdited DEF Lists, Scalars
  <2>3. Listed(tasks', created)
    BY <2>1, <2>2, Replaced DEF Lists
  <2>4. edits' \in Nat
    BY <1>4 DEF UpdateRefused, Edit, Scalars
  <2>. QED
    BY <1>4, <2>3, <2>4 DEF UpdateRefused, Scalars, Lists
<1>5. ASSUME NEW id \in Tasks, RunNow(id) PROVE Scalars' /\ Lists'
  BY <1>5 DEF RunNow, Edit, Scalars, Lists
<1>6. ASSUME NEW id \in Tasks, RunNowEnds(id) PROVE Scalars' /\ Lists'
  <2>1. Scalars'
    BY <1>6 DEF RunNowEnds, Scalars
  <2>2. CASE UNCHANGED <<tasks, disk>>
    BY <1>6, <2>1, <2>2 DEF RunNowEnds, Lists
  <2>3. ASSUME NEW i \in DOMAIN tasks,
               tasks' = [tasks EXCEPT ![i] = [tasks[i] EXCEPT !.hasRun = TRUE]], disk' = tasks'
        PROVE  Lists'
    <3>1. LET t == [tasks[i] EXCEPT !.hasRun = TRUE]
          IN  t \in Entries /\ t.id = tasks[i].id
      <4>1. tasks[i] \in Entries
        BY MemberOf DEF Lists
      <4>. QED
        BY <4>1 DEF Entries
    <3>2. Listed(tasks', created)
      BY <2>3, <3>1, Replaced DEF Lists
    <3>. QED
      BY <1>6, <2>3, <3>2 DEF RunNowEnds, Lists
  <2>. QED
    BY <1>6, <2>1, <2>2, <2>3 DEF RunNowEnds, IndexOf
<1>7. ASSUME NEW f \in Fires, Expire(f) PROVE Scalars' /\ Lists'
  BY <1>7 DEF Expire, Scalars, Lists, Never
<1>8. ASSUME NEW f \in Fires, Check(f) PROVE Scalars' /\ Lists'
  BY <1>8 DEF Check, Scalars, Lists
<1>9. ASSUME NEW f \in Fires, Collect(f) PROVE Scalars' /\ Lists'
  <2>1. {i \in DOMAIN tasks : IsDue(tasks[i])} \subseteq Nat
    BY DEF Lists, Listed
  <2>. QED
    BY <1>9, <2>1 DEF Collect, Continued, Scalars, Lists
<1>10. ASSUME NEW f \in Fires, Pick(f) PROVE Scalars' /\ Lists'
  <2>1. PICK i \in DOMAIN tasks : task' = [task EXCEPT ![f] = tasks[i].id]
    BY <1>10 DEF Pick
  <2>2. tasks[i].id \in Tasks
    BY MemberOf DEF Lists, Scalars
  <2>. QED
    BY <1>10, <2>1, <2>2 DEF Pick, Scalars, Lists
<1>11. ASSUME NEW f \in Fires, Settle(f) PROVE Scalars' /\ Lists'
  <2>1. PICK i \in due[f] :
          /\ due' = [due EXCEPT ![f] = @ \ {i}]
          /\ at' = [at EXCEPT ![f] = Continued(due[f] \ {i})]
          /\ \/ /\ i \in DOMAIN tasks
                /\ tasks' = [tasks EXCEPT ![i] = Recorded(tasks[i])]
                /\ disk' = tasks'
             \/ UNCHANGED <<tasks, disk>>
    BY <1>11 DEF Settle, IndexOf
  <2>2. Scalars'
    <3>1. due[f] \ {i} \in SUBSET Nat
      BY DEF Scalars
    <3>2. due' \in [Fires -> SUBSET Nat]
      BY <2>1, <3>1 DEF Scalars
    <3>3. at' \in [Fires -> {"idle", "started", "collecting", "picking", "running", "arming"}]
      BY <2>1 DEF Scalars, Continued
    <3>. QED
      BY <1>11, <3>2, <3>3 DEF Settle, Scalars
  <2>3. CASE UNCHANGED <<tasks, disk>>
    BY <1>11, <2>2, <2>3 DEF Settle, Lists
  <2>4. CASE i \in DOMAIN tasks /\ tasks' = [tasks EXCEPT ![i] = Recorded(tasks[i])] /\ disk' = tasks'
    <3>1. Recorded(tasks[i]) \in Entries /\ Recorded(tasks[i]).id = tasks[i].id
      BY <2>4, MemberOf, EntryRecorded DEF Lists, Scalars
    <3>2. Listed(tasks', created)
      BY <2>4, <3>1, Replaced DEF Lists
    <3>. QED
      BY <1>11, <2>2, <2>4, <3>2 DEF Settle, Lists
  <2>. QED
    BY <2>1, <2>3, <2>4
<1>12. ASSUME NEW f \in Fires, Reschedule(f) PROVE Scalars' /\ Lists'
  <2>1. timer' \in Nat
    BY <1>12, Armament DEF Reschedule, ArmIfRunning, Scalars, Lists, Listed
  <2>. QED
    BY <1>12, <2>1 DEF Reschedule, Scalars, Lists
<1>13. ASSUME Start PROVE Scalars' /\ Lists'
  <2>1. timer' \in Nat
    BY <1>13, Armament DEF Start, Lists, Listed
  <2>. QED
    BY <1>13, <2>1 DEF Start, Scalars, Lists
<1>14. ASSUME Stop PROVE Scalars' /\ Lists'
  <2>1. edits' \in Nat
    BY <1>14 DEF Stop, Edit, Scalars
  <2>2. timer' \in Nat
    BY <1>14 DEF Stop, Never
  <2>. QED
    BY <1>14, <2>1, <2>2 DEF Stop, Scalars, Lists
<1>15. ASSUME End, edits' \in Nat PROVE Scalars' /\ Lists'
  <2>1. Listed(tasks', created')
    BY <1>15 DEF End, Listed, Distinct
  <2>2. Scalars'
    BY <1>15 DEF End, Scalars, Never
  <2>. QED
    BY <1>15, <2>1, <2>2 DEF End, Lists
<1>16. ASSUME Launch PROVE Scalars' /\ Lists'
  <2>1. Listed(tasks', created) /\ disk' = tasks'
    BY <1>16, ListLoaded DEF Launch, Lists, Scalars
  <2>2. timer' \in Nat
    BY <1>16, <2>1, Armament DEF Launch, Listed
  <2>3. missed' \subseteq Tasks
    BY <1>16, MemberOf DEF Launch, Lists, Scalars
  <2>. QED
    BY <1>16, <2>1, <2>2, <2>3 DEF Launch, Scalars, Lists
<1>17. ASSUME Tell PROVE Scalars' /\ Lists'
  BY <1>17 DEF Tell, Scalars, Lists
<1>18. ASSUME Tick PROVE Scalars' /\ Lists'
  BY <1>18 DEF Tick, Scalars, Lists
<1>19. ASSUME Quit PROVE Scalars' /\ Lists'
  BY <1>15, <1>19 DEF Quit, Edit, Scalars
<1>20. ASSUME NEW f \in Fires, Panic(f) PROVE Scalars' /\ Lists'
  BY <1>15, <1>20 DEF Panic, Scalars
<1>. QED
  BY <1>1, <1>2, <1>3, <1>4, <1>5, <1>6, <1>7, <1>8, <1>9, <1>10, <1>11, <1>12,
     <1>13, <1>14, <1>16, <1>17, <1>18, <1>19, <1>20 DEF Next, Fire, User

-----------------------------------------------------------------------------
(* The timer.                                                              *)

LEMMA ArmedStep ==
  ASSUME Scalars, Lists, Armed, Next
  PROVE  Armed'
<1> USE DEF fireVars, pastVars
<1>1. ASSUME NEW ts, ts \in Seq(Entries), Commit(ts), running' = running PROVE Armed'
  BY <1>1, Committed DEF Armed
<1>2. ASSUME NEW f \in Fires, at'[f] # "idle" PROVE Armed'
  BY <1>2 DEF Armed, InFlight
<1>3. ASSUME ~running' PROVE Armed'
  BY <1>3 DEF Armed
<1>4. ASSUME Arm(tasks'), tasks' \in Seq(Entries) PROVE Armed'
  BY <1>4, Armament DEF Armed
<1>5. ASSUME UNCHANGED <<running, timer, tasks, at, botched>> PROVE Armed'
  BY <1>5 DEF Armed, InFlight, Waiting
<1>6. ASSUME NEW id \in Tasks, NEW e \in Exprs, Create(id, e) PROVE Armed'
  <2> DEFINE t == [id |-> id, expr |-> e, oneShot |-> IsOneShot(e), enabled |-> TRUE,
                   nextRun |-> NextRun(e, time), hasRun |-> FALSE]
  <2>1. t \in Entries
    BY NextRunLater DEF Entries, IsOneShot, Scalars
  <2>2. Commit(Append(tasks, t)) /\ running' = running
    BY <1>6 DEF Create
  <2> HIDE DEF t
  <2>3. Append(tasks, t) \in Seq(Entries)
    BY <2>1 DEF Lists, Listed
  <2>. QED
    BY <1>1, <2>2, <2>3
<1>7. ASSUME NEW id \in Tasks, Delete(id) PROVE Armed'
  <2>1. PICK i \in DOMAIN tasks : Commit(RemoveAt(tasks, i))
    BY <1>7 DEF Delete, IndexOf
  <2>2. RemoveAt(tasks, i) \in Seq(Entries)
    BY Removed DEF Lists, Listed
  <2>. QED
    BY <1>1, <1>7, <2>1, <2>2 DEF Delete
<1>8. ASSUME NEW id \in Tasks, NEW e \in Exprs, NEW on \in BOOLEAN, Update(id, e, on)
      PROVE  Armed'
  <2>1. PICK i \in DOMAIN tasks : Commit([tasks EXCEPT ![i] = Edited(tasks[i], e, on)])
    BY <1>8 DEF Update, IndexOf
  <2>2. Edited(tasks[i], e, on) \in Entries
    BY MemberOf, EntryEdited DEF Lists, Scalars
  <2>3. [tasks EXCEPT ![i] = Edited(tasks[i], e, on)] \in Seq(Entries)
    BY <2>2 DEF Lists, Listed
  <2>. QED
    BY <1>1, <1>8, <2>1, <2>3 DEF Update
<1>9. ASSUME NEW id \in Tasks, NEW e \in Exprs, NEW on \in BOOLEAN, UpdateRefused(id, e, on)
      PROVE  Armed'
  <2>1. PICK i \in IndexOf(tasks, id) : tasks' = [tasks EXCEPT ![i] = HalfEdited(tasks[i], e, on)]
    BY <1>9 DEF UpdateRefused
  <2>2. i \in DOMAIN tasks /\ tasks[i].id = id
    BY DEF IndexOf
  <2>3. HalfEdited(tasks[i], e, on) \in Entries /\ HalfEdited(tasks[i], e, on).id = tasks[i].id
    BY <2>2, MemberOf, EntryEdited DEF Lists, Scalars
  <2>4. DOMAIN tasks' = DOMAIN tasks /\ tasks'[i].id = id
        /\ \A k \in DOMAIN tasks : k # i => tasks'[k] = tasks[k]
    BY <2>1, <2>2, <2>3, Replaced DEF Lists
  <2>5. botched' = botched \cup {id} /\ UNCHANGED <<running, timer, at>>
    BY <1>9 DEF UpdateRefused
  <2>. QED
    BY <2>4, <2>5 DEF Armed, InFlight, Waiting
<1>10. ASSUME NEW id \in Tasks, RunNowEnds(id) PROVE Armed'
  <2>1. UNCHANGED <<running, timer, at, botched>>
    BY <1>10 DEF RunNowEnds
  <2>2. CASE UNCHANGED tasks
    BY <1>5, <2>1, <2>2
  <2>3. ASSUME NEW i \in DOMAIN tasks,
               tasks' = [tasks EXCEPT ![i] = [tasks[i] EXCEPT !.hasRun = TRUE]]
        PROVE  Armed'
    <3> DEFINE t == [tasks[i] EXCEPT !.hasRun = TRUE]
    <3>1. tasks[i] \in Entries
      BY MemberOf DEF Lists
    <3>2. t \in Entries /\ t.id = tasks[i].id /\ t.enabled = tasks[i].enabled /\ t.nextRun = tasks[i].nextRun
      BY <3>1 DEF Entries
    <3> HIDE DEF t
    <3>3. DOMAIN tasks' = DOMAIN tasks /\ tasks'[i] = t
          /\ \A k \in DOMAIN tasks : k # i => tasks'[k] = tasks[k]
      BY <2>3, <3>2, Replaced DEF Lists, t
    <3>. QED
      BY <2>1, <3>2, <3>3 DEF Armed, InFlight, Waiting
  <2>. QED
    BY <1>10, <2>2, <2>3 DEF RunNowEnds, IndexOf
<1>11. ASSUME NEW f \in Fires, Expire(f) PROVE Armed'
  BY <1>2, <1>11 DEF Expire, Scalars
<1>12. ASSUME NEW f \in Fires, Check(f) PROVE Armed'
  BY <1>2, <1>3, <1>12 DEF Check, Scalars
<1>13. ASSUME NEW f \in Fires, Collect(f) PROVE Armed'
  BY <1>2, <1>13 DEF Collect, Continued, Scalars
<1>14. ASSUME NEW f \in Fires, Pick(f) PROVE Armed'
  BY <1>2, <1>14 DEF Pick, Scalars
<1>15. ASSUME NEW f \in Fires, Settle(f) PROVE Armed'
  <2>1. at'[f] # "idle"
    BY <1>15 DEF Settle, Continued, Scalars
  <2>. QED
    BY <1>2, <2>1
<1>16. ASSUME NEW f \in Fires, Reschedule(f) PROVE Armed'
  <2>1. tasks' = tasks /\ running' = running
    BY <1>16 DEF Reschedule
  <2>2. CASE running
    BY <1>4, <1>16, <2>1, <2>2 DEF Reschedule, ArmIfRunning, Lists, Listed
  <2>3. CASE ~running
    BY <1>3, <2>1, <2>3
  <2>. QED
    BY <2>2, <2>3
<1>17. ASSUME Start PROVE Armed'
  BY <1>4, <1>17 DEF Start, Lists, Listed
<1>18. ASSUME Launch PROVE Armed'
  <2>1. tasks' \in Seq(Entries)
    <3>1. Listed(tasks', created)
      BY <1>18, ListLoaded DEF Launch, Lists, Scalars
    <3>. QED
      BY <3>1 DEF Listed
  <2>2. Arm(tasks')
    BY <1>18 DEF Launch
  <2>. QED
    BY <1>4, <2>1, <2>2
<1>19. ASSUME Stop PROVE Armed'
  BY <1>3, <1>19 DEF Stop
<1>20. ASSUME End PROVE Armed'
  BY <1>3, <1>20 DEF End
<1>21. ASSUME NEW id \in Tasks, RunNow(id) PROVE Armed'
  BY <1>5, <1>21 DEF RunNow
<1>22. ASSUME Tell \/ Tick PROVE Armed'
  BY <1>5, <1>22 DEF Tell, Tick
<1>. QED
  BY <1>6, <1>7, <1>8, <1>9, <1>10, <1>11, <1>12, <1>13, <1>14, <1>15, <1>16,
     <1>17, <1>18, <1>19, <1>20, <1>21, <1>22
  DEF Next, Fire, User, Quit, Panic

-----------------------------------------------------------------------------
(* One fire at a time.                                                     *)

LEMMA FlightsStep ==
  ASSUME Scalars, Flights, Next
  PROVE  Flights'
<1> USE DEF fireVars, pastVars
<1>1. ASSUME up', UNCHANGED at, Disturb PROVE Flights'
  BY <1>1 DEF Flights, Down, Sequential, SetByOthers, Disturb, InFlight
<1>2. ASSUME UNCHANGED <<up, running, at, timer, disturbed>> PROVE Flights'
  BY <1>2 DEF Flights, Down, Sequential, SetByOthers, InFlight
<1>3. ASSUME NEW f \in Fires, InFlight(f), UNCHANGED <<up, timer, disturbed>>,
             \A g \in Fires : g # f => at'[g] = at[g]
      PROVE  Flights'
  <2>1. up'
    BY <1>3 DEF Flights, Down
  <2>2. \A g \in Fires : at'[g] # "idle" => InFlight(g)
    BY <1>3 DEF InFlight
  <2>. QED
    BY <1>3, <2>1, <2>2 DEF Flights, Down, Sequential, SetByOthers, InFlight
<1>4. ASSUME NEW id \in Tasks, NEW e \in Exprs, Create(id, e) PROVE Flights'
  BY <1>1, <1>4 DEF Create, Commit
<1>5. ASSUME NEW id \in Tasks, Delete(id) PROVE Flights'
  BY <1>1, <1>5 DEF Delete, Commit
<1>6. ASSUME NEW id \in Tasks, NEW e \in Exprs, NEW on \in BOOLEAN, Update(id, e, on)
      PROVE  Flights'
  BY <1>1, <1>6 DEF Update, Edit, Commit
<1>7. ASSUME NEW id \in Tasks, NEW e \in Exprs, NEW on \in BOOLEAN, UpdateRefused(id, e, on)
      PROVE  Flights'
  BY <1>1, <1>7 DEF UpdateRefused, Edit
<1>8. ASSUME NEW id \in Tasks, RunNow(id) \/ RunNowEnds(id) PROVE Flights'
  BY <1>2, <1>8 DEF RunNow, RunNowEnds
<1>9. ASSUME NEW f \in Fires, Expire(f) PROVE Flights'
  <2>1. up /\ up' /\ timer' = Never
    BY <1>9 DEF Expire, Flights, Down
  <2>2. \A g \in Fires : g # f /\ at'[g] # "idle" => InFlight(g)
    BY <1>9 DEF Expire, Scalars, InFlight
  <2>3. \A g \in Fires : g # f /\ at'[g] # "idle" => g \in disturbed' /\ f \in disturbed'
    BY <1>9, <2>2 DEF Expire, Flights, SetByOthers
  <2>. QED
    BY <2>1, <2>3 DEF Flights, Down, Sequential, SetByOthers, InFlight
<1>10. ASSUME NEW f \in Fires, Check(f) PROVE Flights'
  BY <1>3, <1>10 DEF Check, InFlight, Scalars
<1>11. ASSUME NEW f \in Fires, Collect(f) PROVE Flights'
  BY <1>3, <1>11 DEF Collect, InFlight, Scalars
<1>12. ASSUME NEW f \in Fires, Pick(f) PROVE Flights'
  BY <1>3, <1>12 DEF Pick, InFlight, Scalars
<1>13. ASSUME NEW f \in Fires, Settle(f) PROVE Flights'
  <2>1. /\ InFlight(f) /\ UNCHANGED <<up, timer, disturbed>>
        /\ \A g \in Fires : g # f => at'[g] = at[g]
    BY <1>13 DEF Settle, InFlight, Scalars
  <2>. QED
    BY <1>3, <2>1
<1>14. ASSUME NEW f \in Fires, Reschedule(f) PROVE Flights'
  <2>1. InFlight(f) /\ up /\ up' /\ disturbed' = disturbed /\ at'[f] = "idle"
        /\ \A g \in Fires : g # f => at'[g] = at[g]
    BY <1>14 DEF Reschedule, InFlight, Flights, Down, Scalars
  <2>2. \A g \in Fires : at'[g] # "idle" => g \in disturbed'
    BY <2>1 DEF Flights, Sequential, InFlight
  <2>. QED
    BY <2>1, <2>2 DEF Flights, Down, Sequential, SetByOthers, InFlight
<1>15. ASSUME Start PROVE Flights'
  BY <1>1, <1>15 DEF Start
<1>16. ASSUME Stop PROVE Flights'
  BY <1>16 DEF Stop, Flights, Down, Sequential, SetByOthers, InFlight
<1>17. ASSUME End PROVE Flights'
  BY <1>17 DEF End, Flights, Down, Sequential, SetByOthers, InFlight
<1>18. ASSUME Launch PROVE Flights'
  <2>1. \A g \in Fires : at'[g] = "idle"
    BY <1>18 DEF Launch, Flights, Down, InFlight
  <2>2. up'
    BY <1>18 DEF Launch
  <2>. QED
    BY <2>1, <2>2 DEF Flights, Down, Sequential, SetByOthers, InFlight
<1>19. ASSUME Tell \/ Tick PROVE Flights'
  BY <1>2, <1>19 DEF Tell, Tick
<1>. QED
  BY <1>4, <1>5, <1>6, <1>7, <1>8, <1>9, <1>10, <1>11, <1>12, <1>13, <1>14, <1>15,
     <1>16, <1>17, <1>18, <1>19
  DEF Next, Fire, User, Quit, Panic

-----------------------------------------------------------------------------
(* What a fire runs.                                                       *)

(* Two lists that differ in nothing that makes a task due.                 *)
SameDues(ts, us) ==
  /\ DOMAIN us = DOMAIN ts
  /\ \A k \in DOMAIN ts : /\ us[k].id = ts[k].id /\ us[k].enabled = ts[k].enabled
                          /\ us[k].nextRun = ts[k].nextRun

LEMMA ByHandKeepsDues ==
  ASSUME Scalars, Lists, NEW id \in Tasks, RunNowEnds(id)
  PROVE  SameDues(tasks, tasks') /\ (UNCHANGED <<tasks, disk>> \/ disk' = tasks')
<1>1. CASE UNCHANGED <<tasks, disk>>
  BY <1>1 DEF SameDues
<1>2. ASSUME NEW i \in DOMAIN tasks,
             tasks' = [tasks EXCEPT ![i] = [tasks[i] EXCEPT !.hasRun = TRUE]], disk' = tasks'
      PROVE  SameDues(tasks, tasks')
  <2> DEFINE t == [tasks[i] EXCEPT !.hasRun = TRUE]
  <2>1. tasks[i] \in Entries
    BY MemberOf DEF Lists
  <2>2. t \in Entries /\ t.id = tasks[i].id /\ t.enabled = tasks[i].enabled /\ t.nextRun = tasks[i].nextRun
    BY <2>1 DEF Entries
  <2> HIDE DEF t
  <2>3. DOMAIN tasks' = DOMAIN tasks /\ tasks'[i] = t
        /\ \A k \in DOMAIN tasks : k # i => tasks'[k] = tasks[k]
    BY <1>2, <2>2, Replaced DEF Lists, t
  <2>. QED
    BY <2>2, <2>3 DEF SameDues
<1>. QED
  BY <1>1, <1>2 DEF RunNowEnds, IndexOf

LEMMA DueStep ==
  ASSUME Scalars, Lists, Flights, DueInv, Next
  PROVE  DueInv'
<1> USE DEF fireVars, pastVars
<1>1. ASSUME UNCHANGED at, Disturb PROVE DueInv'
  BY <1>1 DEF DueInv, Disturb, InFlight
<1>2. ASSUME UNCHANGED <<time, at, due, task, disturbed>>, SameDues(tasks, tasks') PROVE DueInv'
  BY <1>2 DEF DueInv, SameDues, IsDue, IsFirst, IndexOf
<1>3. ASSUME NEW f \in Fires, UNCHANGED <<time, tasks, due, task>>,
             \A g \in Fires : g # f => at'[g] = at[g],
             at'[f] \notin {"picking", "running"},
             \A g \in Fires : g # f /\ g \notin disturbed' => g \notin disturbed
      PROVE  DueInv'
  BY <1>3 DEF DueInv, IsDue, IsFirst, IndexOf
<1>4. ASSUME NEW id \in Tasks, NEW e \in Exprs, Create(id, e) PROVE DueInv'
  BY <1>1, <1>4 DEF Create, Commit
<1>5. ASSUME NEW id \in Tasks, Delete(id) PROVE DueInv'
  BY <1>1, <1>5 DEF Delete, Commit
<1>6. ASSUME NEW id \in Tasks, NEW e \in Exprs, NEW on \in BOOLEAN,
             Update(id, e, on) \/ UpdateRefused(id, e, on)
      PROVE  DueInv'
  BY <1>1, <1>6 DEF Update, UpdateRefused, Commit
<1>7. ASSUME NEW id \in Tasks, RunNow(id) PROVE DueInv'
  BY <1>2, <1>7 DEF RunNow, SameDues
<1>8. ASSUME NEW id \in Tasks, RunNowEnds(id) PROVE DueInv'
  BY <1>2, <1>8, ByHandKeepsDues DEF RunNowEnds
<1>9. ASSUME NEW f \in Fires, Expire(f) PROVE DueInv'
  BY <1>3, <1>9 DEF Expire, Scalars
<1>10. ASSUME NEW f \in Fires, Check(f) PROVE DueInv'
  BY <1>3, <1>10 DEF Check, Scalars
<1>11. ASSUME NEW f \in Fires, Collect(f) PROVE DueInv'
  <2>1. /\ UNCHANGED <<time, tasks, task, disturbed>>
        /\ due'[f] = {i \in DOMAIN tasks : IsDue(tasks[i])} /\ at'[f] # "running"
        /\ \A g \in Fires : g # f => due'[g] = due[g] /\ at'[g] = at[g]
    BY <1>11 DEF Collect, Continued, Scalars
  <2>. QED
    BY <2>1 DEF DueInv, IsDue, IsFirst, IndexOf
<1>12. ASSUME NEW f \in Fires, Pick(f) PROVE DueInv'
  <2>1. PICK i \in DOMAIN tasks : IsFirst(f, i) /\ task' = [task EXCEPT ![f] = tasks[i].id]
    BY <1>12 DEF Pick
  <2>2. /\ UNCHANGED <<time, tasks, due, disturbed>>
        /\ task'[f] = tasks[i].id /\ at[f] = "picking"
        /\ \A g \in Fires : g # f => task'[g] = task[g] /\ at'[g] = at[g]
    BY <1>12, <2>1 DEF Pick, Scalars
  <2>3. i \in IndexOf(tasks', task'[f]) /\ IsFirst(f, i)'
    BY <2>1, <2>2 DEF IndexOf, IsFirst
  <2>. QED
    BY <2>2, <2>3 DEF DueInv, IsDue, IsFirst, IndexOf
<1>13. ASSUME NEW f \in Fires, Settle(f) PROVE DueInv'
  <2>1. PICK i \in due[f] :
          /\ due' = [due EXCEPT ![f] = @ \ {i}]
          /\ at' = [at EXCEPT ![f] = Continued(due[f] \ {i})]
          /\ \/ /\ i \in DOMAIN tasks
                /\ tasks' = [tasks EXCEPT ![i] = Recorded(tasks[i])]
             \/ UNCHANGED tasks
    BY <1>13 DEF Settle, IndexOf
  <2>2. /\ at[f] = "running" /\ at'[f] # "running" /\ due'[f] = due[f] \ {i}
        /\ \A g \in Fires : g # f => at'[g] = at[g]
        /\ time' = time /\ disturbed' = disturbed
    BY <1>13, <2>1 DEF Settle, Continued, Scalars
  <2>3. \A g \in Fires : g # f /\ g \notin disturbed' => at'[g] = "idle"
    BY <2>2 DEF Flights, Sequential, InFlight
  <2>4. DOMAIN tasks' = DOMAIN tasks /\ \A k \in DOMAIN tasks : k # i => tasks'[k] = tasks[k]
    BY <2>1
  <2>5. f \notin disturbed => \A k \in due'[f] : k \in DOMAIN tasks' /\ IsDue(tasks[k])'
    BY <2>2, <2>4 DEF DueInv, IsDue
  <2>. QED
    BY <2>2, <2>3, <2>5 DEF DueInv
<1>14. ASSUME NEW f \in Fires, Reschedule(f) PROVE DueInv'
  BY <1>3, <1>14 DEF Reschedule, Scalars
<1>15. ASSUME Start PROVE DueInv'
  BY <1>1, <1>15 DEF Start
<1>16. ASSUME Stop PROVE DueInv'
  BY <1>2, <1>16 DEF Stop, SameDues
<1>17. ASSUME End PROVE DueInv'
  BY <1>17 DEF End, DueInv
<1>18. ASSUME Launch PROVE DueInv'
  BY <1>18 DEF Launch, Flights, Down, InFlight, DueInv
<1>19. ASSUME Tell PROVE DueInv'
  BY <1>2, <1>19 DEF Tell, SameDues
<1>20. ASSUME Tick PROVE DueInv'
  <2>1. UNCHANGED <<tasks, at, due, task, disturbed>> /\ time \in Nat /\ time' = time + 1
    BY <1>20 DEF Tick, Scalars
  <2>2. \A k \in DOMAIN tasks : tasks[k].nextRun \in Nat
    BY MemberOf DEF Lists, Entries
  <2>3. \A k \in DOMAIN tasks : IsDue(tasks[k]) => IsDue(tasks[k])'
    BY <2>1, <2>2 DEF IsDue
  <2>. QED
    BY <2>1, <2>3 DEF DueInv, IsFirst, IndexOf
<1>. QED
  BY <1>4, <1>5, <1>6, <1>7, <1>8, <1>9, <1>10, <1>11, <1>12, <1>13, <1>14, <1>15,
     <1>16, <1>17, <1>18, <1>19, <1>20
  DEF Next, Fire, User, Quit, Panic

-----------------------------------------------------------------------------
(* What was recorded.                                                      *)

LEMMA AgainStep ==
  ASSUME Scalars, Lists, AgainInv, Next
  PROVE  AgainInv'
<1> USE DEF fireVars, pastVars
<1>0. time \in Nat /\ \A id, t : t > time /\ t \in Nat => <<id, t>> \notin settled
  BY DEF Scalars, AgainInv, Past
<1>1. ASSUME UNCHANGED <<time, settled>>, Unsettled(tasks)', disk' \in {disk, tasks'} PROVE AgainInv'
  BY <1>1 DEF AgainInv, Past, Unsettled
<1>2. ASSUME UNCHANGED <<time, settled, tasks, disk>> PROVE AgainInv'
  BY <1>2 DEF AgainInv, Past, Unsettled
<1>3. ASSUME NEW id \in Tasks, NEW e \in Exprs, Create(id, e) PROVE AgainInv'
  <2> DEFINE t == [id |-> id, expr |-> e, oneShot |-> IsOneShot(e), enabled |-> TRUE,
                   nextRun |-> NextRun(e, time), hasRun |-> FALSE]
  <2>1. t \in Entries /\ t.id = id /\ (t.nextRun = Never \/ t.nextRun > time)
    BY NextRunLater DEF Entries, IsOneShot, Scalars
  <2>2. UNCHANGED <<time, settled>> /\ tasks' = Append(tasks, t) /\ disk' = tasks' /\ id \notin created
    BY <1>3 DEF Create, Commit
  <2> HIDE DEF t
  <2>3. \A k \in DOMAIN tasks' : tasks'[k] = t \/ \E j \in DOMAIN tasks : tasks'[k] = tasks[j]
    BY <2>1, <2>2, Appended DEF Lists
  <2>4. t.nextRun # Never => <<t.id, t.nextRun>> \notin settled
    BY <1>0, <2>1 DEF Entries
  <2>5. Unsettled(tasks)'
    BY <2>2, <2>3, <2>4 DEF Unsettled, AgainInv
  <2>. QED
    BY <1>1, <2>2, <2>5
<1>4. ASSUME NEW id \in Tasks, Delete(id) PROVE AgainInv'
  <2>1. PICK i \in DOMAIN tasks : tasks' = RemoveAt(tasks, i) /\ disk' = tasks'
    BY <1>4 DEF Delete, IndexOf, Commit
  <2>2. \A k \in DOMAIN tasks' : \E j \in DOMAIN tasks : tasks'[k] = tasks[j]
    BY <2>1, Removed DEF Lists
  <2>3. UNCHANGED <<time, settled>>
    BY <1>4 DEF Delete
  <2>4. Unsettled(tasks)'
    BY <2>2, <2>3 DEF Unsettled, AgainInv
  <2>. QED
    BY <1>1, <2>1, <2>3, <2>4
<1>5. ASSUME UNCHANGED <<time, settled>>, NEW i \in DOMAIN tasks, NEW t \in Entries,
             t.id = tasks[i].id, tasks' = [tasks EXCEPT ![i] = t], disk' \in {disk, tasks'},
             t.nextRun \in {tasks[i].nextRun, Never} \/ t.nextRun > time
      PROVE  AgainInv'
  <2>1. DOMAIN tasks' = DOMAIN tasks /\ tasks'[i] = t
        /\ \A k \in DOMAIN tasks : k # i => tasks'[k] = tasks[k]
    BY <1>5, Replaced DEF Lists
  <2>2. t.nextRun > time => <<t.id, t.nextRun>> \notin settled
    BY <1>0 DEF Entries
  <2>3. Unsettled(tasks)'
    BY <1>5, <2>1, <2>2 DEF Unsettled, AgainInv
  <2>. QED
    BY <1>1, <1>5, <2>3
<1>6. ASSUME NEW id \in Tasks, NEW e \in Exprs, NEW on \in BOOLEAN, Update(id, e, on)
      PROVE  AgainInv'
  <2>1. PICK i \in DOMAIN tasks :
          tasks' = [tasks EXCEPT ![i] = Edited(tasks[i], e, on)] /\ disk' = tasks'
    BY <1>6 DEF Update, IndexOf, Commit
  <2>2. UNCHANGED <<time, settled>>
    BY <1>6 DEF Update
  <2>. QED
    BY <1>5, <2>1, <2>2, MemberOf, EntryEdited DEF Lists, Scalars
<1>7. ASSUME NEW id \in Tasks, NEW e \in Exprs, NEW on \in BOOLEAN, UpdateRefused(id, e, on)
      PROVE  AgainInv'
  <2>1. PICK i \in DOMAIN tasks : tasks' = [tasks EXCEPT ![i] = HalfEdited(tasks[i], e, on)]
    BY <1>7 DEF UpdateRefused, IndexOf
  <2>2. UNCHANGED <<time, settled, disk>>
    BY <1>7 DEF UpdateRefused
  <2>. QED
    BY <1>5, <2>1, <2>2, MemberOf, EntryEdited DEF Lists, Scalars
<1>8. ASSUME NEW id \in Tasks, RunNowEnds(id) PROVE AgainInv'
  <2>1. UNCHANGED <<time, settled>>
    BY <1>8 DEF RunNowEnds
  <2>2. Unsettled(tasks)'
    BY <1>8, <2>1, ByHandKeepsDues DEF SameDues, Unsettled, AgainInv
  <2>. QED
    BY <1>1, <1>8, <2>1, <2>2, ByHandKeepsDues
<1>9. ASSUME NEW f \in Fires, Settle(f) PROVE AgainInv'
  <2>1. CASE UNCHANGED <<tasks, disk, settled>>
    BY <1>2, <1>9, <2>1 DEF Settle
  <2>2. ASSUME NEW i \in DOMAIN tasks, tasks[i].id = task[f],
               tasks' = [tasks EXCEPT ![i] = Recorded(tasks[i])], disk' = tasks',
               settled' = IF IsDue(tasks[i]) THEN settled \cup {<<task[f], tasks[i].nextRun>>}
                                             ELSE settled
        PROVE  AgainInv'
    <3> DEFINE t == Recorded(tasks[i])
    <3>1. tasks[i] \in Entries /\ time' = time
      BY <1>9, MemberOf DEF Lists, Settle
    <3>2. t \in Entries /\ t.id = tasks[i].id /\ (t.nextRun = Never \/ t.nextRun > time)
      BY <3>1, EntryRecorded DEF Scalars
    <3> HIDE DEF t
    <3>3. DOMAIN tasks' = DOMAIN tasks /\ tasks'[i] = t
          /\ \A k \in DOMAIN tasks : k # i => tasks'[k] = tasks[k]
      BY <2>2, <3>2, Replaced DEF Lists, t
    <3>4. tasks[i].nextRun \in Nat /\ t.nextRun \in Nat
      BY <3>1, <3>2 DEF Entries
    <3>5. Past'
      BY <1>0, <2>2, <3>1, <3>4 DEF AgainInv, Past, IsDue
    <3>6. t.nextRun # Never => <<t.id, t.nextRun>> \notin settled'
      BY <1>0, <3>1, <3>2, <3>4, <3>5 DEF Past
    <3>7. \A k \in DOMAIN tasks : k # i => tasks[k].id # tasks[i].id
      BY DEF Lists, Listed, Distinct
    <3>8. Unsettled(tasks)'
      BY <2>2, <3>3, <3>6, <3>7 DEF Unsettled, AgainInv
    <3>. QED
      BY <2>2, <3>5, <3>8 DEF AgainInv, Unsettled
  <2>. QED
    BY <1>9, <2>1, <2>2 DEF Settle, IndexOf
<1>10. ASSUME End PROVE AgainInv'
  BY <1>10 DEF End, AgainInv, Past, Unsettled
<1>11. ASSUME Launch PROVE AgainInv'
  <2>1. /\ tasks' = [i \in DOMAIN disk |-> Loaded(disk[i])] /\ disk' = tasks'
        /\ UNCHANGED <<time, settled>>
    BY <1>11 DEF Launch
  <2>2. \A i \in DOMAIN disk : /\ tasks'[i] = Loaded(disk[i]) /\ tasks'[i] \in Entries
                               /\ tasks'[i].id = disk[i].id
                               /\ tasks'[i].nextRun \in {disk[i].nextRun, Never} \/ tasks'[i].nextRun > time
    BY <1>0, <2>1, MemberOf, EntryLoaded DEF Lists
  <2>3. \A i \in DOMAIN disk : tasks'[i].nextRun \in Nat
    <3>1. \A t \in Entries : t.nextRun \in Nat
      BY DEF Entries
    <3>. QED
      BY <2>2, <3>1
  <2>4. Unsettled(tasks)'
    BY <1>0, <2>1, <2>2, <2>3 DEF Unsettled, AgainInv
  <2>. QED
    BY <1>1, <2>1, <2>4
<1>12. ASSUME Tick PROVE AgainInv'
  BY <1>0, <1>12 DEF Tick, AgainInv, Past, Unsettled
<1>13. ASSUME NEW f \in Fires, Expire(f) \/ Check(f) \/ Collect(f) \/ Pick(f) \/ Reschedule(f)
       PROVE  AgainInv'
  BY <1>2, <1>13 DEF Expire, Check, Collect, Pick, Reschedule
<1>14. ASSUME Start \/ Stop \/ Tell \/ \E id \in Tasks : RunNow(id) PROVE AgainInv'
  BY <1>2, <1>14 DEF Start, Stop, Tell, RunNow
<1>. QED
  BY <1>3, <1>4, <1>6, <1>7, <1>8, <1>9, <1>10, <1>11, <1>12, <1>13, <1>14
  DEF Next, Fire, User, Quit, Panic

-----------------------------------------------------------------------------
LEMMA Initially ==
  ASSUME Init
  PROVE  IInv
<1>1. Listed(<<>>, created)
  BY DEF Listed, Distinct
<1>2. Lists
  BY <1>1 DEF Init, Lists
<1>3. Scalars
  BY DEF Init, Scalars, Never
<1>4. Armed /\ Flights /\ DueInv
  BY DEF Init, Armed, Flights, Down, Sequential, SetByOthers, DueInv, InFlight
<1>5. AgainInv
  BY DEF Init, AgainInv, Past, Unsettled
<1>. QED
  BY <1>2, <1>3, <1>4, <1>5 DEF IInv

LEMMA Inductive ==
  ASSUME IInv, [Next]_vars
  PROVE  IInv'
<1>1. CASE Next
  BY <1>1, TypeStep, ArmedStep, FlightsStep, DueStep, AgainStep DEF IInv
<1>2. CASE UNCHANGED vars
  <2>1. Scalars' /\ Lists'
    BY <1>2 DEF IInv, vars, fireVars, Scalars, Lists, Listed, Distinct
  <2>2. Armed' /\ Flights'
    BY <1>2 DEF IInv, vars, fireVars, pastVars, Armed, Waiting, Flights, Down, Sequential,
       SetByOthers, InFlight
  <2>3. DueInv' /\ AgainInv'
    BY <1>2 DEF IInv, vars, fireVars, pastVars, DueInv, IsDue, IsFirst, IndexOf, AgainInv,
       Past, Unsettled
  <2>. QED
    BY <2>1, <2>2, <2>3 DEF IInv
<1>. QED
  BY <1>1, <1>2

LEMMA Invariance == Spec => []IInv
BY Initially, Inductive, PTL DEF Spec

(* Every variable keeps its type and no task is listed twice, for any      *)
(* tasks, goroutines, instants and periods.                                *)
THEOREM SchedulerTypeCorrect == Spec => []TypeOK
<1>1. IInv => TypeOK
  BY DEF IInv, Scalars, Lists, Listed, TypeOK
<1>. QED
  BY <1>1, Invariance, PTL

(* While the scheduler runs and no fire is in flight, the timer is set no  *)
(* later than any waiting task, but for tasks whose last update failed.    *)
THEOREM SchedulerArmed == Spec => []Armed
<1>1. IInv => Armed
  BY DEF IInv
<1>. QED
  BY <1>1, Invariance, PTL

(* Two fires are in flight at a time only if an edit or an overlap         *)
(* disturbed both.                                                         *)
THEOREM SchedulerSequential == Spec => []Sequential
<1>1. IInv => Sequential
  BY DEF IInv, Flights
<1>. QED
  BY <1>1, Invariance, PTL

(* An undisturbed fire runs the task at the index it will record, and that *)
(* task is due.                                                            *)
THEOREM SchedulerRunsWhatIsDue == Spec => []RunsWhatIsDue
<1>1. IInv => RunsWhatIsDue
  BY DEF IInv, DueInv, RunsWhatIsDue, IsFirst
<1>. QED
  BY <1>1, Invariance, PTL

(* No task waits for an instant at which it was recorded as run.           *)
THEOREM SchedulerNotAgain == Spec => []NotAgain
<1>1. IInv => NotAgain
  BY DEF IInv, AgainInv, Unsettled, NotAgain, Waiting
<1>. QED
  BY <1>1, Invariance, PTL

(* A fire nobody disturbs is alone, runs what is due, and no recorded      *)
(* instant is run again, for any tasks, goroutines and restarts.           *)
THEOREM SchedulerFiresInOrder == Spec => []FiresInOrder
BY SchedulerSequential, SchedulerRunsWhatIsDue, SchedulerNotAgain, PTL DEF FiresInOrder

-----------------------------------------------------------------------------
(* Nothing is lost: what the list and the file say of a task that is owed  *)
(* to the user.                                                            *)

(* The tasks that were started, by the timer or by hand.                   *)
Started == {b[1] : b \in begun} \cup byHand

(* The one-shots still owed to the user, and told of by nobody.            *)
Owed == promised \ (Started \cup botched \cup untold \cup missed \cup told)

(* An entry says that it has run only when it was started; and, unless its *)
(* last update failed, it is what its expression makes it.                 *)
SoundEntry(t, started, bad) ==
  /\ t.hasRun => t.id \in started
  /\ t.id \notin bad => /\ t.oneShot = IsOneShot(t.expr)
                        /\ t.enabled => t.nextRun # Never

Sound(ts, started, bad) == \A i \in DOMAIN ts : SoundEntry(ts[i], started, bad)

(* The list holds the tasks of ids, and they are enabled.                  *)
Keeps(ts, ids) == \A id \in ids : \E i \in IndexOf(ts, id) : ts[i].enabled

(* The file is the list, but for the tasks whose last update failed.       *)
Saved(ts, us, bad) ==
  /\ DOMAIN ts = DOMAIN us
  /\ \A i \in DOMAIN ts : ts[i].id = us[i].id /\ (ts[i].id \notin bad => ts[i] = us[i])

(* What runs was started; while the application is down there is nothing.  *)
Ran ==
  /\ manual \subseteq Started
  /\ \A f \in Fires : at[f] = "running" => task[f] \in Started
  /\ ~up => missed = {} /\ manual = {}

KeptInv ==
  /\ Ran
  /\ up => Saved(tasks, disk, botched)
  /\ Sound(tasks, Started, botched) /\ Sound(disk, Started, botched)
  /\ Keeps(disk, Owed)

(* Fewer reasons to look for, or more excuses.                             *)
LEMMA SoundStays ==
  ASSUME NEW ts, NEW s1, NEW s2, NEW b1, NEW b2, Sound(ts, s1, b1),
         s1 \subseteq s2, b1 \subseteq b2
  PROVE  Sound(ts, s2, b2)
BY DEF Sound, SoundEntry

LEMMA KeepsFewer ==
  ASSUME NEW ts, NEW ids, NEW fewer, Keeps(ts, ids), fewer \subseteq ids
  PROVE  Keeps(ts, fewer)
BY DEF Keeps

(* What the file keeps, the list keeps.                                    *)
LEMMA KeepsSaved ==
  ASSUME NEW ts, NEW us, NEW bad, NEW ids, Saved(ts, us, bad), Keeps(us, ids), ids \cap bad = {}
  PROVE  Keeps(ts, ids)
<1> SUFFICES ASSUME NEW id \in ids PROVE \E i \in IndexOf(ts, id) : ts[i].enabled
  BY DEF Keeps
<1>1. PICK i \in IndexOf(us, id) : us[i].enabled
  BY DEF Keeps
<1>2. i \in DOMAIN ts /\ ts[i].id = id /\ ts[i] = us[i]
  BY <1>1 DEF Saved, IndexOf
<1>. QED
  BY <1>1, <1>2 DEF IndexOf

(* The three ways in which a list changes.                                 *)
LEMMA KeptAppended ==
  ASSUME NEW ts \in Seq(Entries), NEW t \in Entries, NEW ids, NEW started, NEW bad,
         Keeps(ts, ids), Sound(ts, started, bad), t.enabled, SoundEntry(t, started, bad)
  PROVE  /\ Keeps(Append(ts, t), ids \cup {t.id})
         /\ Sound(Append(ts, t), started, bad)
<1> DEFINE us == Append(ts, t)
<1>1. /\ DOMAIN us = DOMAIN ts \cup {Len(ts) + 1} /\ us[Len(ts) + 1] = t
      /\ \A k \in DOMAIN ts : us[k] = ts[k]
  OBVIOUS
<1> HIDE DEF us
<1>2. Sound(us, started, bad)
  BY <1>1 DEF Sound
<1>3. Len(ts) + 1 \in IndexOf(us, t.id) /\ us[Len(ts) + 1].enabled
  BY <1>1 DEF IndexOf
<1>4. Keeps(us, ids)
  BY <1>1 DEF Keeps, IndexOf
<1>5. Keeps(us, ids \cup {t.id})
  BY <1>3, <1>4 DEF Keeps
<1>. QED
  BY <1>2, <1>5 DEF us

LEMMA KeptRemoved ==
  ASSUME NEW all, NEW ts, Listed(ts, all), NEW i \in DOMAIN ts, NEW ids, Keeps(ts, ids)
  PROVE  Keeps(RemoveAt(ts, i), ids \ {ts[i].id})
<1> DEFINE us == RemoveAt(ts, i)
<1>1. \A j \in DOMAIN ts \ {i} : \E k \in DOMAIN us : us[k] = ts[j]
  BY Removed
<1> HIDE DEF us
<1>2. Keeps(us, ids \ {ts[i].id})
  BY <1>1 DEF Keeps, IndexOf
<1>. QED
  BY <1>2 DEF us

LEMMA KeptReplaced ==
  ASSUME NEW ts \in Seq(Entries), NEW i \in DOMAIN ts, NEW t \in Entries, t.id = ts[i].id,
         NEW ids, Keeps(ts, ids)
  PROVE  LET us == [ts EXCEPT ![i] = t]
         IN  /\ Keeps(us, ids \ {t.id})
             /\ t.enabled => Keeps(us, ids \cup {t.id})
<1> DEFINE us == [ts EXCEPT ![i] = t]
<1>1. DOMAIN us = DOMAIN ts /\ us[i] = t /\ \A k \in DOMAIN ts : k # i => us[k] = ts[k]
  OBVIOUS
<1> HIDE DEF us
<1>2. Keeps(us, ids \ {t.id})
  BY <1>1 DEF Keeps, IndexOf
<1>3. ASSUME t.enabled PROVE Keeps(us, ids \cup {t.id})
  <2>1. i \in IndexOf(us, t.id) /\ us[i].enabled
    BY <1>1, <1>3 DEF IndexOf
  <2>. QED
    BY <1>2, <2>1 DEF Keeps
<1>. QED
  BY <1>2, <1>3 DEF us

LEMMA SoundReplaced ==
  ASSUME NEW ts \in Seq(Entries), NEW i \in DOMAIN ts, NEW t \in Entries,
         NEW s1, NEW s2, NEW b1, NEW b2,
         Sound(ts, s1, b1), SoundEntry(t, s2, b2), s1 \subseteq s2,
         \A k \in DOMAIN ts : k # i /\ ts[k].id \in b1 => ts[k].id \in b2
  PROVE  Sound([ts EXCEPT ![i] = t], s2, b2)
<1> DEFINE us == [ts EXCEPT ![i] = t]
<1>1. DOMAIN us = DOMAIN ts /\ us[i] = t /\ \A k \in DOMAIN ts : k # i => us[k] = ts[k]
  OBVIOUS
<1> HIDE DEF us
<1>2. Sound(us, s2, b2)
  BY <1>1 DEF Sound, SoundEntry
<1>. QED
  BY <1>2 DEF us

(* The entries the steps write are sound.                                  *)
LEMMA SoundRecorded ==
  ASSUME NEW t \in Entries, time \in Nat, NEW started, NEW bad,
         SoundEntry(t, started, bad), t.id \in started
  PROVE  SoundEntry(Recorded(t), started, bad)
<1>1. t.expr \in Exprs /\ t.oneShot \in BOOLEAN
  BY DEF Entries
<1>2. /\ Recorded(t).id = t.id /\ Recorded(t).oneShot = t.oneShot /\ Recorded(t).expr = t.expr
      /\ t.oneShot => ~Recorded(t).enabled
      /\ ~t.oneShot => Recorded(t).nextRun = NextRun(t.expr, time)
  BY DEF Recorded, Entries
<1>3. ~IsOneShot(t.expr) => NextRun(t.expr, time) # Never
  BY <1>1, RecurringRuns
<1>. QED
  BY <1>2, <1>3 DEF SoundEntry

LEMMA SoundEdited ==
  ASSUME NEW t \in Entries, NEW e \in Exprs, NEW on \in BOOLEAN, NEW started, NEW bad,
         SoundEntry(t, started, bad), on => NextRun(e, time) # Never
  PROVE  SoundEntry(Edited(t, e, on), started, {})
<1>1. /\ Edited(t, e, on).id = t.id /\ Edited(t, e, on).hasRun = t.hasRun
      /\ Edited(t, e, on).oneShot = IsOneShot(e) /\ Edited(t, e, on).expr = e
      /\ Edited(t, e, on).enabled = on
      /\ on => Edited(t, e, on).nextRun = NextRun(e, time)
  BY DEF Edited, Entries
<1>. QED
  BY <1>1 DEF SoundEntry

LEMMA SoundLoaded ==
  ASSUME NEW t \in Entries, time \in Nat, NEW started, NEW bad, SoundEntry(t, started, bad)
  PROVE  SoundEntry(Loaded(t), started, bad)
<1>1. t.expr \in Exprs /\ t.oneShot \in BOOLEAN
  BY DEF Entries
<1>2. CASE ~t.enabled
  BY <1>2 DEF Loaded
<1>3. CASE Passed(t)
  <2>1. /\ Loaded(t).id = t.id /\ Loaded(t).hasRun = t.hasRun /\ ~Loaded(t).enabled
        /\ Loaded(t).oneShot = t.oneShot /\ Loaded(t).expr = t.expr
    BY <1>3 DEF Loaded, Passed, Entries
  <2>. QED
    BY <2>1 DEF SoundEntry
<1>4. CASE t.enabled /\ ~Passed(t)
  <2>1. /\ Loaded(t).id = t.id /\ Loaded(t).hasRun = t.hasRun
        /\ Loaded(t).oneShot = t.oneShot /\ Loaded(t).expr = t.expr
        /\ Loaded(t).nextRun = NextRun(t.expr, time)
    BY <1>4 DEF Loaded, Entries
  <2>2. t.oneShot => NextRun(t.expr, time) # Never
    BY <1>4 DEF Passed
  <2>3. ~IsOneShot(t.expr) => NextRun(t.expr, time) # Never
    BY <1>1, RecurringRuns
  <2>. QED
    BY <2>1, <2>2, <2>3 DEF SoundEntry
<1>. QED
  BY <1>2, <1>3, <1>4

LEMMA KeptStep ==
  ASSUME Scalars, Lists, Down, KeptInv, Next
  PROVE  KeptInv'
<1> USE DEF fireVars, pastVars
<1>0. /\ Ran /\ Sound(tasks, Started, botched) /\ Sound(disk, Started, botched)
      /\ Keeps(disk, Owed) /\ (up => Saved(tasks, disk, botched))
      /\ tasks \in Seq(Entries) /\ disk \in Seq(Entries) /\ time \in Nat
      /\ \A i \in DOMAIN tasks : tasks[i] \in Entries
      /\ \A i \in DOMAIN disk : disk[i] \in Entries
  BY MemberOf DEF KeptInv, Lists, Listed, Scalars
<1>1. up => Keeps(tasks, Owed)
  BY <1>0, KeepsSaved DEF Owed
(* A step that writes neither the list nor the file.                       *)
<1>2. ASSUME UNCHANGED <<up, tasks, disk, botched>>, Ran', Started \subseteq Started', Owed' \subseteq Owed
      PROVE  KeptInv'
  BY <1>0, <1>2, SoundStays, KeepsFewer DEF KeptInv
(* A step that writes the same list to both.                               *)
<1>3. ASSUME disk' = tasks', Ran', Sound(tasks', Started', botched'), Keeps(tasks', Owed')
      PROVE  KeptInv'
  BY <1>3 DEF KeptInv, Saved
<1>4. ASSUME NEW id \in Tasks, NEW e \in Exprs, Create(id, e) PROVE KeptInv'
  <2> DEFINE t == [id |-> id, expr |-> e, oneShot |-> IsOneShot(e), enabled |-> TRUE,
                   nextRun |-> NextRun(e, time), hasRun |-> FALSE]
  <2>1. t \in Entries /\ t.id = id
    BY <1>0, NextRunLater DEF Entries, IsOneShot
  <2>2. t.enabled /\ SoundEntry(t, Started, botched)
    BY <1>4 DEF Create, Refused, SoundEntry
  <2> HIDE DEF t
  <2>3. /\ tasks' = Append(tasks, t) /\ disk' = tasks' /\ up
        /\ UNCHANGED <<up, manual, missed, at, task, begun, byHand, botched, told, untold>>
        /\ promised' \subseteq promised \cup {id}
    BY <1>4 DEF Create, Commit, t
  <2>4. Keeps(tasks', Owed \cup {id}) /\ Sound(tasks', Started, botched)
    BY <1>0, <1>1, <2>1, <2>2, <2>3, KeptAppended
  <2>5. Started' = Started /\ Owed' \subseteq Owed \cup {id} /\ Ran'
    BY <1>0, <2>3 DEF Started, Owed, Ran
  <2>. QED
    BY <1>3, <2>3, <2>4, <2>5, KeepsFewer
<1>5. ASSUME NEW id \in Tasks, Delete(id) PROVE KeptInv'
  <2>1. PICK i \in DOMAIN tasks : tasks[i].id = id /\ tasks' = RemoveAt(tasks, i) /\ disk' = tasks'
    BY <1>5 DEF Delete, IndexOf, Commit
  <2>2. /\ up /\ promised' = promised \ {id}
        /\ UNCHANGED <<up, manual, missed, at, task, begun, byHand, botched, told, untold>>
    BY <1>5 DEF Delete
  <2>3. \A k \in DOMAIN tasks' : \E j \in DOMAIN tasks : tasks'[k] = tasks[j]
    BY <2>1, Removed DEF Lists
  <2>4. Sound(tasks', Started, botched)
    BY <1>0, <2>3 DEF Sound
  <2>5. Keeps(tasks', Owed \ {id})
    BY <1>1, <2>1, <2>2, KeptRemoved DEF Lists
  <2>6. Started' = Started /\ Owed' \subseteq Owed \ {id} /\ Ran'
    BY <1>0, <2>2 DEF Started, Owed, Ran
  <2>. QED
    BY <1>3, <2>1, <2>2, <2>4, <2>5, <2>6, KeepsFewer
<1>6. ASSUME NEW id \in Tasks, NEW e \in Exprs, NEW on \in BOOLEAN, Update(id, e, on)
      PROVE  KeptInv'
  <2>1. PICK i \in DOMAIN tasks :
          /\ tasks[i].id = id
          /\ tasks' = [tasks EXCEPT ![i] = Edited(tasks[i], e, on)] /\ disk' = tasks'
    BY <1>6 DEF Update, IndexOf, Commit
  <2>2. /\ up /\ botched' = botched \ {id} /\ told' = told \ {id} /\ untold' = untold \ {id}
        /\ promised' = IF on /\ IsOneShot(e) THEN promised \cup {id} ELSE promised \ {id}
        /\ UNCHANGED <<up, manual, missed, at, task, begun, byHand>>
        /\ on => NextRun(e, time) # Never
    BY <1>6 DEF Update, Edit, Refused
  <2> DEFINE t == Edited(tasks[i], e, on)
  <2>3. t \in Entries /\ t.id = id /\ t.enabled = on
    BY <1>0, <2>1, EntryEdited DEF Edited, Entries
  <2>4. SoundEntry(t, Started, {})
    BY <1>0, <2>1, <2>2, SoundEdited DEF Sound
  <2>5. SoundEntry(t, Started, botched')
    BY <2>4 DEF SoundEntry
  <2> HIDE DEF t
  <2>6. \A k \in DOMAIN tasks : k # i => tasks[k].id # id
    BY <2>1 DEF Lists, Listed, Distinct
  <2>7. Sound(tasks', Started, botched')
    BY <1>0, <2>1, <2>2, <2>3, <2>5, <2>6, SoundReplaced DEF t
  <2>8. Started' = Started /\ Ran' /\ Owed' \subseteq (IF on THEN Owed \cup {id} ELSE Owed \ {id})
    BY <1>0, <2>2 DEF Started, Owed, Ran
  <2>9. Keeps(tasks', IF on THEN Owed \cup {id} ELSE Owed \ {id})
    BY <1>0, <1>1, <2>1, <2>2, <2>3, KeptReplaced DEF t
  <2>. QED
    BY <1>3, <2>1, <2>7, <2>8, <2>9, KeepsFewer
<1>7. ASSUME NEW id \in Tasks, NEW e \in Exprs, NEW on \in BOOLEAN, UpdateRefused(id, e, on)
      PROVE  KeptInv'
  <2>1. PICK i \in DOMAIN tasks :
          tasks[i].id = id /\ tasks' = [tasks EXCEPT ![i] = HalfEdited(tasks[i], e, on)]
    BY <1>7 DEF UpdateRefused, IndexOf
  <2>2. /\ up /\ botched' = botched \cup {id}
        /\ UNCHANGED <<up, disk, manual, missed, at, task, begun, byHand, told, untold, promised>>
    BY <1>7 DEF UpdateRefused, Edit
  <2> DEFINE t == HalfEdited(tasks[i], e, on)
  <2>3. t \in Entries /\ t.id = id /\ t.hasRun = tasks[i].hasRun
    <3>1. tasks[i] \in Entries
      BY <1>0
    <3>2. t.hasRun = tasks[i].hasRun
      BY <3>1 DEF HalfEdited, Entries
    <3>. QED
      BY <1>0, <2>1, <3>1, <3>2, EntryEdited
  <2>4. SoundEntry(t, Started, botched')
    BY <1>0, <2>1, <2>2, <2>3 DEF Sound, SoundEntry
  <2> HIDE DEF t
  <2>5. DOMAIN tasks' = DOMAIN tasks /\ tasks'[i] = t
        /\ \A k \in DOMAIN tasks : k # i => tasks'[k] = tasks[k]
    BY <1>0, <2>1 DEF t
  <2>6. Sound(tasks', Started, botched')
    BY <1>0, <2>1, <2>2, <2>3, <2>4, SoundReplaced DEF t
  <2>7. Saved(tasks', disk, botched')
    BY <1>0, <2>1, <2>2, <2>3, <2>5 DEF Saved
  <2>8. Started' = Started /\ Ran' /\ Owed' \subseteq Owed
    BY <1>0, <2>2 DEF Started, Owed, Ran
  <2>9. Sound(disk, Started, botched')
    BY <1>0, <2>2, SoundStays
  <2>. QED
    BY <1>0, <2>2, <2>6, <2>7, <2>8, <2>9, KeepsFewer DEF KeptInv
<1>8. ASSUME NEW id \in Tasks, RunNow(id) PROVE KeptInv'
  <2>1. /\ manual' = manual \cup {id} /\ byHand' = byHand \cup {id} /\ up
        /\ UNCHANGED <<up, tasks, disk, missed, at, task, begun, botched, told, untold, promised>>
    BY <1>8 DEF RunNow, Edit
  <2>2. Started' = Started \cup {id}
    BY <2>1 DEF Started
  <2>3. Owed' \subseteq Owed /\ Ran'
    BY <1>0, <2>1, <2>2 DEF Owed, Ran
  <2>. QED
    BY <1>2, <2>1, <2>2, <2>3
<1>9. ASSUME NEW id \in Tasks, RunNowEnds(id) PROVE KeptInv'
  <2>1. /\ id \in manual /\ id \in Started /\ up /\ manual' \subseteq manual
        /\ UNCHANGED <<up, missed, at, task, begun, byHand, botched, told, untold, promised>>
    BY <1>0, <1>9 DEF RunNowEnds, Ran
  <2>2. Started' = Started /\ Owed' = Owed /\ Ran'
    BY <1>0, <2>1 DEF Started, Owed, Ran
  <2>3. CASE UNCHANGED <<tasks, disk>>
    BY <1>2, <2>1, <2>2, <2>3
  <2>4. ASSUME NEW i \in DOMAIN tasks, tasks[i].id = id, disk' = tasks',
               tasks' = [tasks EXCEPT ![i] = [tasks[i] EXCEPT !.hasRun = TRUE]]
        PROVE  KeptInv'
    <3> DEFINE t == [tasks[i] EXCEPT !.hasRun = TRUE]
    <3>1. /\ t \in Entries /\ t.id = id /\ t.oneShot = tasks[i].oneShot /\ t.expr = tasks[i].expr
          /\ t.enabled = tasks[i].enabled /\ t.nextRun = tasks[i].nextRun
      BY <1>0, <2>4 DEF Entries
    <3>2. SoundEntry(t, Started, botched)
      BY <1>0, <2>1, <2>4, <3>1 DEF Sound, SoundEntry
    <3> HIDE DEF t
    <3>3. Sound(tasks', Started, botched)
      BY <1>0, <2>4, <3>1, <3>2, SoundReplaced DEF t
    <3>4. Keeps(tasks', Owed \ {id})
      BY <1>0, <1>1, <2>1, <2>4, <3>1, KeptReplaced DEF t
    <3>5. Owed = Owed \ {id}
      BY <2>1 DEF Owed
    <3>. QED
      BY <1>3, <2>1, <2>2, <2>4, <3>3, <3>4, <3>5
  <2>. QED
    BY <1>9, <2>3, <2>4 DEF RunNowEnds, IndexOf
<1>10. ASSUME NEW f \in Fires, Expire(f) \/ Check(f) \/ Collect(f) \/ Reschedule(f) PROVE KeptInv'
  <2>1. UNCHANGED <<up, tasks, disk, manual, missed, task, told, pastVars>>
    BY <1>10 DEF Expire, Check, Collect, Reschedule
  <2>2. \A g \in Fires : at'[g] = "running" => at[g] = "running"
    BY <1>10 DEF Expire, Check, Collect, Reschedule, Continued, Scalars
  <2>3. Started' = Started /\ Owed' = Owed
    BY <2>1 DEF Started, Owed
  <2>4. Ran'
    BY <1>0, <2>1, <2>2, <2>3 DEF Ran
  <2>. QED
    BY <1>2, <2>1, <2>3, <2>4
<1>11. ASSUME NEW f \in Fires, Pick(f) PROVE KeptInv'
  <2>1. PICK i \in DOMAIN tasks :
          /\ task' = [task EXCEPT ![f] = tasks[i].id]
          /\ begun' = begun \cup {<<tasks[i].id, tasks[i].nextRun>>}
    BY <1>11 DEF Pick
  <2>2. UNCHANGED <<up, tasks, disk, manual, missed, told, promised, byHand, botched, untold>>
        /\ at' = [at EXCEPT ![f] = "running"]
    BY <1>11 DEF Pick
  <2>3. Started \subseteq Started' /\ tasks[i].id \in Started'
    <3> DEFINE b == <<tasks[i].id, tasks[i].nextRun>>
    <3>1. b \in begun' /\ b[1] = tasks[i].id /\ begun \subseteq begun'
      BY <2>1
    <3>. QED
      BY <2>2, <3>1 DEF Started
  <2>4. Owed' \subseteq Owed
    BY <2>2, <2>3 DEF Owed
  <2>5. Ran'
    BY <1>0, <2>1, <2>2, <2>3 DEF Ran, Scalars
  <2>. QED
    BY <1>2, <2>2, <2>3, <2>4, <2>5
<1>12. ASSUME NEW f \in Fires, Settle(f) PROVE KeptInv'
  <2>1. /\ at[f] = "running" /\ task[f] \in Started
        /\ UNCHANGED <<up, manual, missed, told, begun, promised, byHand, botched, untold>>
    BY <1>0, <1>12 DEF Settle, Ran
  <2>2. up
    BY <2>1 DEF Down, InFlight
  <2>3. Started' = Started /\ Owed' = Owed
    BY <2>1 DEF Started, Owed
  <2>4. \A g \in Fires : at'[g] = "running" => at[g] = "running" /\ task'[g] = task[g]
    <3>1. at'[f] # "running" /\ \A g \in Fires \ {f} : at'[g] = at[g] /\ task'[g] = task[g]
      BY <1>12 DEF Settle, Continued, Scalars
    <3>. QED
      BY <3>1
  <2>5. Ran'
    BY <1>0, <2>1, <2>3, <2>4 DEF Ran
  <2>6. CASE UNCHANGED <<tasks, disk>>
    BY <1>2, <2>1, <2>3, <2>5, <2>6
  <2>7. ASSUME NEW i \in DOMAIN tasks, tasks[i].id = task[f], disk' = tasks',
               tasks' = [tasks EXCEPT ![i] = Recorded(tasks[i])]
        PROVE  KeptInv'
    <3> DEFINE t == Recorded(tasks[i])
    <3>1. t \in Entries /\ t.id = task[f]
      BY <1>0, <2>7, EntryRecorded
    <3>2. SoundEntry(t, Started, botched)
      BY <1>0, <2>1, <2>7, SoundRecorded DEF Sound
    <3> HIDE DEF t
    <3>3. Sound(tasks', Started, botched)
      BY <1>0, <2>7, <3>1, <3>2, SoundReplaced DEF t
    <3>4. Keeps(tasks', Owed \ {task[f]})
      BY <1>0, <1>1, <2>2, <2>7, <3>1, KeptReplaced DEF t
    <3>5. Owed = Owed \ {task[f]}
      BY <2>1 DEF Owed
    <3>. QED
      BY <1>3, <2>1, <2>3, <2>5, <2>7, <3>3, <3>4, <3>5
  <2>. QED
    BY <1>12, <2>6, <2>7 DEF Settle, IndexOf
<1>13. ASSUME Start \/ Stop \/ Tick PROVE KeptInv'
  <2>1. UNCHANGED <<up, tasks, disk, manual, missed, at, task, told, pastVars>>
    BY <1>13 DEF Start, Stop, Tick
  <2>2. Started' = Started /\ Owed' = Owed /\ Ran'
    BY <1>0, <2>1 DEF Started, Owed, Ran
  <2>. QED
    BY <1>2, <2>1, <2>2
<1>14. ASSUME Tell PROVE KeptInv'
  <2>1. /\ UNCHANGED <<up, tasks, disk, manual, at, task, pastVars>>
        /\ told' = told \cup missed /\ missed' = {}
    BY <1>14 DEF Tell
  <2>2. Started' = Started /\ Owed' = Owed
    BY <2>1 DEF Started, Owed
  <2>3. Ran'
    BY <1>0, <2>1, <2>2 DEF Ran
  <2>. QED
    BY <1>2, <2>1, <2>2, <2>3
(* The end of the application: the list is gone, what was missed and not   *)
(* told of is excused, the file is as it was.                              *)
<1>15. ASSUME End PROVE KeptInv'
  <2>1. /\ ~up' /\ tasks' = <<>> /\ missed' = {} /\ manual' = {} /\ untold' = untold \cup missed
        /\ \A g \in Fires : at'[g] = "idle"
        /\ UNCHANGED <<disk, told, begun, promised, byHand, botched>>
    BY <1>15 DEF End
  <2>2. Started' = Started /\ Owed' \subseteq Owed
    BY <2>1 DEF Started, Owed
  <2>3. Ran'
    BY <2>1 DEF Ran
  <2>4. Sound(tasks', Started, botched)
    BY <2>1 DEF Sound
  <2>. QED
    BY <1>0, <2>1, <2>2, <2>3, <2>4, KeepsFewer DEF KeptInv
(* A start: what has passed is either told of or was started before.       *)
<1>16. ASSUME Launch PROVE KeptInv'
  <2>1. /\ tasks' = [i \in DOMAIN disk |-> Loaded(disk[i])] /\ disk' = tasks'
        /\ missed' = {disk[i].id : i \in {k \in DOMAIN disk : Passed(disk[k]) /\ ~disk[k].hasRun}}
        /\ ~up /\ up'
        /\ UNCHANGED <<manual, at, task, told, begun, promised, byHand, botched, untold>>
    BY <1>16 DEF Launch
  <2>2. Started' = Started /\ missed = {}
    BY <1>0, <2>1 DEF Started, Ran
  <2>3. Owed' \subseteq Owed /\ Owed' \cap missed' = {}
    BY <2>1, <2>2 DEF Owed
  <2>4. Ran'
    BY <1>0, <2>1, <2>2 DEF Ran
  <2>5. Sound(tasks', Started, botched)
    <3>1. \A i \in DOMAIN disk : SoundEntry(Loaded(disk[i]), Started, botched)
      BY <1>0, SoundLoaded DEF Sound
    <3>. QED
      BY <2>1, <3>1 DEF Sound
  <2>6. ASSUME NEW id \in Owed' PROVE \E i \in IndexOf(tasks', id) : tasks'[i].enabled
    <3>1. PICK i \in DOMAIN disk : disk[i].id = id /\ disk[i].enabled
      BY <1>0, <2>3 DEF Keeps, IndexOf
    <3>2. ~disk[i].hasRun
      BY <1>0, <2>3, <3>1 DEF Sound, SoundEntry, Owed
    <3>3. ~Passed(disk[i])
      BY <2>1, <2>3, <3>1, <3>2
    <3>4. tasks'[i].enabled /\ tasks'[i].id = id /\ i \in DOMAIN tasks'
      BY <1>0, <2>1, <3>1, <3>3 DEF Loaded, Entries
    <3>. QED
      BY <3>4 DEF IndexOf
  <2>7. Keeps(tasks', Owed')
    BY <2>6 DEF Keeps
  <2>. QED
    BY <1>3, <2>1, <2>2, <2>4, <2>5, <2>7
<1>. QED
  BY <1>4, <1>5, <1>6, <1>7, <1>8, <1>9, <1>10, <1>11, <1>12, <1>13, <1>14, <1>15, <1>16
  DEF Next, Fire, User, Quit, Panic

LEMMA KeptInductive == Spec => []KeptInv
<1>1. Init => KeptInv
  BY DEF Init, KeptInv, Ran, Saved, Sound, Keeps, Owed, Started
<1>2. ASSUME IInv, KeptInv, [Next]_vars PROVE KeptInv'
  <2>1. CASE Next
    BY <1>2, <2>1, KeptStep DEF IInv, Flights
  <2>2. CASE UNCHANGED vars
    BY <1>2, <2>2 DEF vars, fireVars, pastVars, KeptInv, Ran, Saved, Sound, SoundEntry, Keeps, IndexOf, Owed, Started
  <2>. QED
    BY <1>2, <2>1, <2>2
<1>. QED
  BY <1>1, <1>2, Invariance, PTL DEF Spec

(* Through edits, fires, a kill at any step and restarts, a one-shot that  *)
(* was never started waits in the list, or in the file, or its instant has *)
(* passed and the user is told, for any tasks and goroutines.              *)
THEOREM SchedulerNeverLost == Spec => []NeverLost
<1>1. ASSUME KeptInv PROVE NeverLost
  <2>1. SUFFICES ASSUME NEW id \in Owed PROVE Pending(id)
    BY DEF NeverLost, Owed, Started, Begun
  <2>2. PICK i \in DOMAIN disk : disk[i].id = id /\ disk[i].enabled
    BY <1>1 DEF KeptInv, Keeps, IndexOf
  <2>3. CASE up
    <3>1. i \in DOMAIN tasks /\ tasks[i].id = id /\ tasks[i].enabled
      BY <1>1, <2>2, <2>3 DEF KeptInv, Saved, Owed
    <3>2. tasks[i].nextRun # Never
      BY <1>1, <3>1 DEF KeptInv, Sound, SoundEntry, Owed
    <3>. QED
      BY <2>3, <3>1, <3>2 DEF Pending, IndexOf, Waiting
  <2>. QED
    BY <2>2, <2>3 DEF Pending, IndexOf
<1>. QED
  BY <1>1, KeptInductive, PTL
=============================================================================
