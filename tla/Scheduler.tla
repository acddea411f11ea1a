----------------------------- MODULE Scheduler ------------------------------
(***************************************************************************)
(* The task scheduler (internal/scheduler/scheduler.go): a list of tasks,  *)
(* one-shot or recurring, kept in a file; one timer for the nearest task;  *)
(* a fire goroutine that runs what is due, with the lock released during   *)
(* each run; and the user, the agent's own schedule tools and restarts of  *)
(* the application, all of which change the list meanwhile.  What a run    *)
(* does, delivers and leaves in the history is left out.  A save always    *)
(* succeeds.                                                               *)
(***************************************************************************)
EXTENDS Integers, Sequences, SequencesExt

CONSTANTS
  Tasks,      \* ids: every task created gets a fresh one
  Fires,      \* goroutines the timer may have started at one time
  Instants,   \* of one-shot tasks
  Periods,    \* of recurring tasks
  MaxTime,    \* bound: the clock stops there
  MaxEdits    \* bound: calls of Update, Stop and RunNow, and ends of the application

ASSUME ScheduleAssumption ==
  /\ Instants \subseteq Nat \ {0} /\ Periods \subseteq Nat \ {0}
  /\ MaxTime \in Nat /\ MaxEdits \in Nat

VARIABLES
  time,
  up,          \* the application runs
  running, timer, tasks,       \* of the Scheduler, lost with the application
  disk,        \* the store's file
  at, due, task,               \* of every fire: where it is, the indices of the
                               \* tasks it has still to run, the id it runs
  manual,      \* tasks that RunNow runs
  missed,      \* one-shots found missed by Load, and not told yet
  told,        \* catch-up notifications
  created, edits,
  disturbed,   \* history: fires that saw the list edited, or overlap another
  begun,       \* history: the <<id, instant>> a fire has started
  settled,     \* history: the <<id, instant>> a fire has recorded
  promised,    \* history: one-shots scheduled by a call that succeeded
  byHand,      \* history: tasks given to RunNow
  botched,     \* history: tasks whose last update failed
  untold       \* history: missed tasks the application ended before telling

fireVars == <<at, due, task>>
pastVars == <<begun, settled, promised, byHand, botched, untold>>
vars == <<time, up, running, timer, tasks, disk, fireVars, manual, missed, told,
          created, edits, disturbed, pastVars>>

-----------------------------------------------------------------------------
(* Expressions.  nextRun gives a zero time for a one-shot whose instant    *)
(* has passed, and takes a bad expression for one that is due in an hour.  *)

Never == 0

Exprs == [kind : {"at"}, when : Instants]
           \cup [kind : {"every", "bad"}, when : Periods]

IsOneShot(e) == e.kind = "at"

NextRun(e, from) ==
  IF ~IsOneShot(e) THEN from + e.when
  ELSE IF e.when > from THEN e.when ELSE Never

(* What Create and Update refuse.                                          *)
Refused(e) == e.kind = "bad" \/ NextRun(e, time) = Never

Waiting(ts) == {i \in DOMAIN ts : ts[i].enabled /\ ts[i].nextRun # Never}
IsDue(t)    == t.enabled /\ t.nextRun # Never /\ t.nextRun <= time

IndexOf(ts, id) == {i \in DOMAIN ts : ts[i].id = id}

InFlight(f) == at[f] # "idle"

Init ==
  /\ time = 1 /\ up = FALSE
  /\ running = FALSE /\ timer = Never /\ tasks = <<>> /\ disk = <<>>
  /\ at = [f \in Fires |-> "idle"] /\ due = [f \in Fires |-> {}]
  /\ task = [f \in Fires |-> Never]
  /\ manual = {} /\ missed = {} /\ told = {} /\ created = {} /\ edits = 0
  /\ disturbed = {} /\ begun = {} /\ settled = {}
  /\ promised = {} /\ byHand = {} /\ botched = {} /\ untold = {}

-----------------------------------------------------------------------------
(* armNextTimerLocked: the pending timer gives way to one for the nearest  *)
(* task; a task that is past due fires at once.                            *)
Arm(ts) ==
  IF Waiting(ts) = {} THEN timer' = Never
  ELSE \E i \in Waiting(ts) :
         /\ \A k \in Waiting(ts) : ts[i].nextRun <= ts[k].nextRun
         /\ timer' = ts[i].nextRun

\* The change does not set the timer anew.
ArmsLater(ts) == UNCHANGED timer

ArmIfRunning(ts) == IF running THEN Arm(ts) ELSE UNCHANGED timer

Disturb == disturbed' = disturbed \cup {f \in Fires : InFlight(f)}

Edit ==
  /\ up /\ edits < MaxEdits
  /\ edits' = edits + 1

\* The change is not saved.
CommitInMemory(ts) ==
  /\ tasks' = ts /\ UNCHANGED disk
  /\ ArmIfRunning(ts)
  /\ Disturb

(* The list is changed, saved, and the timer set anew.                     *)
Commit(ts) ==
  /\ tasks' = ts /\ disk' = ts
  /\ ArmIfRunning(ts)
  /\ Disturb

Create(id, e) ==
  /\ up /\ id \notin created
  /\ ~Refused(e)
  /\ Commit(Append(tasks, [id |-> id, expr |-> e, oneShot |-> IsOneShot(e),
                           enabled |-> TRUE, nextRun |-> NextRun(e, time),
                           hasRun |-> FALSE]))
  /\ created' = created \cup {id}
  /\ promised' = IF IsOneShot(e) THEN promised \cup {id} ELSE promised
  /\ UNCHANGED <<time, up, running, fireVars, manual, missed, told, edits,
                 begun, settled, byHand, botched, untold>>

Delete(id) ==
  /\ up
  /\ \E i \in IndexOf(tasks, id) : Commit(RemoveAt(tasks, i))
  /\ promised' = promised \ {id}
  /\ UNCHANGED <<time, up, running, fireVars, manual, missed, told, created,
                 edits, begun, settled, byHand, botched, untold>>

Edited(t, e, on) ==
  [t EXCEPT !.expr = e, !.oneShot = IsOneShot(e), !.enabled = on,
            !.nextRun = IF on THEN NextRun(e, time) ELSE Never]

HalfEdited(t, e, on) ==
  [t EXCEPT !.expr = e, !.enabled = on,
            !.oneShot = IF e.kind = "bad" THEN @ ELSE TRUE]

(* Update of an enabled task, and of one that is to be disabled: the next  *)
(* run is computed from now.  The caller's changes are in the list before  *)
(* they are looked at.                                                     *)
Update(id, e, on) ==
  /\ Edit
  /\ e.kind # "bad" /\ ~(on /\ Refused(e))
  /\ \E i \in IndexOf(tasks, id) : Commit([tasks EXCEPT ![i] = Edited(@, e, on)])
  /\ promised' = IF on /\ IsOneShot(e) THEN promised \cup {id} ELSE promised \ {id}
  /\ told' = told \ {id}
  /\ botched' = botched \ {id}
  /\ untold' = untold \ {id}
  /\ UNCHANGED <<time, up, running, fireVars, manual, missed, created,
                 begun, settled, byHand>>

(* An update that is refused leaves the changes in the list, and neither   *)
(* saves it nor sets the timer.                                            *)
UpdateRefused(id, e, on) ==
  /\ Edit
  /\ e.kind = "bad" \/ (on /\ Refused(e))
  /\ \E i \in IndexOf(tasks, id) :
       tasks' = [tasks EXCEPT ![i] = HalfEdited(@, e, on)]
  /\ botched' = botched \cup {id}
  /\ Disturb
  /\ UNCHANGED <<time, up, running, timer, disk, fireVars, manual, missed, told,
                 created, begun, settled, promised, byHand, untold>>

RunNow(id) ==
  /\ Edit
  /\ IndexOf(tasks, id) # {} /\ id \notin manual
  /\ manual' = manual \cup {id}
  /\ byHand' = byHand \cup {id}
  /\ UNCHANGED <<time, up, running, timer, tasks, disk, fireVars, missed, told,
                 created, disturbed, begun, settled, promised, botched, untold>>

RunNowEnds(id) ==
  /\ id \in manual
  /\ manual' = manual \ {id}
  /\ \/ \E i \in IndexOf(tasks, id) :
          /\ tasks' = [tasks EXCEPT ![i] = [@ EXCEPT !.hasRun = TRUE]]
          /\ disk' = tasks'
     \/ IndexOf(tasks, id) = {} /\ UNCHANGED <<tasks, disk>>
  /\ UNCHANGED <<time, up, running, timer, fireVars, missed, told, created,
                 edits, disturbed, pastVars>>

-----------------------------------------------------------------------------
(* The fire goroutines: fireAndReschedule and fireDue.                     *)

Expire(f) ==
  /\ timer # Never /\ timer <= time
  /\ at[f] = "idle"
  /\ timer' = Never
  /\ at' = [at EXCEPT ![f] = "started"]
  /\ disturbed' = IF \E g \in Fires : InFlight(g) THEN disturbed \cup {f}
                                                  ELSE disturbed \ {f}
  /\ UNCHANGED <<time, up, running, tasks, disk, due, task, manual, missed, told,
                 created, edits, pastVars>>

\* The timer is set before the due tasks are run.
CheckAndArm(f) ==
  /\ at[f] = "started"
  /\ at' = [at EXCEPT ![f] = IF running THEN "collecting" ELSE "idle"]
  /\ ArmIfRunning(tasks)
  /\ UNCHANGED <<time, up, running, tasks, disk, due, task, manual, missed,
                 told, created, edits, disturbed, pastVars>>

Check(f) ==
  /\ at[f] = "started"
  /\ at' = [at EXCEPT ![f] = IF running THEN "collecting" ELSE "idle"]
  /\ UNCHANGED <<time, up, running, timer, tasks, disk, due, task, manual, missed,
                 told, created, edits, disturbed, pastVars>>

Continued(indices) == IF indices = {} THEN "arming" ELSE "picking"

\* Paused tasks are taken too.
CollectPaused(f) ==
  /\ at[f] = "collecting"
  /\ due' = [due EXCEPT ![f] = {i \in DOMAIN tasks : tasks[i].nextRun \in 1..time}]
  /\ at' = [at EXCEPT ![f] = Continued(due'[f])]
  /\ UNCHANGED <<time, up, running, timer, tasks, disk, task, manual, missed, told,
                 created, edits, disturbed, pastVars>>

Collect(f) ==
  /\ at[f] = "collecting"
  /\ due' = [due EXCEPT ![f] = {i \in DOMAIN tasks : IsDue(tasks[i])}]
  /\ at' = [at EXCEPT ![f] = Continued(due'[f])]
  /\ UNCHANGED <<time, up, running, timer, tasks, disk, task, manual, missed, told,
                 created, edits, disturbed, pastVars>>

(* The tasks are run in the order of the list.                             *)
IsFirst(f, i) == i \in due[f] /\ \A k \in due[f] : i <= k

(* The task is looked up by its index, and run whatever it is by now.      *)
Pick(f) ==
  /\ at[f] = "picking"
  /\ \E i \in DOMAIN tasks :
       /\ IsFirst(f, i)
       /\ task' = [task EXCEPT ![f] = tasks[i].id]
       /\ begun' = begun \cup {<<tasks[i].id, tasks[i].nextRun>>}
  /\ at' = [at EXCEPT ![f] = "running"]
  /\ UNCHANGED <<time, up, running, timer, tasks, disk, due, manual, missed, told,
                 created, edits, disturbed, settled, promised, byHand, botched, untold>>

\* A one-shot keeps its instant.
RecordedStill(t) ==
  [t EXCEPT !.hasRun = TRUE,
            !.nextRun = IF t.oneShot THEN @ ELSE NextRun(t.expr, time)]

(* The record of a run, when the task is still where it was.               *)
Recorded(t) ==
  [t EXCEPT !.hasRun = TRUE,
            !.enabled = IF t.oneShot THEN FALSE ELSE @,
            !.nextRun = IF t.oneShot THEN Never ELSE NextRun(t.expr, time)]

Settle(f) ==
  /\ at[f] = "running"
  /\ \E i \in due[f] :
       /\ IsFirst(f, i)
       /\ due' = [due EXCEPT ![f] = @ \ {i}]
       /\ at' = [at EXCEPT ![f] = Continued(due[f] \ {i})]
       /\ \/ /\ i \in IndexOf(tasks, task[f])
             /\ tasks' = [tasks EXCEPT ![i] = Recorded(@)]
             /\ disk' = tasks'
             /\ settled' = IF IsDue(tasks[i])
                           THEN settled \cup {<<task[f], tasks[i].nextRun>>}
                           ELSE settled
          \/ /\ i \notin IndexOf(tasks, task[f])
             /\ UNCHANGED <<tasks, disk, settled>>
  /\ task' = [task EXCEPT ![f] = Never]
  /\ UNCHANGED <<time, up, running, timer, manual, missed, told, created, edits,
                 disturbed, begun, promised, byHand, botched, untold>>

\* The timer is not set for the next run.
RescheduleNever(f) ==
  /\ at[f] = "arming"
  /\ at' = [at EXCEPT ![f] = "idle"]
  /\ UNCHANGED <<time, up, running, timer, tasks, disk, due, task, manual, missed,
                 told, created, edits, disturbed, pastVars>>

Reschedule(f) ==
  /\ at[f] = "arming"
  /\ ArmIfRunning(tasks)
  /\ at' = [at EXCEPT ![f] = "idle"]
  /\ UNCHANGED <<time, up, running, tasks, disk, due, task, manual, missed, told,
                 created, edits, disturbed, pastVars>>

-----------------------------------------------------------------------------
(* Start and Stop, and the life of the application.                        *)

Start ==
  /\ up /\ ~running
  /\ running' = TRUE
  /\ Arm(tasks)
  /\ Disturb
  /\ UNCHANGED <<time, up, tasks, disk, fireVars, manual, missed, told, created,
                 edits, pastVars>>

Stop ==
  /\ Edit
  /\ running
  /\ running' = FALSE
  /\ timer' = Never
  /\ UNCHANGED <<time, up, tasks, disk, fireVars, manual, missed, told, created,
                 disturbed, pastVars>>

(* What the process has in memory is gone.                                 *)
End ==
  /\ up' = FALSE /\ running' = FALSE /\ timer' = Never /\ tasks' = <<>>
  /\ at' = [f \in Fires |-> "idle"] /\ due' = [f \in Fires |-> {}]
  /\ task' = [f \in Fires |-> Never] /\ disturbed' = {}
  /\ manual' = {} /\ missed' = {}
  /\ untold' = untold \cup missed
  /\ UNCHANGED <<time, disk, told, created, begun, settled, promised, byHand, botched>>

(* The application ends, or is killed.                                     *)
Quit == Edit /\ End

(* The index is out of range: the goroutine panics, and the application    *)
(* with it.                                                                *)
Panic(f) ==
  /\ at[f] = "picking"
  /\ \E i \in due[f] : IsFirst(f, i) /\ i \notin DOMAIN tasks
  /\ End
  /\ UNCHANGED edits

(* Load: an enabled one-shot whose instant has passed is disabled.         *)
Passed(t) == t.enabled /\ t.oneShot /\ NextRun(t.expr, time) = Never

Loaded(t) ==
  IF ~t.enabled THEN t
  ELSE IF Passed(t) THEN [t EXCEPT !.enabled = FALSE, !.nextRun = Never]
  ELSE [t EXCEPT !.nextRun = NextRun(t.expr, time)]

(* initScheduler: Load and Start.                                          *)
Launch ==
  /\ ~up
  /\ up' = TRUE /\ running' = TRUE
  /\ tasks' = [i \in DOMAIN disk |-> Loaded(disk[i])]
  /\ disk' = tasks'
  /\ missed' = {disk[i].id : i \in {k \in DOMAIN disk : Passed(disk[k]) /\ ~disk[k].hasRun}}
  /\ Arm(tasks')
  /\ UNCHANGED <<time, fireVars, manual, told, created, edits, disturbed, pastVars>>

(* The catch-up notifications, two seconds later.                          *)
Tell ==
  /\ missed # {}
  /\ told' = told \cup missed
  /\ missed' = {}
  /\ UNCHANGED <<time, up, running, timer, tasks, disk, fireVars, manual, created,
                 edits, disturbed, pastVars>>

Tick ==
  /\ time < MaxTime
  /\ time' = time + 1
  /\ UNCHANGED <<up, running, timer, tasks, disk, fireVars, manual, missed, told,
                 created, edits, disturbed, pastVars>>

-----------------------------------------------------------------------------
Fire(f) ==
  Check(f) \/ Collect(f) \/ Pick(f) \/ Panic(f) \/ Settle(f) \/ Reschedule(f)

User ==
  \/ \E id \in Tasks :
       \/ Delete(id) \/ RunNow(id) \/ RunNowEnds(id)
       \/ \E e \in Exprs :
            \/ Create(id, e)
            \/ \E on \in BOOLEAN : Update(id, e, on) \/ UpdateRefused(id, e, on)
  \/ Start \/ Stop \/ Quit \/ Launch

Next ==
  \/ \E f \in Fires : Expire(f) \/ Fire(f)
  \/ User \/ Tell \/ Tick

Spec == Init /\ [][Next]_vars

(* Timers expire, and a run ends by its timeout of ten minutes.            *)
FairSpec ==
  /\ Spec
  /\ WF_vars(\E f \in Fires : Expire(f))
  /\ \A f \in Fires : WF_vars(Fire(f))

-----------------------------------------------------------------------------
Entries == [id : Tasks, expr : Exprs, oneShot : BOOLEAN, enabled : BOOLEAN,
            nextRun : Nat, hasRun : BOOLEAN]

Distinct(ts) == \A i, k \in DOMAIN ts : ts[i].id = ts[k].id => i = k

TypeOK ==
  /\ time \in Nat /\ up \in BOOLEAN /\ running \in BOOLEAN /\ timer \in Nat
  /\ tasks \in Seq(Entries) /\ disk \in Seq(Entries)
  /\ at \in [Fires -> {"idle", "started", "collecting", "picking", "running", "arming"}]
  /\ due \in [Fires -> SUBSET Nat]
  /\ task \in [Fires -> Tasks \cup {Never}]
  /\ manual \subseteq Tasks /\ missed \subseteq Tasks /\ told \subseteq Tasks
  /\ created \subseteq Tasks /\ edits \in Nat
  /\ Distinct(tasks)

(* The timer is set for the nearest task, or a fire is about to set it: no *)
(* task waits that nothing will start, unless its last update failed.      *)
Armed ==
  running /\ (\A f \in Fires : ~InFlight(f)) =>
    \A i \in Waiting(tasks) :
      tasks[i].id \in botched \/ (timer # Never /\ timer <= tasks[i].nextRun)

(* "Sequentially": while nobody edits the list during a fire, there is one *)
(* fire at a time.                                                         *)
Sequential ==
  \A f, g \in Fires : f # g /\ InFlight(f) /\ InFlight(g) => f \in disturbed

(* A fire nobody disturbs runs tasks that are due, and records each in its *)
(* own entry.                                                              *)
RunsWhatIsDue ==
  \A f \in Fires \ disturbed :
    at[f] = "running" =>
      \E i \in IndexOf(tasks, task[f]) : IsFirst(f, i) /\ IsDue(tasks[i])

(* An instant that was recorded as run is never waited for again.          *)
NotAgain ==
  \A i \in Waiting(tasks) : <<tasks[i].id, tasks[i].nextRun>> \notin settled

(* A fire nobody disturbs is alone, runs what is due and is done with it.  *)
FiresInOrder == Sequential /\ RunsWhatIsDue /\ NotAgain

Begun(id) == \E b \in begun : b[1] = id

Pending(id) ==
  IF up THEN \E i \in IndexOf(tasks, id) : i \in Waiting(tasks)
        ELSE \E i \in IndexOf(disk, id) : disk[i].enabled

(* A one-shot that was never started, by the timer or by hand, is never    *)
(* lost: it waits, or its instant passed and the user is told of it.       *)
NeverLost ==
  \A id \in promised \ (byHand \cup botched \cup untold) :
    Begun(id) \/ Pending(id) \/ id \in missed \cup told

(* What is due gets started, or stops being due, unless an update of it    *)
(* has failed.                                                             *)
Due(id) == running /\ \E i \in IndexOf(tasks, id) : IsDue(tasks[i])
DueRuns == \A id \in Tasks : Due(id) /\ id \notin botched ~> ~Due(id) \/ id \in botched

-----------------------------------------------------------------------------
(* What the code's comments claim, and the code does not do.               *)

(* scheduler.go:47: "OneShot tasks auto-disable after their single fire".  *)
(* An edit of the list during the fire starts the task again.              *)
OneShotOnce ==
  [][\A f \in Fires : Pick(f) =>
       \E i \in DOMAIN tasks :
         /\ IsFirst(f, i)
         /\ tasks[i].oneShot => <<tasks[i].id, tasks[i].nextRun>> \notin begun]_vars
=============================================================================
