# MomaPeer: a verification development

MomaPeer is an agent for coding and office work: a Go core (`internal/`) that
runs a language model in a loop with tools, and several frontends (terminal,
desktop, web, editor, chat bots) that drive it. This directory holds TLA+
specifications of the parts of the core whose correctness depends on *order*:
which goroutine gets where first, what the user does meanwhile, what a retry or
a restart finds. Every definition is translated from the source; `PROJECT.json`
maps each one to its lines.

Run a check with `tlc -config X.cfg M` and a proof with `tlapm M_proofs.tla`;
which `.cfg` goes with which module is in the table of runs below. Two proof
modules serve two components each: `Session_proofs` (BackgroundJobs and
SessionFiles) and `Agent_proofs` (AgentRun and Transcript). From nothing,
`Agent_proofs` takes about ten minutes on four cores.

## 1. Inventory

### The system

A **controller** (`internal/control`) owns one conversation. A frontend submits
a message; the controller starts one goroutine for the turn, which composes the
prompt, runs the **agent loop** (`internal/agent`), and decides what follows: a
plan to approve, a goal to pursue, nothing. The loop calls the model, runs the
tools it asks for, each through the **gate** (`internal/permission`), and goes
on until the model answers. Meanwhile the frontend may approve, steer, pause,
cancel, change modes, compact; **background jobs** run on; **plugins** start;
the **scheduler** fires prompts of its own; a **chat gateway** may be the
frontend. Communication is by method calls under one mutex of the controller,
by channels with one reply, by context cancellation and by an event sink.

### Components

| Component (source) | State | Operations | What is hard | What makes it correct | Module |
|---|---|---|---|---|---|
| Background jobs (`jobs/jobs.go`, `tool/builtin/bgjobs.go`) | job table, output buffers, read offsets, note queue | start, write, kill, output, wait, drain, close | note, status and done channel are published by steps of two goroutines; killed jobs write on | a job is announced once, before its own end is visible; a terminal status stays; the result comes last | BackgroundJobs, JobContract |
| Tool approval and modes (`control/controller.go`, `permission`, `agent.go`) | mode, grants, open prompts, promptMu, the gate, plan mode, the window of an approved plan | approve, answer, set mode, set plan mode, cancel, a batch of calls | calls of one batch queue for the user; a mode switch answers prompts outside the lock; the gate is a copy | one prompt at a time, none stranded; only the user decides plans and questions | ToolApproval |
| Goal loop (`control/controller.go`, `agent/goal_judge.go`) | goal, status, counts of turns, blocks, idle turns | set, clear, strict, the audit after each turn, the judge | the lock is released while the judge is asked; counts span turns | a goal ends only as the answers earned; the limit holds; the loop can be stopped | GoalLoop |
| Agent loop (`agent/agent.go`) | step, retries, pause channels, steer queue | run, pause, resume, steer, cancel | channels closed once and made once a run; counters that reset each other | no budget is overrun; a pause holds; a steer is heard | AgentRun |
| Scheduler (`scheduler/`, `desktop/app.go`) | task list, file, one timer | create, update, delete, run now, start, stop, load, fire | the list changes while a fire runs without the lock; restarts | what is due runs, once; no reminder is lost silently | Scheduler |
| Transcript (`agent/session.go`, `agent.go`, `compact.go`, `prune.go`, `provider/normalize.go`) | message list, archive, counters of maintenance, session file | append, trim, prune, fold, summarise from and up to a turn, repair, save, load | a batch of tools is cut off in its middle; a fold re-summarises a summary; a summarizer or an archive fails; a file of an earlier version | a request pairs every call with one result; nothing said is lost; folding that does not help stops | WireHistory, Transcript |
| Sessions (`control/controller.go`, `agent/save.go`, `session.go`) | the conversation in memory, its path, the session files | turn, autosave, compact, new, clear, branch, switch, resume, reload, crash | a save reads path and messages in two steps, calls that leave the conversation test and swap under two locks, autosaves go on beside them | a file tells its own conversation; a finished turn survives a crash; a cleared conversation stays gone | SessionFiles |
| Checkpoints (`checkpoint/checkpoint.go`, `control/controller.go`) | per-turn file snapshots and message boundaries, in memory and on disk | begin, snapshot, rewind, fork, summarise, load | numbers are given again after a rewind; folds move messages below the boundaries; a file that cannot be restored | a rewind gives the files and the messages of that turn, after a restart too | Checkpoints |
| Chat gateway (`bot/gateway.go`, `session.go`) | session table, busy conversations, pre-warmed controller, adapters' channels | message, stop, approve, new, build, reap, Stop | builds without the lock, several loops, a reaper, a turn nobody ends | one controller a conversation, none leaked or closed under a loop; every message is dealt with | BotGateway |
| Plugins (`plugin/plugin.go`, `lazy.go`, `control/controller.go`, `desktop/shared_host.go`) | clients, prompts, lazy spawns with their cool-down, the registry's tools | spawn in the background, on a call, by hand, eagerly; disconnect; close | connections that take seconds against calls, commands and Close; a lock across a call | one handshake at a time; nothing outlives the host; the registry has live tools; calls return | PluginHost |
| Compose (`compose/`), calendar reminders, request budget and retries | attempts; ticks; windows | | bounded retries at three levels; missed ticks | it ends; limits hold | not modelled, section 7 |
| Sub-agents, evidence, rules, hooks, memory, skills, retrieval, language servers, installation, configuration, frontends, release tooling | | | text matching, I/O, wiring | | not modelled, see section 7 |

`PROJECT.json` lists the hazards of this code with the line where each bites
and the properties that would catch it.

## 2. Plan

Done, in this order: BackgroundJobs with JobContract; ToolApproval; GoalLoop;
AgentRun; Scheduler; SessionFiles; WireHistory and Transcript; Checkpoints;
BotGateway; PluginHost. Proofs: of every safety property of every passing run.

`Transcript` extends `WireHistory`, whose operators are the repair of a list;
`BackgroundJobs` is shown to implement `JobContract`. SessionFiles, Transcript
and Checkpoints look at the same conversation from three sides, each with the
messages as far as its properties tell them apart: what a message tells and in
which file (SessionFiles), its role, size and calls (Transcript), which turn
added it (Checkpoints). They are not composed: what one leaves out of another's
state is nondeterministic there (a fold comes at any moment in SessionFiles and
Checkpoints, a save and a crash at any moment in Transcript).

Left, most important first:

1. **Compose**: implement, verify, review, replan with attempts at three levels.
2. **Retry and budget** of the provider layer.
3. **Session**, a composition of the turn of AgentRun with BackgroundJobs
   (`Compose` of the controller drains notes, `Close` ends jobs).

A violation run gives way to a new component's run when its claim is the weaker
of the two; such claims stay in the modules, with the line they quote, and in
section 6.

Out of reach for the prover, and so for TLC only: every liveness property. The
library's induction theorems cannot be used with the installed provers, but an
induction over lists can be put as a proof about the shortest list, or the least
place, at which something fails (`WFMin` of WellFoundedInduction); the proofs
about folds and about the repair of a conversation are made that way.

## 3. Modules and the code

Common conventions. One action is one critical section of the controller's,
job manager's or scheduler's mutex, or one step between two such sections. A
goroutine is a place in the code (`pc`, `at`, `loop`). A frontend may call any
method at any moment. A model call, a batch of tools and a hook are one
nondeterministic step. Variables named *history* in a module are read by the
properties only. Operators marked with `\*` comments just before the definition
they vary are plausible faults of it, which the checks put in its place: each
property is checked to fail under at least one.

**BackgroundJobs** (`internal/jobs/jobs.go`, `bgjobs.go`). `Start` and `Launch`
are the two halves of `Manager.Start` (the job is in the table before the wait
group counts it). A job's goroutine runs `Write`* , `RunReturn`,
`RecordCompletion` (queues the note), `Publish` (status and result), `CloseDone`.
`KillMark` and `KillCancel` are the two halves of `Kill`. `BashOutput` moves the
read offset; `Wait` blocks on done channels. `CloseCancel`/`CloseReturn` are
`Close`. **JobContract** is the same table as its readers see it: a view of the
status and a note that is queued, then read.

**ToolApproval** (`controller.go`, `permission.go`, `agent.go`). Askers are the
tool calls of a batch (`Callers`) and the turn itself, which asks for plan
approval. `Call`, `Check` (`gateApprover.Approve`), `LockPrompt`, `Register`,
`TakeReply`/`Abort` follow `requestApproval` through promptMu and mu.
`Approve` and `AnswerQuestion` are the frontend's. A `Setter` is a frontend call
of `SetMode`/`SetPlanMode`/`SetToolApprovalMode`, step by step: controller,
executor, drain, gate built, gate installed, drained prompts answered.

**GoalLoop** (`controller.go` 741-964). `Submit` starts the goroutine of a turn;
`TurnAnswers`, `TurnBlocked`, `TurnFails` end its run of the agent;
`advanceGoalAfterTurn` is `ClaimsComplete`, `ClaimsBlocked`, `GoesOn` and, when
the judge or strict mode has a say, `JudgeRejects`, `JudgeAccepts`,
`ClearedMeanwhile`, `StrictRejects`, `Complete`. `muHeld` says that the turn's
goroutine has returned with `c.mu` locked.

**AgentRun** (`agent.go` `Run`, `awaitPause`, `Steer`). One turn runs the agent
any number of times. `PassPause`/`BeginPause`/`EndPause` are `awaitPause` over
the two channels; `CallModel`, `StreamFails`, `Recover`, `ModelCallsTools`,
`BatchDone`, `ReadinessBlocks`, `EmptyBlocks`, `ModelAnswers`, `Return` are the
ways through an iteration, with `step`, `readiness`, `empty` and `recoveries`
the loop's own counters.

**Scheduler** (`scheduler.go`, `expr.go`, `desktop/app.go` `initScheduler`). The
clock is a variable that `Tick` advances. A fire is a goroutine of
`time.AfterFunc`: `Expire`, `Check`, `Collect`, then `Pick` and `Settle` for
each due task, then `Reschedule`. The lock is free between these, and `Create`,
`Delete`, `Update`, `UpdateRefused`, `RunNow`, `Start`, `Stop` come in between.
`Arm` is `armNextTimerLocked`. `Quit` and `Panic` lose what is in memory;
`Launch` is `Load` and `Start`. Expressions are an instant, a period or a bad
expression that an Update refused and left in the list. A save always succeeds.

**SessionFiles** (`controller.go`, `session.go`, `save.go`). A message is the
set of things it tells. A turn is `TurnBegin`, `TurnOpen`, `TurnCount`,
`TurnAdd`/`TurnFold` and `TurnEnd`, `SaveLater` after it. A `Saver` (the turn's
end, the autosave, the call) goes through `ReadPath`, `CopyMessages`,
`ReplaceFile`: the path and the messages are read under different locks, and
the file is renamed into place under none. A call that leaves the conversation
is `FrontCall`, then its save, `FrontSwap`, `FrontCopy`, `FrontLoad`,
`FrontAdopt`, `FrontBind`, `FrontRemove`, as far as it does them. `Compact`
replaces the list it read. `Crash` keeps the files. `overlaps` (history) says
what ran beside a call that left the conversation.

**WireHistory** (`provider/normalize.go`, `provider.go` `pairToolResults`) is
the repair of a list: `Wire` for a request, `Stored` for a load. Both ways
through the code, the fast path for a well-formed list and the rebuild, are
there, with backfilled names, arguments that were cut off, ids that are missing
or repeated, and placeholders. `Whole` is what a provider asks for and is
independent of how the repair works.

**Transcript** (`agent.go`, `compact.go`, `prune.go`, `save.go`). `Ask`,
`Nudge`, `Answer`, `AskTools`, `AddResult`, `LeaveTurn` are the steps of a turn.
`MaybeCompact` is the whole maintenance between two model calls: soft trim,
prune, the plan of a fold (`Plan`, `PinnedPrefixLen`, `TailStart`), the archive,
the summary, the new list, and the counters that stop it. `CompactNow`,
`SummarizeFrom` and `SummarizeUpTo` are the user's. `Save` copies the list,
`Restart` loads the copy. Tokens are small weights; the prompt the provider
counts is any number. `archive`, `past`, `row`, `clean` are history.

**Checkpoints** (`checkpoint.go`, `controller.go` from `Rewind` to `Fork`).
`TurnBegin` opens a checkpoint at the number the controller counts
(`TurnBlocked` when a hook then refuses the prompt), `Edit` snapshots a file
before it is written, `TurnEnd` saves if the list has grown, which a turn that
added nothing has not (`MuteTurn`); `Save` is the autosave; `Rewind` restores files
(`Tried`: any of them may fail, and the others are restored), the messages
(`Truncated`), or both; `Fold` and `Summarize` move messages; `Restart` loads what is on disk,
where a number may have been written twice. `startFs` and `startLog` (history)
say what each turn began with, `ahead` which turns began with messages that are
not in the session file yet.

**BotGateway** (`bot/gateway.go`, `session.go`). A loop for each platform:
`StopCommand`, `ApproveCommand`, `TakeText`, `LookupFound`/`LookupNone`,
`BuildDone`/`BuildFail`, `Prepare`, `RunTurn`, `TimeOut`, `TurnReturn`,
`EndTurn`. The session table is shared under `gw.mu`; `Reap` and `Stop` come
between any two steps; `Claim` takes the pre-warmed controller. `served`
(history) says which conversations used a controller.

**PluginHost** (`plugin.go`, `lazy.go`, `controller.go`, `shared_host.go`). An
adder is a goroutine in `Host.Add`: `AddRefused` or `AddStart`, then `AddLink`
or `AddFail`; it is the spawn of a controller, the user's command, or the eager
start, which ends in `EagerEnd` (its context is cancelled, and a child process
dies) and `StartPhaseB`. `PickPlaceholder`, `ExecuteReady`, `ExecuteTooEarly`,
`ExecuteAgain`, `ExecuteSync`, `ExecuteDeferred` are `lazyTool.Execute`;
`SpawnDone` swaps the tools of the registry. `Close` waits for the deferred
spawns, then closes. `ListPrompts` and `ListFails` are the listings of prompts
that run beside all of it, one for `Host.Add` and one for each `StartPhaseB`. A
client is a child process or a server elsewhere (`remote`), which no Close and no
context ends. `crossed` (history) says whose registry had a client, or was about
to get it, when another's Disconnect took it out of the list. **MCPluginHost**
names the settings of the two runs and the symmetry of one.

## 4. Runs

| Run | Module, cfg | Distinct states | Shows |
|---|---|---|---|
| jobs_all | BackgroundJobs, Jobs_all | 373 k | every ended job is announced once and before its own end is visible, statuses are final, the result comes after all output, the table implements JobContract; a killed job's goroutine ends; Close returns |
| approval | ToolApproval, Approval | 376 k | one prompt, none stranded, none needless, the user decides, the gate follows the mode; a cancelled turn ends; yolo lets a waiting call go on |
| goal_safety | GoalLoop, Goal_safety | 287 k | goals end only as earned; the limit; clearing and cancelling end the loop |
| goal_judge | GoalLoop, Goal_judge | violation | a verdict that is not OK locks the controller for ever |
| agent_safety | AgentRun, Agent_safety | 294 k | pauses and budgets; cancelled turns and limited runs end; steers are heard |
| scheduler_fires | Scheduler, Scheduler_fires | 637 k | the timer is armed, fires do not overlap undisturbed, run what is due, never repeat a recorded instant, lose no one-shot; what is due runs |
| sessions | SessionFiles, Sessions | 1275 k | a file tells its own conversation, no fold forgets, finished turns survive a crash, a conversation is left saved, a cleared one stays gone |
| transcript | Transcript, Transcript | 402 k | requests pair calls with results, a repair is stable and a load keeps all, no fold loses, reorders or parts what was said, folding stops |
| checkpoints | Checkpoints, Checkpoints | 1517 k, symmetric | a rewind or a fork restores what its turn began with, from memory as from disk |
| bot | BotGateway, Bot | 328 k | controllers are not shared, leaked or closed in use; busy means worked on; every message is dealt with |
| plugins | MCPluginHost, Plugins | 532 k | one handshake at a time; calls return unless a server elsewhere never answers; no process outlives the host |
| plugins_shared | MCPluginHost, Plugins_shared | 3003 k, symmetric | with two controllers: Close and Disconnect leave no process of the list and no prompt; a registry has the tools of a listed client that lives, or one of three exceptions |

Every action of every module is taken in a passing run. A run's properties are
grouped: a name in a `.cfg` is often the conjunction of parts that are defined
just above it (`WaitsEnd` is `CancelEnds` and `YoloReleases`), so that one search
answers one question; the sections below speak of the parts. The type invariants
of SessionFiles and Transcript are checked and proved; those of the other
modules are left to the proofs.

### Bounds

* Jobs: two jobs, so that one can end, be killed and be drained while another
  is started and Close waits for both; one chunk of output separates "read
  before" from "read after" a write; the jobs never interact otherwise.
* Approval: two askers, a tool call and the turn, contend for promptMu: one
  prompts, one waits; the setter drains, answers and rebuilds between their
  steps. One setter, since two frontends changing modes at once is the case
  section 6 tells of; two prompt ids let an id be used again while an old one is
  still being answered. A third asker adds nobody who could hold the lock or be
  asked otherwise; the theorems are for any number of calls, setters and ids.
* Goal: three equal blocks and two idle turns are the code's own numbers for
  blocks and a small one for idle turns; the limit is 4 for the code's 50, more
  than the three answers a blocked goal needs; `MaxTurns` 5 lets the loop go
  past the limit once, which a refused claim does.
* Agent: two steps, two refusals of each kind and one recovery (the code's own
  number) make every counter reach its end and be reset by another; two steers
  give an order.
* Scheduler: two tasks and two goroutines are what it takes for indices to
  shift and for fires to overlap; three instants let a recurring task run
  twice; one update, stop, run by hand or restart beside any number of creates
  and deletes. Ids are never reused, as in the code. The clock stops at the
  bound, so deadlock is not checked there, nor in the goal loop, whose turns
  are bounded.
* Sessions: three files (the one left, the one entered, one more), two turns
  of which one may be saved while the next runs, two calls of all six kinds so
  that one can undo another, one compaction and one crash. The run keeps to
  the states without a turn, an autosave or a compaction beside a call that
  leaves the conversation (`CONSTRAINT Alone`): beyond them the properties
  claim nothing, and section 6 tells what happens there.
* Transcript: five messages after an empty file, or any file of at most three
  messages that an earlier version may have left (duplicate and missing ids,
  orphaned results, arguments cut off), which must be repaired but is not
  added to. One nudge of the loop or one long message that the user pastes.
  Two sizes of results, one that fits the tail and one that does not;
  a tail of three and a fold worth two are the smallest weights at which the
  head, the fold and the tail can each be empty or not.
* Checkpoints: two files (symmetric), of which any may fail to be restored or be
  untouched; three turns that edit three times in all and two rewinds, so that a
  number is given again; one turn that adds nothing; one fold and one restart
  between any of them, and saves at any moment. A boundary that a restart brings
  back and that lies below an earlier turn's takes more turns: the proof covers
  it.
* Bot: two platforms, for two loops that want the pre-warmed controller at a
  time; two controllers and three messages of a conversation let one be reaped
  and built again; a buffer of one leaves a message waiting behind a turn.
* Plugins: two connections, so that a second follows the first or comes beside
  it, and two commands of the user. In the first run one controller with two
  calls at a time, so that a call waits for another, with every tier, with and
  without a cached schema. In the second two controllers (symmetric) without
  calls, which start the server in the background or eagerly: what matters there
  is whose client is in the list.
* In these five the bounds end a behaviour, so deadlock is not checked.

### Fairness

Only goroutines of the program are fair, never the frontend, the user or the
model's choice among outcomes.

* A job's goroutine steps, and its run function returns once its context is
  cancelled (the process is killed).
* A turn's goroutine steps: model streams end by the idle watchdog, tools by
  their context, the judge by its time-out of 60 s. A call blocked on a prompt
  is not fair: only the user, a mode switch or a cancel frees it.
* The scheduler's timer expires, and a run ends by its time-out of 10 minutes.
  The clock is not fair: liveness speaks of what is due already.
* A loop of the gateway goes on with what it has taken: a build ends or fails, a
  cancelled turn returns. A turn may hang by itself, and the user may never
  answer; then the ten-minute timer of `runTurn` goes off (`GoesOn`).
* A connection to a child process, a call of its tools, the start of an eager
  server and every listing of prompts have a time-out (`transport_stdio.go:89`,
  `plugin.go:243`, `plugin.go:554`); Close waits for contexts that it cancels.
  A call to a server elsewhere has none (`transport_http.go:69`): a handshake
  with it is fair only under the eager start's time-out, or once Close has
  cancelled the spawns (`Answered`), and a call that is at it is not fair at all
  (`AtServer`). `CallsReturn` therefore promises nothing of a call that is held
  up there, or by the lock that such a call holds. Neither controllers, user nor
  model need begin any.

## 5. Proofs

For any values of the constants, with the module's named ASSUME (bounds are
naturals, model values differ) as the only assumption. Every safety property of
every passing run is a theorem. A proof module states an inductive invariant
(`IInv`, or several that stand on each other), proves that Init gives it and
that each action keeps it, and derives the theorems by PTL.

* **Session_proofs, jobs**: type correctness, `AnnouncedOnce` (`SettledIsNoted`
  and `NotedOnce`), `ResultIsLast`, `StatusIsFinal`, and that the table
  implements JobContract by the mapping `view <- status`, `note <- NoteView`.
  `IInv` relates the place of the goroutine to the note, the status and the
  output: what may still happen to a job follows from where its goroutine is.
* **Session_proofs, files**: type correctness, `FileIsItsOwn`, `TurnsAreKept`,
  `LeftAsAsked`. `FilesInv` has three layers. `Standing` and `Apart` say where
  turn, saves, call and compaction can be at once, whatever happens. `Own`,
  `Gone` and `Left` hold while nothing runs beside a call that leaves the
  conversation (`Alone`): what a file, a list, a save under way, a summary and a
  call tell is of the conversation they are for. `Remembered` and `Saved` hold
  while nothing at all has run together: they are about a turn whose end is
  being saved, and would be false of one that an autosave overtakes. Each layer
  needs the one below and none above, and that is where the exceptions of the
  properties come from.
* **ToolApproval_proofs**: type correctness, `OnePrompt`, `Answerable`,
  `YoloAsksForNoTool`, `GrantedIsNotAsked`, `UserDecides`, `GateFollowsMode`. The
  first five are one induction: that a prompt in the open belongs to the holder
  of promptMu is what makes a drained prompt's reply reach the right call.
  `GateInv` (a gate that has been built is the mode's) is inductive while at most
  one call is changing the mode (`OneChange`), however many setters there are.
  That is a hypothesis of the theorem, and section 6 has what two that rebuild
  the gate at once do.
* **GoalLoop_proofs**: type correctness, `BlockedIsEarned`, `LimitHolds`,
  `CompletedInForce`. `AuditInv` ties the count of a reason to the last answers
  given, over turns, resets and rejections; it is what makes the first
  inductive.
* **Agent_proofs, the loop**: type correctness, `PausedIsBlocked`,
  `FirstPauseHolds`, `CallsBounded`. `CallsInv` counts model
  calls by steps and recoveries, place by place, so that the product bound
  follows at the end.
* **Agent_proofs, the conversation**: all properties of Transcript, for lists of
  any length, any weights and any file that a conversation begins with.
  - *Folds.* `FoldsKeepAll`, `FoldingStops`. `NothingLost` is not inductive: a
    later fold whose summarizer cannot be had drops what only a summary tells.
    `OwedInv` is: what was said is in the archive or `Firm`, that is, said by a
    message or told by a recap in the user's words, both of which a fold archives
    or keeps; and so in the file. `PartsJoin`, `OnlyTwice`, `FoldIs` say that the
    parts of a plan are the list again, and what a fold keeps of them. `LatchInv`
    has the latch closed after the second fold.
  - *Repair.* `RepairIsSound`, for every list whatsoever. A list is a run of
    results nobody asked for and then segments, each a message that is no result
    with the results that follow it (`SegmentInduction`); the repair of a list is
    the repair of its segments (`SlowCut`, for any cut before a message that is
    no result). Of one segment it is shown that a second repair changes nothing
    (`SegmentTwice`), whether the ids of its calls differ or not: the pairing
    finds in its place what it has put there, and the names it could know it
    already knew. The fast path is taken only where the rebuild changes nothing
    (`FastIsSlow`), so that the two ways through the code are one function, and
    everything below is about the rebuild.
  - *Requests.* `WireContract`. That calls and results are paired is a fact about
    the repair (`SentIs`). That no result is sent twice is not: the pairing by id
    gives the same result to nobody else only because the numbers in a list
    differ. `FreshInv` says so of the list and the file; every fold, trim, recap,
    save and repair keeps it, because none brings a number in (`Thins`).
  - *Nothing withheld.* `SentInFull`. `SentInv`: unless the user has severed one,
    every call of the list has its results, or the list ends with a batch whose
    results so far answer its first calls in order; and *the file would be loaded
    whole*. The last part is why a save in the middle of a batch does no harm: the
    load fills what is missing (`BatchKept`), and what is whole is kept and sent
    name by name as it is (`WholeSlow`). A fold keeps it because its head and what
    it keeps neither ask nor answer (`HeadIsPlain`) and its tail does not begin
    with a result (`TailOpens`).
* **Scheduler_proofs**: type correctness, `Armed`, `Sequential`,
  `RunsWhatIsDue`, `NotAgain`, `NeverLost`. `SetByOthers` (a timer set while a
  fire is in flight was set by a disturbance) makes `Sequential` inductive; that
  in turn is why nobody else records while an undisturbed fire runs (`DueInv`).
  `AgainInv` needs that recorded instants are past and the file no older than
  the last record. `KeptInv` is about the list and the file together: the file
  is the list but for the tasks whose update failed, it keeps what is owed, and
  an entry that no longer waits has a reason.
* **BotGateway_proofs**: type correctness, `OneConversation`, `TablesAreTrue`
  (`NoneForgotten` and `BusyIsWorkedOn`), `ReaperSparesUsed`. `IInv` relates what
  each loop has in hand, what each controller served and the session table: two
  loops never have the same conversation in hand, because a conversation belongs
  to one platform, nor the same controller, because a controller in the table
  serves the conversation it is registered for, and one that is not is in the
  hands of one loop or is the pre-warmed one.
* **PluginHost_proofs**: type correctness, `OneHandshake`, `CloseIsFinal`,
  `NoGhostPrompts`, `RegistryIsTrue`, with any number of controllers. `MadeInv` says that whoever refers to a
  connection refers to one that was made, and `PartyInv` who is at `Host.Add`: so
  a connection made on a closed host is not one of the list that Close went
  through, and a spawn that Close waits for cannot begin any more. For the registries:
  a client is entered in the list once, by the adder whose it is, and leaves it for
  good (`Apart`); what `Host.Add` returned, and what a registry has, is in the
  list, or somebody is known to have taken it out (`Returned`, `Accounted`); and
  who kills a client has no hold of a listed one, except the start of an eager
  server (`EagerWay`, `Alive`).
* **Checkpoints_proofs**: type correctness, `LogIsRestored`, `ForkIsExact`,
  `BoundsSurvive`, `CodeIsRestored`, `DiskRestoresTheSame`. The messages begin with
  what each turn that is not stale began with, *and so does the file a restart
  would read*, unless the turn began ahead of it (`TalkInv`); a checkpoint on disk
  without a boundary in memory is stale or is the next turn (`GapInv`), which is
  what a rewind below it needs. The
  induction showed that a rewind beyond a turn is not the only one that moves its
  boundary: see section 6. For the files, `FilesInv` has that a snapshot is what
  its turn began with (`SnapInv`), that a file the running turn has not touched
  is as it was (`HereInv`), and that a file which no checkpoint from a turn on
  has touched has stayed the same since, by the checkpoints in memory (`MemInv`)
  and by those on disk (`DiskInv`).

Only model-checked: the liveness properties (`EndsAreReached`, `WaitsEnd`,
`LoopEnds`, `TurnEnds`, `SteersAreHeard`, `DueRuns`, `EveryMessageIsHandled`, `AllEnds`), for the
prover has no rules for fairness and ENABLED here. The violations of section 6
are TLC's, too.

## 6. Where the code and its comments part

With a violation run: the judge's verdict that leaves the controller locked
(`RejectedGoesOn`, GoalLoop).

Stated in a module next to the quoted line, found violated by TLC, with no run
of their own (to see one, name it in a copy of the module's `.cfg`):

* BackgroundJobs: `TerminalIsNoted` (a killed job shows as ended before its note
  is queued), `FinishedKeepsStatus` (a Kill after the run function has
  returned replaces done by killed), `CloseWaitsForAll` (a Start that Close
  overtakes is not waited for), `ConsumedIsShown` (a bad filter spends output).
* ToolApproval: `PlanHardDenies` (plan mode does not reach the gate),
  `PlanIsReadOnly` and `PlanOffClears`; `GateFollowsMode` with two
  setters.
* GoalLoop: `IdleIsNarration` (the idle count comes before the reset).
* AgentRun: `PauseHolds` (one Resume spoils every later pause of a run),
  `SteersEndWithTurn` (a late steer is shown in the next turn).
  `SteersAreHeard` promises nothing of a steer that is queued after the look at
  the queue with which an answer is let through (`agent.go:796`): it waits for
  the next turn.
* Scheduler: `OneShotOnce` (a one-shot runs twice when the list is edited during
  its run). The rest is told by the exceptions its properties make. `Armed` and
  `NeverLost` except tasks in `botched`: a refused Update leaves its changes in
  the list, unsaved and unarmed. `NeverLost` excepts tasks in `byHand`: a RunNow
  counts as a run, and the missed one-shot is not caught up, though its comment
  says the schedule is not advanced. It excepts `untold`: a missed reminder is
  lost when the application ends in the two seconds before it is told. `Panic`:
  a Delete during a fire can leave an index beyond the list, and `fireDue` does
  not test it. And an Update that reschedules a one-shot while it runs is
  undone when the run is recorded (`Settle` disables what is now there).

* SessionFiles: `EveryTurnIsSaved`. A turn that compacted may leave the list no
  longer than it was, and is then not saved; an autosave under way when a turn
  ends puts its older copy back. Beside these, `overlaps` names what the
  properties except: a turn or an autosave that goes on beside a call that
  leaves the conversation writes to what has become another; a `/compact` that
  ends after `/new` folds the old text into the new conversation; Resume of the
  web and the desktop frontends never looks at `running`; a desktop reload of
  the current session reads the file before it saves; a compaction beside a
  turn loses the messages the turn added meanwhile.
* Transcript: `NoSummaryToNothing` (once a short message of the user lies
  between the first turn and a summary, summaries stack, and when the
  summarizer then fails the old summary is dropped), `OneSummary`,
  `OriginalsArchived` (the pass before has trimmed what the prune archives),
  `NeverSevered` (a boundary recorded before a fold cuts a turn in two). Not
  stated: a plan that asks for two messages falls back to one, so the minimum
  of two never holds; names of archive files carry a millisecond, so two
  archives of one millisecond are one file (the model gives each its own).
* Checkpoints: `RestoreIsExact`, through the exceptions of `CodeIsRestored`:
  numbers below a rewind are given again while `controller.go`'s comment at the
  counter has them stand for one turn each; abandoned checkpoints stay on disk
  and answer after a restart. A boundary that a fold made stale truncates at a
  wrong place; boundaries dropped by a summary come back with a restart, and so
  do those of turns a rewind abandoned: after a fold such a boundary may lie
  below that of an earlier turn, and a rewind to it cuts that turn's messages and
  leaves its boundary; a rewind to the first turn is not saved. A turn that folds
  and ends no longer than it began is not saved: when the application ends in the
  next turn, the boundary of that turn, which is on disk, meets the older file
  and cuts it at a wrong place (`ahead`, an exception of `TalkIsRestored`).
* BotGateway: `StopCancels` (the loop that would read `/stop` runs the turn; so
  with an approval), `StopCloses` (a build that ends after Stop opens a
  controller nobody closes). Also: what merges a message into a pending one is
  never reached; the pre-warmed controller is built with one platform's options
  and taken by any; the text about a time-out is not sent, as a time-out is not
  an error to the caller; the reaper and Stop close controllers with the
  table's lock held.
* PluginHost: `SharedByAllTabs` (a second tab's spawn is refused as "already
  connected", so that tab's tools stay placeholders; the same after a rebuild),
  `NameIsTaken` (the name is looked up before and entered after the handshake,
  with the lock free between), `PromptsOfConnected`, `StaysDisconnected`,
  `EagerLives` (the context that the comment asks to be session-wide is
  cancelled when start-up returns). Also: the first call that connects holds
  the lock of the spawn across the call of the real tool, so the next waits for
  it; a Disconnect in one tab leaves the other tabs' tools on a dead client
  (`crossed`, an exception of `RegistryIsTrue`), and so does one that crosses a
  `Host.Add`; after an eager start the prompts of every client of the shared host
  are listed again, and appended to those listed before (`boot.go:915`,
  `plugin.go:488`). `CallTimeout` "prevents a slow or hung MCP server from
  blocking the agent indefinitely" (`plugin.go:71-74`): the http transport never
  reads it, and a spawn or a call passes the session's context, so that a call,
  and all that queue on the lock it holds, can wait until the session ends.

Seen in modelled code and in no property: `bgjobs.go:65` spends output a bad
filter then rejects; `controller.go:797` looks only whether some goal is
pursued; `controller.go:1525` steers a run that may have ended;
`controller.go:1646` sets plan mode in two places; `scheduler.go:797` leaves a
refused update in the list; `prune.go:88` trims without an archive;
`compact.go:215` replaces a list it copied earlier. Each is an action of its
module, and what follows from it is in the exceptions above.

## 7. Not modelled, and why

* Compose is one sequential loop; the calendar ticks once a minute over stored
  events; the retry loop and the request budget of the provider layer count.
  They come next (section 2), the calendar without its recurrence arithmetic.
* Pure I/O and wire formats: providers, transports, built-in tools over files
  and services, language servers, network, sandbox, installation, hooks'
  commands, retrieval and document conversion. What the modelled parts see of
  them is a nondeterministic outcome.
* Text: prompts, permission rule syntax, shell command classification, evidence
  matching, skills, memory files, internationalisation. The verdicts these give
  are inputs of the modelled parts.
* Frontends: their calls are the user's actions in every module; rendering and
  transport carry no promise that a model would test.
* Inside modelled parts: headless denial and rules remembered on disk
  (ToolApproval); the judge's prompt (GoalLoop); the evidence ledger, the storm
  breaker and compaction (AgentRun); delivery and the run history (Scheduler);
  the list of branches, titles and renames, failing saves (SessionFiles); the
  system prompt, the cache of the provider, the sub-agent that summarises
  (Transcript); files changed outside the tools, binary and oversized files
  (Checkpoints); the allowlist, reactions, push messages and the texts of
  commands (BotGateway); the wire protocol, the schema cache, servers that die
  on their own and the list of failures (PluginHost).

Most of the repository is of these kinds: wire formats, tools, rendering,
configuration, texts. The lines the modules stand for are the small part in
which several goroutines, a failure or a restart decide what happens, and a
model of the rest would say no more than the code does.
