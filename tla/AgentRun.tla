------------------------------ MODULE AgentRun ------------------------------
(***************************************************************************)
(* The run loop of the agent (internal/agent/agent.go, Run): a model call, *)
(* its tool calls, the next model call, until the model answers or a       *)
(* budget is spent; and what the frontend does to it through the           *)
(* controller meanwhile: Pause, ResumeTurn, Steer and Cancel.  A turn of   *)
(* the controller may run the agent several times (a plan and its          *)
(* execution, the goal loop).  A model call, a batch of tool calls and a   *)
(* compaction are one step each.                                           *)
(***************************************************************************)
EXTENDS Integers, Sequences

CONSTANTS
  Steers,        \* messages the user may queue in mid-turn, each one once
  MaxSteps,      \* maxSteps; 0 is no limit
  MaxReadiness,  \* maxFinalReadinessBlocks
  MaxEmpty,      \* maxEmptyFinalBlocks
  MaxRecoveries  \* maxStreamRecoveries

ASSUME BudgetAssumption ==
  /\ MaxSteps \in Nat /\ MaxRecoveries \in Nat
  /\ MaxReadiness \in Nat \ {0} /\ MaxEmpty \in Nat \ {0}

VARIABLES
  running, cancelled,      \* of the controller: a turn is running; its context
  at,                      \* where the turn's goroutine is
  step, readiness, empty, recoveries,      \* counters of Run
  channels,                \* pauseCh and resumeCh exist
  pauseClosed, resumeClosed, paused,
  pausing,                 \* Pause has seen a turn running, and goes on
  steerQueue, steerConsumed,
  fate,                    \* what became of every steer
  streams,                 \* history: model calls of this run
  asked, since             \* history: a pause is asked for; model calls since

pauseVars  == <<channels, pauseClosed, resumeClosed, paused>>
budgetVars == <<step, readiness, empty, recoveries, streams>>
steerVars  == <<steerQueue, steerConsumed, fate>>
askVars    == <<asked, since>>
vars == <<running, cancelled, at, budgetVars, pauseVars, pausing, steerVars, askVars>>

Init ==
  /\ running = FALSE /\ cancelled = FALSE /\ at = "idle"
  /\ step = 0 /\ readiness = 0 /\ empty = 0 /\ recoveries = 0 /\ streams = 0
  /\ channels = FALSE /\ pauseClosed = FALSE /\ resumeClosed = FALSE
  /\ paused = FALSE /\ pausing = FALSE
  /\ steerQueue = <<>> /\ steerConsumed = FALSE
  /\ fate = [s \in Steers |-> "unsent"]
  /\ asked = FALSE /\ since = 0

-----------------------------------------------------------------------------
(* The controller's turn.                                                  *)

BeginTurn ==
  /\ running' = TRUE
  /\ cancelled' = FALSE
  /\ at' = "between"

(* runGuarded, for a message that is no steer.                             *)
Submit ==
  /\ ~running
  /\ BeginTurn
  /\ UNCHANGED <<budgetVars, pauseVars, pausing, steerVars, askVars>>

Cancel ==
  /\ running
  /\ cancelled' = TRUE
  /\ UNCHANGED <<running, at, budgetVars, pauseVars, pausing, steerVars, askVars>>

(* The head of Run: fresh channels and counters.                           *)
StartRun ==
  /\ at = "between"
  /\ at' = "top"
  /\ steerConsumed' = FALSE
  /\ channels' = TRUE
  /\ pauseClosed' = FALSE /\ resumeClosed' = FALSE /\ paused' = FALSE
  /\ step' = 0 /\ readiness' = 0 /\ empty' = 0 /\ recoveries' = 0
  /\ streams' = 0 /\ asked' = FALSE /\ since' = 0
  /\ UNCHANGED <<running, cancelled, pausing, steerQueue, fate>>

(* A run that failed is the last one of its turn.                          *)
EndTurn ==
  /\ at \in {"between", "ending"}
  /\ running' = FALSE
  /\ at' = "idle"
  /\ UNCHANGED <<cancelled, budgetVars, pauseVars, pausing, steerVars, askVars>>

-----------------------------------------------------------------------------
(* Pause, ResumeTurn and Steer: the controller looks at running under its  *)
(* own mutex, and then calls the agent.                                    *)

AskPause ==
  /\ running /\ ~pausing
  /\ pausing' = TRUE
  /\ UNCHANGED <<running, cancelled, at, budgetVars, pauseVars, steerVars, askVars>>

Pause ==
  /\ pausing
  /\ pausing' = FALSE
  /\ IF channels /\ ~paused
     THEN /\ pauseClosed' = TRUE
          /\ IF asked THEN UNCHANGED askVars ELSE asked' = TRUE /\ since' = 0
     ELSE UNCHANGED <<pauseClosed, askVars>>
  /\ UNCHANGED <<running, cancelled, at, budgetVars, channels, resumeClosed, paused,
                 steerVars>>

Resume ==
  /\ channels
  /\ resumeClosed' = TRUE
  /\ asked' = FALSE /\ since' = 0
  /\ UNCHANGED <<running, cancelled, at, budgetVars, channels, pauseClosed, paused,
                 pausing, steerVars>>

(* Controller.Steer: to the agent, or as a message of its own.             *)
AskSteer(s) ==
  /\ fate[s] = "unsent"
  /\ fate' = [fate EXCEPT ![s] = IF running THEN "to agent" ELSE "as turn"]
  /\ UNCHANGED <<running, cancelled, at, budgetVars, pauseVars, pausing, steerQueue,
                 steerConsumed, askVars>>

Steer(s) ==
  /\ fate[s] = "to agent"
  /\ fate' = [fate EXCEPT ![s] = "queued"]
  /\ steerQueue' = Append(steerQueue, s)
  /\ steerConsumed' = FALSE
  /\ UNCHANGED <<running, cancelled, at, budgetVars, pauseVars, pausing, askVars>>

(* SubmitDisplay; a no-op when a turn has started in between.              *)
SteerAsTurn(s) ==
  /\ fate[s] = "as turn"
  /\ fate' = [fate EXCEPT ![s] = IF running THEN "dropped" ELSE "shown"]
  /\ IF running THEN UNCHANGED <<running, cancelled, at>> ELSE BeginTurn
  /\ UNCHANGED <<budgetVars, pauseVars, pausing, steerQueue, steerConsumed, askVars>>

-----------------------------------------------------------------------------
(* The loop of Run.                                                        *)

Goto(place) == at' = place /\ UNCHANGED <<running, cancelled>>

(* awaitPause: no pause is asked for.                                      *)
PassPause ==
  /\ at = "top"
  /\ ~pauseClosed
  /\ Goto(IF cancelled THEN "failing" ELSE "gate")
  /\ UNCHANGED <<budgetVars, pauseVars, pausing, steerVars, askVars>>

(* awaitPause: the loop is to block; a select with both ready takes either. *)
BeginPause ==
  /\ at = "top"
  /\ pauseClosed
  /\ \/ /\ paused' = TRUE /\ Goto("waiting")
     \/ /\ cancelled
        /\ paused' = paused /\ Goto("failing")
  /\ UNCHANGED <<budgetVars, channels, pauseClosed, resumeClosed, pausing, steerVars,
                 askVars>>

(* Mutated: the blocked loop does not look at its context.                 *)
WaitsForResume == FALSE
SeesCancel     == cancelled

Unpaused == paused' = FALSE

EndPause ==
  /\ at = "waiting"
  /\ \/ resumeClosed /\ Goto("gate")
     \/ SeesCancel /\ Goto("failing")
  /\ Unpaused
  /\ UNCHANGED <<budgetVars, channels, pauseClosed, resumeClosed, pausing, steerVars,
                 askVars>>

(* The histories count one more than the properties allow, and no further. *)
Calls == MaxSteps * (1 + MaxRecoveries)
CountCall ==
  /\ streams' = IF streams > Calls THEN streams ELSE streams + 1
  /\ since' = IF asked /\ since < 2 THEN since + 1 ELSE since

(* The stop gate, one queued steer, and the model is called.               *)
CallModel ==
  /\ at = "gate"
  /\ ~cancelled
  /\ Goto("stream")
  /\ CountCall
  /\ IF steerQueue = <<>>
     THEN UNCHANGED steerVars
     ELSE /\ steerQueue' = Tail(steerQueue)
          /\ steerConsumed' = (Len(steerQueue) = 1)
          /\ fate' = [fate EXCEPT ![Head(steerQueue)] = "shown"]
  /\ UNCHANGED <<step, readiness, empty, recoveries, pauseVars, pausing, asked>>

StopAtGate ==
  /\ at = "gate"
  /\ cancelled
  /\ Goto("failing")
  /\ UNCHANGED <<budgetVars, pauseVars, pausing, steerVars, askVars>>

LoopVars == <<pauseVars, pausing, steerVars, askVars, streams>>

(* Mutated: a stream that breaks off is always started again.              *)
AlwaysRecovers == recoveries' = recoveries
MayRecover     == recoveries < MaxRecoveries /\ recoveries' = recoveries + 1

(* Mutated: the stream is started again without passing the pause.         *)
AgainAtOnce == Goto("gate")
Again       == Goto("top")

(* The stream breaks off: again, without counting a step.                  *)
Recover ==
  /\ at = "stream"
  /\ MayRecover
  /\ Again
  /\ UNCHANGED <<step, readiness, empty, LoopVars>>

(* The stream fails, or breaks off once too often.                         *)
StreamFails ==
  /\ at = "stream"
  /\ Goto("failing")
  /\ UNCHANGED <<step, readiness, empty, recoveries, LoopVars>>

LastStep == MaxSteps > 0 /\ step' >= MaxSteps

(* step++ and the loop's condition.                                        *)
NextStep ==
  /\ step' = step + 1
  /\ Goto(IF LastStep THEN "failing" ELSE "top")

ModelCallsTools ==
  /\ at = "stream"
  /\ recoveries' = 0
  /\ empty' = 0
  /\ Goto("batch")
  /\ UNCHANGED <<step, readiness, LoopVars>>

(* executeBatch, the results and maybeCompact.                             *)
BatchDone ==
  /\ at = "batch"
  /\ NextStep
  /\ UNCHANGED <<readiness, empty, recoveries, LoopVars>>

(* An answer while receipts are missing: told so, and again; maybeCompact. *)
ReadinessBlocks ==
  /\ at = "stream"
  /\ recoveries' = 0
  /\ readiness' = readiness + 1
  /\ IF readiness' >= MaxReadiness
     THEN Goto("failing") /\ UNCHANGED step
     ELSE NextStep
  /\ UNCHANGED <<empty, LoopVars>>

(* Nothing visible was said: told so, and again; maybeCompact.             *)
EmptyBlocks ==
  /\ at = "stream"
  /\ recoveries' = 0
  /\ empty' = empty + 1
  /\ IF empty' >= MaxEmpty
     THEN Goto("failing") /\ UNCHANGED step
     ELSE NextStep
  /\ UNCHANGED <<readiness, LoopVars>>

(* Mutated: the queue is not looked at before the answer is let through.   *)
NoLook      == FALSE
SteersQueued == steerQueue # <<>>

(* A visible answer, all receipts there: another step if a steer came.     *)
ModelAnswers ==
  /\ at = "stream"
  /\ recoveries' = 0
  /\ IF SteersQueued THEN NextStep ELSE Goto("answered") /\ UNCHANGED step
  /\ UNCHANGED <<readiness, empty, LoopVars>>

(* Run returns, after maybeCompact if the model answered; deferred, the    *)
(* steer queue is cleared.                                                 *)
Return ==
  /\ at \in {"answered", "failing"}
  /\ Goto(IF at = "answered" THEN "between" ELSE "ending")
  /\ steerQueue' = <<>>
  /\ steerConsumed' = FALSE
  /\ fate' = [s \in Steers |-> IF fate[s] = "queued" THEN "dropped" ELSE fate[s]]
  /\ UNCHANGED <<budgetVars, pauseVars, pausing, askVars>>

-----------------------------------------------------------------------------
Loop ==
  \/ PassPause \/ BeginPause \/ EndPause
  \/ CallModel \/ StopAtGate
  \/ Recover \/ StreamFails
  \/ ModelCallsTools \/ BatchDone
  \/ ReadinessBlocks \/ EmptyBlocks \/ ModelAnswers
  \/ Return

Turn == StartRun \/ EndTurn

User ==
  \/ Submit \/ Cancel
  \/ AskPause \/ Pause \/ Resume
  \/ \E s \in Steers : AskSteer(s) \/ Steer(s) \/ SteerAsTurn(s)

Next == Loop \/ Turn \/ User

Spec == Init /\ [][Next]_vars

(* The loop's steps end by themselves: a stream by its idle watchdog, a    *)
(* tool by its own means or its context.  Nobody need resume a pause.      *)
FairSpec == Spec /\ WF_vars(Loop) /\ WF_vars(Turn)

-----------------------------------------------------------------------------
Fates == {"unsent", "to agent", "as turn", "queued", "shown", "dropped"}

TurnTypes ==
  /\ running \in BOOLEAN /\ cancelled \in BOOLEAN
  /\ at \in {"idle", "between", "top", "waiting", "gate", "stream", "batch",
             "answered", "failing", "ending"}
PauseTypes ==
  /\ channels \in BOOLEAN /\ pauseClosed \in BOOLEAN /\ resumeClosed \in BOOLEAN
  /\ paused \in BOOLEAN /\ pausing \in BOOLEAN
  /\ asked \in BOOLEAN /\ since \in 0..2
BudgetTypes ==
  /\ step \in Nat /\ (MaxSteps > 0 => step <= MaxSteps)
  /\ readiness \in 0..MaxReadiness /\ empty \in 0..MaxEmpty
  /\ recoveries \in 0..MaxRecoveries /\ streams \in Nat
SteerTypes ==
  /\ steerQueue \in Seq(Steers) /\ steerConsumed \in BOOLEAN
  /\ fate \in [Steers -> Fates]

(* Every variable keeps its type: no counter goes past its budget.         *)
TypeOK == TurnTypes /\ PauseTypes /\ BudgetTypes /\ SteerTypes

(* IsPaused tells the truth: the flag is up exactly while the loop blocks, *)
(* whatever ends the pause.                                                *)
PausedIsBlocked == paused <=> at = "waiting"

(* "Pause requests a graceful pause", agent.go:464: at most the model call *)
(* that was about to start is made before the loop blocks; so long as      *)
(* nobody has called Resume in this run.                                   *)
FirstPauseHolds == asked /\ ~resumeClosed => since <= 1

(* Every step calls the model once and MaxRecoveries times more, also      *)
(* when broken streams, refused answers and steers alternate.              *)
CallsBounded == MaxSteps > 0 => streams <= Calls

(* A cancelled turn comes to its end, a paused one too.                    *)
CancelEnds == running /\ cancelled ~> ~running

(* With a limit a run ends, or is paused, whatever the model does.         *)
RunEnds == at = "top" ~> at \in {"between", "ending", "waiting"}

(* Whatever the model does, a turn ends: by a cancel, or by the limit.     *)
TurnEnds == CancelEnds /\ RunEnds

(* A steer queued while the model or its tools are at work, before an      *)
(* answer is let through, is shown to the model, however many are queued   *)
(* before it: unless the run is paused or fails, by a cancel, the provider *)
(* or a limit.                                                             *)
SteersAreHeard ==
  \A s \in Steers :
    fate[s] = "queued" /\ at \in {"top", "gate", "stream", "batch"}
      ~> fate[s] = "shown" \/ at \in {"waiting", "failing"}

-----------------------------------------------------------------------------
(* What comments of the code claim, and the code does not do.              *)

(* agent.go:464-467: "The run loop finishes the current step, then blocks  *)
(* at the top of the next iteration until Resume is called."  A Resume of  *)
(* an earlier pause, or while nothing was paused, has closed resumeCh for  *)
(* the rest of the run, and the loop no longer blocks.                     *)
PauseHolds == asked => since <= 1

(* The queue is cleared when the run returns; a steer that arrives between *)
(* that and the end of the turn is shown to the model in the next turn.    *)
SteersEndWithTurn == ~running => steerQueue = <<>>
=============================================================================
