------------------------------ MODULE GoalLoop ------------------------------
(***************************************************************************)
(* The goal loop of the controller (internal/control/controller.go): a     *)
(* turn ends, the marker of its answer is read, and the loop goes on with  *)
(* another turn until the goal is complete, blocked, idle, cleared or over *)
(* its turn limit.  The loop runs in the turn's goroutine; the frontend    *)
(* sets, clears and cancels at any time.  Every critical section of        *)
(* Controller.mu is one action.                                            *)
(***************************************************************************)
EXTENDS Integers, Sequences, SequencesExt

CONSTANTS
  Goals,     \* goal texts
  NoGoal,
  Reasons,   \* reasons for being blocked, up to case and punctuation
  Judge,     \* is an independent judge configured?
  MaxAuto,   \* maxGoalAutoTurns
  MaxIdle,   \* maxGoalIdleTurns
  MaxTurns   \* bound: the model insists on "complete" up to this turn only

ASSUME GoalsAssumption == NoGoal \notin Goals
ASSUME MarksAssumption ==
  Reasons \cap {"unblocked", "none", "continue", "complete", "idle", "limit"} = {}
ASSUME JudgeAssumption == Judge \in BOOLEAN
ASSUME LimitAssumption == /\ MaxAuto \in Nat \ {0} /\ MaxIdle \in Nat \ {0}
                          /\ MaxTurns \in Nat /\ MaxTurns >= MaxAuto

(* How an answer ends: parseGoalStatusMarker.                              *)
Marks == {"none", "continue", "complete"} \cup Reasons

(* goalBlock beside the model's reasons; "unblocked" is the empty string.  *)
Stops == {"idle", "limit"}

VARIABLES
  running,     \* Controller.running
  cancelled,   \* the turn's context is cancelled
  loop,        \* where the turn's goroutine is
  muHeld,      \* mu is held between two steps of the loop
  goal, goalStatus, goalTurns, goalBlocks, goalBlock, goalIdleTurns, goalStrict,
  reply,       \* end of the transcript: its marker, and whether its last
               \* message has tool calls
  worked,      \* sessionMadeToolCalls
  said         \* history: what the last turns for this goal said

goalVars == <<goal, goalStatus, goalTurns, goalBlocks, goalBlock, goalIdleTurns, said>>
turnVars == <<running, cancelled, loop, muHeld>>
logVars  == <<reply, worked>>
vars     == <<goalVars, goalStrict, turnVars, logVars>>

Init ==
  /\ running = FALSE /\ cancelled = FALSE /\ loop = "idle" /\ muHeld = FALSE
  /\ goal = NoGoal /\ goalStatus = "stopped"
  /\ goalTurns = 0 /\ goalBlocks = 0 /\ goalBlock = "unblocked" /\ goalIdleTurns = 0
  /\ goalStrict = FALSE
  /\ reply = [mark |-> "none", calls |-> FALSE]
  /\ worked = FALSE
  /\ said = <<>>

-----------------------------------------------------------------------------
(* The frontend.                                                           *)

(* Mutated: the audit of the goal before goes on.                          *)
KeepAudit == goalBlocks' = goalBlocks /\ goalBlock' = goalBlock
NewAudit  == goalBlocks' = 0 /\ goalBlock' = "unblocked"

NewIdle == goalIdleTurns' = 0

(* SetGoal; ClearGoal is SetGoal(NoGoal).  No news for the same goal.      *)
SetGoal(g) ==
  /\ ~muHeld
  /\ ~(g \in Goals /\ goal = g /\ goalStatus = "running")
  /\ goal' = g
  /\ goalStatus' = IF g = NoGoal THEN "stopped" ELSE "running"
  /\ goalTurns' = 0
  /\ NewIdle
  /\ NewAudit
  /\ said' = <<>>
  /\ UNCHANGED <<goalStrict, turnVars, logVars>>

SetGoalStrict(strict) ==
  /\ ~muHeld
  /\ goalStrict' = strict
  /\ UNCHANGED <<goalVars, turnVars, logVars>>

(* runGuarded: Send and the goal command; a no-op while a turn is running. *)
Submit ==
  /\ ~muHeld
  /\ ~running
  /\ running' = TRUE
  /\ cancelled' = FALSE
  /\ loop' = "turn"
  /\ UNCHANGED <<goalVars, goalStrict, muHeld, logVars>>

Cancel ==
  /\ ~muHeld
  /\ running
  /\ cancelled' = TRUE
  /\ UNCHANGED <<goalVars, goalStrict, running, loop, muHeld, logVars>>

-----------------------------------------------------------------------------
(* One turn.                                                               *)

At(place) == loop = place /\ ~muHeld
Goto(place) == loop' = place /\ UNCHANGED <<running, cancelled, muHeld>>

(* Agent.Run comes back without error on an answer that calls no tool.     *)
TurnAnswers(mark, acted) ==
  /\ At("turn")
  /\ mark = "complete" => goalTurns < MaxTurns
  /\ reply' = [mark |-> mark, calls |-> FALSE]
  /\ worked' = (worked \/ acted)
  /\ Goto("advance")
  /\ UNCHANGED <<goalVars, goalStrict>>

(* A PromptSubmit hook refuses the turn: no error, and no new answer.      *)
TurnBlocked ==
  /\ At("turn")
  /\ reply.mark = "complete" => goalTurns < MaxTurns
  /\ Goto("advance")
  /\ UNCHANGED <<goalVars, goalStrict, logVars>>

(* stopGoal.                                                               *)
StopGoal(status) ==
  /\ goalStatus' = IF goal # NoGoal /\ goalStatus = "running"
                   THEN status ELSE goalStatus
  /\ UNCHANGED <<goal, goalTurns, goalBlocks, goalBlock, goalIdleTurns, said>>

(* The turn ends in an error, in the middle of its work or before it; a    *)
(* cancelled one stops the goal.                                           *)
TurnFails(mark, calls) ==
  /\ At("turn")
  /\ reply' \in {reply, [mark |-> mark, calls |-> calls]}
  /\ worked' = (worked \/ (reply' # reply /\ calls))
  /\ IF cancelled THEN StopGoal("stopped") ELSE UNCHANGED goalVars
  /\ Goto("ending")
  /\ UNCHANGED goalStrict

EndTurn ==
  /\ At("ending")
  /\ running' = FALSE
  /\ loop' = "idle"
  /\ UNCHANGED <<goalVars, goalStrict, cancelled, muHeld, logVars>>

-----------------------------------------------------------------------------
(* advanceGoalAfterTurn.                                                   *)

Pursuing == goal # NoGoal /\ goalStatus = "running"

(* Mutated: the goal is not looked at again after the judge's verdict.     *)
StillJudged   == TRUE
StillPursuing == Pursuing

(* The last turns' words, as many as the audits look back.                 *)
Lookback == IF MaxIdle > 3 THEN MaxIdle ELSE 3
Remember == said' = LET all == Append(said, reply.mark)
                    IN  SubSeq(all, IF Len(all) > Lookback THEN 2 ELSE 1, Len(all))

(* Mutated: without a goal the loop goes on.                               *)
NoGoalGoesOn == "continue"
NoGoalEnds   == "ending"

NotPursuing ==
  /\ At("advance")
  /\ ~Pursuing
  /\ Goto(NoGoalEnds)
  /\ UNCHANGED <<goalVars, goalStrict, logVars>>

(* Mutated: a goal may take one turn more.                                 *)
OverLimitLate == goalTurns' > MaxAuto
OverLimit     == goalTurns' >= MaxAuto

(* The end of the section: the turn limit, unless the goal has stopped.    *)
Conclude(stop) ==
  IF stop = "unblocked" /\ ~OverLimit
  THEN /\ goalStatus' = goalStatus
       /\ Goto("continue")
  ELSE /\ goalStatus' = "blocked"
       /\ Goto("ending")

(* The answer ends with [goal:complete]: mu is released for the verdict.   *)
ClaimsComplete ==
  /\ At("advance")
  /\ Pursuing
  /\ reply.mark = "complete"
  /\ goalTurns' = goalTurns + 1
  /\ Remember
  /\ Goto(IF Judge THEN "judging" ELSE "verified")
  /\ UNCHANGED <<goal, goalStatus, goalBlocks, goalBlock, goalIdleTurns, goalStrict,
                 logVars>>

(* The answer ends with [goal:blocked:...].                                *)
ClaimsBlocked ==
  /\ At("advance")
  /\ Pursuing
  /\ reply.mark \in Reasons
  /\ goalTurns' = goalTurns + 1
  /\ goalBlocks' = IF goalBlock = reply.mark THEN goalBlocks + 1 ELSE 1
  /\ LET stop == IF goalBlocks' >= 3 THEN reply.mark ELSE "unblocked"
     IN  /\ Conclude(stop)
         /\ goalBlock' = IF stop = "unblocked" /\ OverLimit THEN "limit" ELSE reply.mark
  /\ goalIdleTurns' = 0
  /\ Remember
  /\ UNCHANGED <<goal, goalStrict, logVars>>

(* Any other answer, [goal:continue] among them: the idle audit.           *)
GoesOn ==
  /\ At("advance")
  /\ Pursuing
  /\ reply.mark \in {"none", "continue"}
  /\ goalTurns' = goalTurns + 1
  /\ goalBlocks' = 0
  /\ LET idle == IF reply.calls THEN 0 ELSE goalIdleTurns + 1
         stop == IF idle >= MaxIdle THEN "idle" ELSE "unblocked"
     IN  /\ Conclude(stop)
         /\ goalBlock' = IF stop = "unblocked" /\ OverLimit THEN "limit" ELSE stop
         /\ goalIdleTurns' = IF reply.mark = "continue" THEN 0 ELSE idle
  /\ Remember
  /\ UNCHANGED <<goal, goalStrict, logVars>>

(* The judge says no, or its call fails or is cancelled: the function      *)
(* takes mu to say so and returns with it.                                 *)
JudgeRejects ==
  /\ At("judging")
  /\ muHeld' = TRUE
  /\ loop' = "continue"
  /\ UNCHANGED <<goalVars, goalStrict, running, cancelled, logVars>>

JudgeAccepts ==
  /\ At("judging")
  /\ Goto("verified")
  /\ UNCHANGED <<goalVars, goalStrict, logVars>>

(* The second section: the goal is looked at again.                        *)
ClearedMeanwhile ==
  /\ At("verified")
  /\ ~StillPursuing
  /\ Goto("ending")
  /\ UNCHANGED <<goalVars, goalStrict, logVars>>

StrictRefuses == goalStrict /\ ~worked

StrictRejects ==
  /\ At("verified")
  /\ StillPursuing
  /\ StrictRefuses
  /\ goalBlocks' = 0 /\ goalBlock' = "unblocked" /\ goalIdleTurns' = 0
  /\ Goto("continue")
  /\ UNCHANGED <<goal, goalStatus, goalTurns, said, goalStrict, logVars>>

Complete ==
  /\ At("verified")
  /\ StillPursuing
  /\ ~StrictRefuses
  /\ goal' = NoGoal
  /\ goalStatus' = "complete"
  /\ goalBlocks' = 0 /\ goalBlock' = "unblocked" /\ goalIdleTurns' = 0
  /\ Goto("ending")
  /\ UNCHANGED <<goalTurns, said, goalStrict, logVars>>

(* Mutated: the loop does not look at its context between two turns.       *)
NeverSees  == FALSE
SeesCancel == cancelled

(* continueGoal: another turn, unless the context is cancelled.            *)
Continue ==
  /\ At("continue")
  /\ IF SeesCancel
     THEN StopGoal("stopped") /\ Goto("ending")
     ELSE UNCHANGED goalVars /\ Goto("turn")
  /\ UNCHANGED <<goalStrict, logVars>>

-----------------------------------------------------------------------------
Turn ==
  \/ \E mark \in Marks, acted \in BOOLEAN : TurnAnswers(mark, acted)
  \/ TurnBlocked
  \/ \E mark \in Marks, calls \in BOOLEAN : TurnFails(mark, calls)

Advance ==
  \/ NotPursuing \/ ClaimsComplete \/ ClaimsBlocked \/ GoesOn
  \/ JudgeRejects \/ JudgeAccepts
  \/ ClearedMeanwhile \/ StrictRejects \/ Complete
  \/ Continue
  \/ EndTurn

User ==
  \/ \E g \in Goals \cup {NoGoal} : SetGoal(g)
  \/ \E strict \in BOOLEAN : SetGoalStrict(strict)
  \/ Submit
  \/ Cancel

Next == User \/ Turn \/ Advance

Spec == Init /\ [][Next]_vars

(* A turn ends by itself, or by its steps' limits or its context; the      *)
(* judge has a timeout; the user need do nothing.                          *)
FairSpec == Spec /\ WF_vars(Turn) /\ WF_vars(Advance)

-----------------------------------------------------------------------------
(* Every variable keeps its type: the audits never count beyond their ends. *)
TypeOK ==
  /\ running \in BOOLEAN /\ cancelled \in BOOLEAN /\ muHeld \in BOOLEAN
  /\ loop \in {"idle", "turn", "advance", "judging", "verified", "continue", "ending"}
  /\ goal \in Goals \cup {NoGoal}
  /\ goalStatus \in {"running", "complete", "blocked", "stopped"}
  /\ goalTurns \in Nat
  /\ goalBlocks \in 0..3
  /\ goalBlock \in Reasons \cup Stops \cup {"unblocked"}
  /\ goalIdleTurns \in 0..MaxIdle
  /\ goalStrict \in BOOLEAN
  /\ reply \in [mark : Marks, calls : BOOLEAN]
  /\ worked \in BOOLEAN
  /\ said \in Seq(Marks)

(* The last n turns for this goal all said the given mark.                 *)
LastSaid(n, mark) ==
  /\ Len(said) >= n
  /\ \A i \in Len(said) - n + 1 .. Len(said) : said[i] = mark

(* A goal is complete only when it was being pursued, the last answer says *)
(* so and, in strict mode, tools were used: a goal that the user cleared   *)
(* or stopped while the judge was asked is not announced as complete.      *)
CompletedInForce ==
  [][goalStatus' = "complete" /\ goalStatus # "complete"
     => /\ goal # NoGoal /\ goalStatus = "running"
        /\ reply.mark = "complete"
        /\ goalStrict => worked]_vars

(* SPEC.md:148: a goal is given up as blocked on three answers in a row    *)
(* with the same reason, counted afresh for a goal set or set again, with  *)
(* strict rejections and other answers in between.                         *)
BlockedIsEarned ==
  goalStatus = "blocked" /\ goalBlock \in Reasons => LastSaid(3, goalBlock)

(* The turn limit stops every goal; only one whose "complete" was just     *)
(* refused goes on past it.                                                *)
LimitHolds ==
  Pursuing /\ goalTurns >= MaxAuto => LastSaid(1, "complete")

(* A goal is given up no sooner than it was earned, and no later than the  *)
(* limit.                                                                  *)
GivenUpWhenDue == BlockedIsEarned /\ LimitHolds

(* When the user clears the goal the loop comes to its end, after the turn *)
(* in flight; that is, unless the judge has left mu locked.                *)
ClearEnds == running /\ goal = NoGoal ~> ~running \/ goal # NoGoal \/ muHeld

(* A cancelled loop comes to its end, with the same exception.             *)
CancelEnds == running /\ cancelled ~> ~running \/ muHeld

(* The user can stop the loop, in either way.                              *)
LoopEnds == ClearEnds /\ CancelEnds

-----------------------------------------------------------------------------
(* What comments of the code claim, and the code does not do.              *)

(* controller.go:789, of a verdict that is not OK: "return true // Continue *)
(* the goal loop."  The goroutine returns with mu locked and stops at the  *)
(* next lock.                                                              *)
RejectedGoesOn == loop = "judging" ~> loop \in {"turn", "ending"}

(* controller.go:840: "Any tool activity or a marker-bearing reply resets  *)
(* the counter" of idle turns.  The reset for a marker comes after the     *)
(* count; and an answer that Run returns with never has tool calls.        *)
IdleIsNarration ==
  goalBlock = "idle" =>
    \A i \in Len(said) - MaxIdle + 1 .. Len(said) : said[i] = "none"
=============================================================================
