---------------------------- MODULE Agent_proofs ----------------------------
(***************************************************************************)
(* The agent: the budgets and the pause of its run loop (AgentRun), for    *)
(* any limits and any number of steers; and what maintenance, folds, saves *)
(* and restarts leave of the conversation (Transcript), whatever its       *)
(* length and wherever a fold cuts it.  Of the repair of a conversation:   *)
(* it is proved for parts of a list, and a list is made of segments, each  *)
(* a message with the results that follow it.                              *)
(***************************************************************************)
EXTENDS AgentRun, Transcript, SequenceTheorems, WellFoundedInduction, TLAPS

(* AgentRun.                                                               *)

InLoop == at \in {"top", "waiting", "gate", "stream", "batch"}

(* A goroutine works for the turn exactly while the controller is running. *)
RunInv == running <=> at # "idle"

(* While the loop goes on, no budget is spent.                             *)
StepInv == InLoop => /\ MaxSteps > 0 => step < MaxSteps
                     /\ readiness < MaxReadiness /\ empty < MaxEmpty

(* An outstanding pause that nobody has spoiled with a Resume is seen at   *)
(* the top of the loop, and no call is made after it from there.           *)
AskInv == asked /\ ~resumeClosed =>
            /\ pauseClosed
            /\ since <= 1
            /\ at = "gate" => since = 0

(* The model calls of a run, by the steps and recoveries that made them.   *)
PerStep == 1 + MaxRecoveries
CallsInv ==
  /\ at \in {"top", "waiting", "gate"} => streams <= step * PerStep + recoveries
  /\ at = "stream" => streams <= step * PerStep + recoveries + 1
  /\ at = "batch" => streams <= step * PerStep + PerStep

TurnPart   == TurnTypes /\ RunInv
PausePart  == PauseTypes /\ PausedIsBlocked /\ AskInv
BudgetPart == BudgetTypes /\ StepInv /\ CallsInv /\ CallsBounded
SteerPart  == SteerTypes

IInv == TurnPart /\ PausePart /\ BudgetPart /\ SteerPart

-----------------------------------------------------------------------------
(* One step more is PerStep calls more, and steps below the limit make no  *)
(* more than all its calls.                                                *)
LEMMA Product ==
  ASSUME NEW n \in Nat
  PROVE  /\ PerStep \in Nat /\ n * PerStep \in Nat /\ Calls \in Nat
         /\ (n + 1) * PerStep = n * PerStep + PerStep
         /\ n < MaxSteps => n * PerStep + PerStep <= Calls
<1>1. PerStep \in Nat /\ MaxSteps \in Nat /\ Calls = MaxSteps * PerStep
  BY BudgetAssumption DEF PerStep, Calls
<1>2. \A a, b, c \in Nat : a * b \in Nat /\ (a + c) * b = a * b + c * b
  OBVIOUS
<1>3. (n + 1) * PerStep = n * PerStep + PerStep
  BY <1>1, <1>2
<1>4. ASSUME n < MaxSteps PROVE n * PerStep + PerStep <= Calls
  <2>1. PICK d \in Nat : MaxSteps = (n + 1) + d
    <3>1. MaxSteps - (n + 1) \in Nat /\ MaxSteps = (n + 1) + (MaxSteps - (n + 1))
      BY <1>1, <1>4
    <3>. QED
      BY <3>1
  <2>2. MaxSteps * PerStep = (n + 1) * PerStep + d * PerStep /\ d * PerStep \in Nat
    BY <1>1, <1>2, <2>1
  <2>3. (n + 1) * PerStep \in Nat
    BY <1>1, <1>2
  <2>. QED
    BY <1>1, <1>3, <2>2, <2>3
<1>. QED
  BY <1>1, <1>2, <1>3, <1>4

LEMMA EmptyQueue == <<>> \in Seq(Steers)
OBVIOUS

-----------------------------------------------------------------------------
LEMMA InitIInv == Init => IInv
<1>. SUFFICES ASSUME Init PROVE IInv
  OBVIOUS
<1>1. TurnPart
  <2>1. TurnTypes
    BY DEF Init, TurnTypes
  <2>2. RunInv
    BY DEF Init, RunInv
  <2>. QED
    BY <2>1, <2>2 DEF TurnPart
<1>2. PausePart
  <2>1. PauseTypes
    <3>1. since \in 0..2
      BY DEF Init
    <3>. QED
      BY <3>1 DEF Init, PauseTypes
  <2>2. PausedIsBlocked
    BY DEF Init, PausedIsBlocked
  <2>3. AskInv
    BY DEF Init, AskInv
  <2>. QED
    BY <2>1, <2>2, <2>3 DEF PausePart
<1>3. BudgetPart
  <2>1. 0 \in Nat
    OBVIOUS
  <2>2. Calls \in Nat
    BY <2>1, Product
  <2>. QED
    BY <2>2, BudgetAssumption
       DEF Init, BudgetPart, BudgetTypes, StepInv, InLoop, CallsInv, CallsBounded
<1>4. SteerPart
  <2>1. steerQueue \in Seq(Steers)
    BY EmptyQueue DEF Init
  <2>2. fate \in [Steers -> Fates]
    BY DEF Init, Fates
  <2>3. steerConsumed \in BOOLEAN
    BY DEF Init
  <2>. QED
    BY <2>1, <2>2, <2>3 DEF SteerPart, SteerTypes
<1>. QED
  BY <1>1, <1>2, <1>3, <1>4 DEF IInv

(* An action that leaves the place and the variables of a part alone keeps *)
(* that part.                                                              *)
LEMMA Framed ==
  ASSUME IInv
  PROVE  /\ UNCHANGED <<running, cancelled, at>> => TurnPart'
         /\ UNCHANGED <<at, pauseVars, pausing, askVars>> => PausePart'
         /\ UNCHANGED <<at, budgetVars>> => BudgetPart'
         /\ UNCHANGED <<at, steerVars>> => SteerPart'
<1>1. UNCHANGED <<running, cancelled, at>> => TurnPart'
  BY DEF IInv, TurnPart, TurnTypes, RunInv
<1>2. UNCHANGED <<at, pauseVars, pausing, askVars>> => PausePart'
  BY DEF IInv, PausePart, PauseTypes, PausedIsBlocked, AskInv, pauseVars, askVars
<1>3. UNCHANGED <<at, budgetVars>> => BudgetPart'
  BY DEF IInv, BudgetPart, BudgetTypes, StepInv, InLoop, CallsInv, CallsBounded, budgetVars
<1>4. UNCHANGED <<at, steerVars>> => SteerPart'
  BY DEF IInv, SteerPart, SteerTypes, steerVars
<1>. QED
  BY <1>1, <1>2, <1>3, <1>4

-----------------------------------------------------------------------------
(* The frontend.                                                          *)
LEMMA UserStep == IInv /\ User => IInv'
<1>. SUFFICES ASSUME IInv, User PROVE IInv'
  OBVIOUS
<1>1. CASE Submit
  <2>1. TurnPart'
    <3>1. TurnTypes'
      BY <1>1 DEF Submit, BeginTurn, IInv, TurnTypes, TurnPart
    <3>2. RunInv'
      BY <1>1 DEF Submit, BeginTurn, IInv, TurnTypes, RunInv, TurnPart
    <3>. QED
      BY <3>1, <3>2 DEF TurnPart
  <2>2. PausePart'
    <3>1. PauseTypes'
      <4>1. since' \in 0..2
        BY <1>1 DEF Submit, BeginTurn, IInv, PauseTypes, PausePart, pauseVars, askVars
      <4>2. /\ channels' \in BOOLEAN /\ pauseClosed' \in BOOLEAN /\ resumeClosed' \in BOOLEAN
            /\ paused' \in BOOLEAN /\ pausing' \in BOOLEAN /\ asked' \in BOOLEAN
        BY <1>1 DEF Submit, BeginTurn, IInv, PauseTypes, PausePart, pauseVars, askVars
      <4>. QED
        BY <4>1, <4>2 DEF PauseTypes
    <3>2. PausedIsBlocked'
      BY <1>1 DEF Submit, BeginTurn, IInv, PausePart, PauseTypes, PausedIsBlocked,
           TurnPart, RunInv, pauseVars
    <3>3. AskInv'
      BY <1>1 DEF Submit, BeginTurn, IInv, PausePart, PauseTypes, AskInv, pauseVars,
           askVars
    <3>. QED
      BY <3>1, <3>2, <3>3 DEF PausePart
  <2>3. BudgetPart'
    BY <1>1 DEF Submit, BeginTurn, IInv, BudgetPart, BudgetTypes, StepInv, InLoop,
         CallsInv, CallsBounded, budgetVars
  <2>4. SteerPart'
    BY <1>1 DEF Submit, BeginTurn, IInv, SteerPart, SteerTypes,
         steerVars
  <2>. QED
    BY <2>1, <2>2, <2>3, <2>4 DEF IInv
<1>2. CASE Cancel
  <2>1. TurnPart'
    <3>1. TurnTypes'
      BY <1>2 DEF Cancel, IInv, TurnTypes, TurnPart
    <3>2. RunInv'
      BY <1>2 DEF Cancel, IInv, TurnTypes, RunInv, TurnPart
    <3>. QED
      BY <3>1, <3>2 DEF TurnPart
  <2>2. PausePart'
    <3>1. UNCHANGED <<at, pauseVars, pausing, askVars>>
      BY <1>2 DEF Cancel
    <3>. QED
      BY <3>1, Framed
  <2>3. BudgetPart'
    <3>1. UNCHANGED <<at, budgetVars>>
      BY <1>2 DEF Cancel
    <3>. QED
      BY <3>1, Framed
  <2>4. SteerPart'
    <3>1. UNCHANGED <<at, steerVars>>
      BY <1>2 DEF Cancel
    <3>. QED
      BY <3>1, Framed
  <2>. QED
    BY <2>1, <2>2, <2>3, <2>4 DEF IInv
<1>3. CASE AskPause
  <2>1. TurnPart'
    <3>1. UNCHANGED <<running, cancelled, at>>
      BY <1>3 DEF AskPause
    <3>. QED
      BY <3>1, Framed
  <2>2. PausePart'
    <3>1. PauseTypes'
      <4>1. since' \in 0..2
        BY <1>3 DEF AskPause, IInv, PauseTypes, PausePart, pauseVars, askVars
      <4>2. /\ channels' \in BOOLEAN /\ pauseClosed' \in BOOLEAN /\ resumeClosed' \in BOOLEAN
            /\ paused' \in BOOLEAN /\ pausing' \in BOOLEAN /\ asked' \in BOOLEAN
        BY <1>3 DEF AskPause, IInv, PauseTypes, PausePart, pauseVars, askVars
      <4>. QED
        BY <4>1, <4>2 DEF PauseTypes
    <3>2. PausedIsBlocked'
      BY <1>3 DEF AskPause, IInv, PausePart, PauseTypes, PausedIsBlocked, TurnPart,
           RunInv, pauseVars
    <3>3. AskInv'
      BY <1>3 DEF AskPause, IInv, PausePart, PauseTypes, AskInv, pauseVars, askVars
    <3>. QED
      BY <3>1, <3>2, <3>3 DEF PausePart
  <2>3. BudgetPart'
    <3>1. UNCHANGED <<at, budgetVars>>
      BY <1>3 DEF AskPause
    <3>. QED
      BY <3>1, Framed
  <2>4. SteerPart'
    <3>1. UNCHANGED <<at, steerVars>>
      BY <1>3 DEF AskPause
    <3>. QED
      BY <3>1, Framed
  <2>. QED
    BY <2>1, <2>2, <2>3, <2>4 DEF IInv
<1>4. CASE Pause
  <2>1. TurnPart'
    <3>1. UNCHANGED <<running, cancelled, at>>
      BY <1>4 DEF Pause
    <3>. QED
      BY <3>1, Framed
  <2>2. PausePart'
    <3>1. PauseTypes'
      <4>1. since' \in 0..2
        BY <1>4 DEF Pause, IInv, PauseTypes, PausePart, pauseVars, askVars
      <4>2. /\ channels' \in BOOLEAN /\ pauseClosed' \in BOOLEAN /\ resumeClosed' \in BOOLEAN
            /\ paused' \in BOOLEAN /\ pausing' \in BOOLEAN /\ asked' \in BOOLEAN
        BY <1>4 DEF Pause, IInv, PauseTypes, PausePart, pauseVars, askVars
      <4>. QED
        BY <4>1, <4>2 DEF PauseTypes
    <3>2. PausedIsBlocked'
      BY <1>4 DEF Pause, IInv, PausePart, PauseTypes, PausedIsBlocked, TurnPart, RunInv,
           pauseVars
    <3>3. AskInv'
      <4>1. CASE channels /\ ~paused /\ ~asked
        BY <1>4, <4>1 DEF Pause, AskInv, askVars
      <4>2. CASE channels /\ ~paused /\ asked
        <5>1. /\ at' = at /\ resumeClosed' = resumeClosed
              /\ pauseClosed' = TRUE /\ since' = since
          BY <1>4, <4>2 DEF Pause, askVars
        <5>. QED
          BY <4>2, <5>1 DEF IInv, PausePart, AskInv
      <4>3. CASE ~(channels /\ ~paused)
        <5>1. UNCHANGED <<at, resumeClosed, pauseClosed, asked, since>>
          BY <1>4, <4>3 DEF Pause, askVars
        <5>. QED
          BY <5>1 DEF IInv, PausePart, AskInv
      <4>. QED
        BY <4>1, <4>2, <4>3
    <3>. QED
      BY <3>1, <3>2, <3>3 DEF PausePart
  <2>3. BudgetPart'
    <3>1. UNCHANGED <<at, budgetVars>>
      BY <1>4 DEF Pause
    <3>. QED
      BY <3>1, Framed
  <2>4. SteerPart'
    <3>1. UNCHANGED <<at, steerVars>>
      BY <1>4 DEF Pause
    <3>. QED
      BY <3>1, Framed
  <2>. QED
    BY <2>1, <2>2, <2>3, <2>4 DEF IInv
<1>5. CASE Resume
  <2>1. TurnPart'
    <3>1. UNCHANGED <<running, cancelled, at>>
      BY <1>5 DEF Resume
    <3>. QED
      BY <3>1, Framed
  <2>2. PausePart'
    <3>1. PauseTypes'
      <4>1. since' \in 0..2
        BY <1>5 DEF Resume, IInv, PauseTypes, PausePart, pauseVars, askVars
      <4>2. /\ channels' \in BOOLEAN /\ pauseClosed' \in BOOLEAN /\ resumeClosed' \in BOOLEAN
            /\ paused' \in BOOLEAN /\ pausing' \in BOOLEAN /\ asked' \in BOOLEAN
        BY <1>5 DEF Resume, IInv, PauseTypes, PausePart, pauseVars, askVars
      <4>. QED
        BY <4>1, <4>2 DEF PauseTypes
    <3>2. PausedIsBlocked'
      BY <1>5 DEF Resume, IInv, PausePart, PauseTypes, PausedIsBlocked, TurnPart,
           RunInv, pauseVars
    <3>3. AskInv'
      BY <1>5 DEF Resume, IInv, PausePart, PauseTypes, AskInv, pauseVars, askVars
    <3>. QED
      BY <3>1, <3>2, <3>3 DEF PausePart
  <2>3. BudgetPart'
    <3>1. UNCHANGED <<at, budgetVars>>
      BY <1>5 DEF Resume
    <3>. QED
      BY <3>1, Framed
  <2>4. SteerPart'
    <3>1. UNCHANGED <<at, steerVars>>
      BY <1>5 DEF Resume
    <3>. QED
      BY <3>1, Framed
  <2>. QED
    BY <2>1, <2>2, <2>3, <2>4 DEF IInv
<1>6. ASSUME NEW s \in Steers, AskSteer(s) PROVE IInv'
  <2>1. TurnPart'
    <3>1. UNCHANGED <<running, cancelled, at>>
      BY <1>6 DEF AskSteer
    <3>. QED
      BY <3>1, Framed
  <2>2. PausePart'
    <3>1. UNCHANGED <<at, pauseVars, pausing, askVars>>
      BY <1>6 DEF AskSteer
    <3>. QED
      BY <3>1, Framed
  <2>3. BudgetPart'
    <3>1. UNCHANGED <<at, budgetVars>>
      BY <1>6 DEF AskSteer
    <3>. QED
      BY <3>1, Framed
  <2>4. SteerPart'
    <3>1. fate' \in [Steers -> Fates]
      BY <1>6 DEF AskSteer, IInv, SteerPart, SteerTypes, Fates
    <3>2. UNCHANGED <<steerQueue, steerConsumed>>
      BY <1>6 DEF AskSteer
    <3>. QED
      BY <3>1, <3>2 DEF IInv, SteerPart, SteerTypes
  <2>. QED
    BY <2>1, <2>2, <2>3, <2>4 DEF IInv
<1>7. ASSUME NEW s \in Steers, Steer(s) PROVE IInv'
  <2>1. TurnPart'
    <3>1. UNCHANGED <<running, cancelled, at>>
      BY <1>7 DEF Steer
    <3>. QED
      BY <3>1, Framed
  <2>2. PausePart'
    <3>1. UNCHANGED <<at, pauseVars, pausing, askVars>>
      BY <1>7 DEF Steer
    <3>. QED
      BY <3>1, Framed
  <2>3. BudgetPart'
    <3>1. UNCHANGED <<at, budgetVars>>
      BY <1>7 DEF Steer
    <3>. QED
      BY <3>1, Framed
  <2>4. SteerPart'
    <3>1. fate' \in [Steers -> Fates]
      BY <1>7 DEF Steer, IInv, SteerPart, SteerTypes, Fates
    <3>2. steerQueue \in Seq(Steers)
      BY DEF IInv, SteerPart, SteerTypes
    <3>3. steerQueue' = Append(steerQueue, s) /\ steerConsumed' = FALSE
      BY <1>7 DEF Steer
    <3>4. steerQueue' \in Seq(Steers)
      BY <1>7, <3>2, <3>3
    <3>. QED
      BY <3>1, <3>3, <3>4 DEF SteerPart, SteerTypes
  <2>. QED
    BY <2>1, <2>2, <2>3, <2>4 DEF IInv
<1>8. ASSUME NEW s \in Steers, SteerAsTurn(s) PROVE IInv'
  <2>1. TurnPart'
    <3>1. TurnTypes'
      BY <1>8 DEF SteerAsTurn, BeginTurn, IInv, TurnTypes, TurnPart
    <3>2. RunInv'
      BY <1>8 DEF SteerAsTurn, BeginTurn, IInv, TurnTypes, RunInv, TurnPart
    <3>. QED
      BY <3>1, <3>2 DEF TurnPart
  <2>2. PausePart'
    <3>1. PauseTypes'
      <4>1. since' \in 0..2
        BY <1>8 DEF SteerAsTurn, BeginTurn, IInv, PauseTypes, PausePart, pauseVars,
             askVars
      <4>2. /\ channels' \in BOOLEAN /\ pauseClosed' \in BOOLEAN /\ resumeClosed' \in BOOLEAN
            /\ paused' \in BOOLEAN /\ pausing' \in BOOLEAN /\ asked' \in BOOLEAN
        BY <1>8 DEF SteerAsTurn, BeginTurn, IInv, PauseTypes, PausePart, pauseVars,
             askVars
      <4>. QED
        BY <4>1, <4>2 DEF PauseTypes
    <3>2. PausedIsBlocked'
      BY <1>8 DEF SteerAsTurn, BeginTurn, IInv, PausePart, PauseTypes, PausedIsBlocked,
           TurnPart, RunInv, pauseVars
    <3>3. AskInv'
      BY <1>8 DEF SteerAsTurn, BeginTurn, IInv, PausePart, PauseTypes, AskInv,
           pauseVars, askVars
    <3>. QED
      BY <3>1, <3>2, <3>3 DEF PausePart
  <2>3. BudgetPart'
    BY <1>8 DEF SteerAsTurn, BeginTurn, IInv, BudgetPart, BudgetTypes, StepInv, InLoop,
         CallsInv, CallsBounded, budgetVars
  <2>4. SteerPart'
    <3>1. fate' \in [Steers -> Fates]
      BY <1>8 DEF SteerAsTurn, IInv, SteerPart, SteerTypes, Fates
    <3>2. UNCHANGED <<steerQueue, steerConsumed>>
      BY <1>8 DEF SteerAsTurn, BeginTurn
    <3>. QED
      BY <3>1, <3>2 DEF IInv, SteerPart, SteerTypes
  <2>. QED
    BY <2>1, <2>2, <2>3, <2>4 DEF IInv
<1>. QED
  BY <1>1, <1>2, <1>3, <1>4, <1>5, <1>6, <1>7, <1>8 DEF User

(* The runs of a turn.                                                    *)
LEMMA TurnStep == IInv /\ Turn => IInv'
<1>. SUFFICES ASSUME IInv, Turn PROVE IInv'
  OBVIOUS
<1>1. CASE StartRun
  <2>1. TurnPart'
    <3>1. TurnTypes'
      BY <1>1 DEF StartRun, IInv, TurnTypes, TurnPart
    <3>2. RunInv'
      BY <1>1 DEF StartRun, IInv, TurnTypes, RunInv, TurnPart
    <3>. QED
      BY <3>1, <3>2 DEF TurnPart
  <2>2. PausePart'
    <3>1. PauseTypes'
      <4>1. since' \in 0..2
        BY <1>1 DEF StartRun, IInv, PauseTypes, PausePart, pauseVars, askVars
      <4>2. /\ channels' \in BOOLEAN /\ pauseClosed' \in BOOLEAN /\ resumeClosed' \in BOOLEAN
            /\ paused' \in BOOLEAN /\ pausing' \in BOOLEAN /\ asked' \in BOOLEAN
        BY <1>1 DEF StartRun, IInv, PauseTypes, PausePart, pauseVars, askVars
      <4>. QED
        BY <4>1, <4>2 DEF PauseTypes
    <3>2. PausedIsBlocked'
      BY <1>1 DEF StartRun, IInv, PausePart, PauseTypes, PausedIsBlocked, TurnPart,
           RunInv, pauseVars
    <3>3. AskInv'
      BY <1>1 DEF StartRun, IInv, PausePart, PauseTypes, AskInv, pauseVars, askVars
    <3>. QED
      BY <3>1, <3>2, <3>3 DEF PausePart
  <2>3. BudgetPart'
    <3>1. Calls \in Nat /\ 0 * PerStep = 0
      BY Product, BudgetAssumption DEF PerStep
    <3>2. /\ step' = 0 /\ readiness' = 0 /\ empty' = 0 /\ recoveries' = 0
          /\ streams' = 0 /\ at' = "top"
      BY <1>1 DEF StartRun
    <3>. QED
      BY <3>1, <3>2, BudgetAssumption
         DEF BudgetPart, BudgetTypes, StepInv, InLoop, CallsInv, CallsBounded
  <2>4. SteerPart'
    BY <1>1 DEF StartRun, IInv, SteerPart, SteerTypes, steerVars
  <2>. QED
    BY <2>1, <2>2, <2>3, <2>4 DEF IInv
<1>2. CASE EndTurn
  <2>1. TurnPart'
    <3>1. TurnTypes'
      BY <1>2 DEF EndTurn, IInv, TurnTypes, TurnPart
    <3>2. RunInv'
      BY <1>2 DEF EndTurn, IInv, TurnTypes, RunInv, TurnPart
    <3>. QED
      BY <3>1, <3>2 DEF TurnPart
  <2>2. PausePart'
    <3>1. PauseTypes'
      <4>1. since' \in 0..2
        BY <1>2 DEF EndTurn, IInv, PauseTypes, PausePart, pauseVars, askVars
      <4>2. /\ channels' \in BOOLEAN /\ pauseClosed' \in BOOLEAN /\ resumeClosed' \in BOOLEAN
            /\ paused' \in BOOLEAN /\ pausing' \in BOOLEAN /\ asked' \in BOOLEAN
        BY <1>2 DEF EndTurn, IInv, PauseTypes, PausePart, pauseVars, askVars
      <4>. QED
        BY <4>1, <4>2 DEF PauseTypes
    <3>2. PausedIsBlocked'
      BY <1>2 DEF EndTurn, IInv, PausePart, PauseTypes, PausedIsBlocked, TurnPart,
           RunInv, pauseVars
    <3>3. AskInv'
      BY <1>2 DEF EndTurn, IInv, PausePart, PauseTypes, AskInv, pauseVars, askVars
    <3>. QED
      BY <3>1, <3>2, <3>3 DEF PausePart
  <2>3. BudgetPart'
    BY <1>2 DEF EndTurn, IInv, BudgetPart, BudgetTypes, StepInv, InLoop, CallsInv,
         CallsBounded, budgetVars
  <2>4. SteerPart'
    BY <1>2 DEF EndTurn, IInv, SteerPart, SteerTypes, steerVars
  <2>. QED
    BY <2>1, <2>2, <2>3, <2>4 DEF IInv
<1>. QED
  BY <1>1, <1>2 DEF Turn

(* The loop.                                                              *)
LEMMA LoopStep == IInv /\ Loop => IInv'
<1>. SUFFICES ASSUME IInv, Loop PROVE IInv'
  OBVIOUS
<1>0. /\ PerStep \in Nat /\ step * PerStep \in Nat /\ Calls \in Nat
      /\ (step + 1) * PerStep = step * PerStep + PerStep
      /\ step < MaxSteps => step * PerStep + PerStep <= Calls
      /\ PerStep = 1 + MaxRecoveries
      /\ MaxSteps \in Nat /\ MaxRecoveries \in Nat
      /\ MaxReadiness \in Nat \ {0} /\ MaxEmpty \in Nat \ {0}
  BY Product, BudgetAssumption DEF PerStep, IInv, BudgetPart, BudgetTypes
<1>1. CASE PassPause
  <2>1. TurnPart'
    <3>1. TurnTypes'
      BY <1>1 DEF PassPause, Goto, IInv, TurnTypes, TurnPart
    <3>2. RunInv'
      BY <1>1 DEF PassPause, Goto, IInv, TurnTypes, RunInv, TurnPart
    <3>. QED
      BY <3>1, <3>2 DEF TurnPart
  <2>2. PausePart'
    <3>1. PauseTypes'
      <4>1. since' \in 0..2
        BY <1>1 DEF PassPause, Goto, IInv, PauseTypes, PausePart, pauseVars, askVars
      <4>2. /\ channels' \in BOOLEAN /\ pauseClosed' \in BOOLEAN /\ resumeClosed' \in BOOLEAN
            /\ paused' \in BOOLEAN /\ pausing' \in BOOLEAN /\ asked' \in BOOLEAN
        BY <1>1 DEF PassPause, Goto, IInv, PauseTypes, PausePart, pauseVars, askVars
      <4>. QED
        BY <4>1, <4>2 DEF PauseTypes
    <3>2. PausedIsBlocked'
      BY <1>1 DEF PassPause, Goto, IInv, PausePart, PauseTypes, PausedIsBlocked,
           TurnPart, RunInv, pauseVars
    <3>3. AskInv'
      BY <1>1 DEF PassPause, Goto, IInv, PausePart, PauseTypes, AskInv, pauseVars,
           askVars
    <3>. QED
      BY <3>1, <3>2, <3>3 DEF PausePart
  <2>3. BudgetPart'
    BY <1>1 DEF PassPause, Goto, IInv, BudgetPart, BudgetTypes, StepInv, InLoop,
         CallsInv, CallsBounded, budgetVars
  <2>4. SteerPart'
    BY <1>1 DEF PassPause, Goto, IInv, SteerPart, SteerTypes,
         steerVars
  <2>. QED
    BY <2>1, <2>2, <2>3, <2>4 DEF IInv
<1>2. CASE BeginPause
  <2>1. TurnPart'
    <3>1. TurnTypes'
      BY <1>2 DEF BeginPause, Goto, IInv, TurnTypes, TurnPart
    <3>2. RunInv'
      <4>1. running' = running /\ at = "top" /\ at' \in {"waiting", "failing"}
        BY <1>2 DEF BeginPause, Goto
      <4>. QED
        BY <4>1 DEF IInv, TurnPart, RunInv
    <3>. QED
      BY <3>1, <3>2 DEF TurnPart
  <2>2. PausePart'
    <3>1. PauseTypes'
      <4>1. since' \in 0..2
        BY <1>2 DEF BeginPause, Goto, IInv, PauseTypes, PausePart, pauseVars, askVars
      <4>2. /\ channels' \in BOOLEAN /\ pauseClosed' \in BOOLEAN /\ resumeClosed' \in BOOLEAN
            /\ paused' \in BOOLEAN /\ pausing' \in BOOLEAN /\ asked' \in BOOLEAN
        BY <1>2 DEF BeginPause, Goto, IInv, PauseTypes, PausePart, pauseVars, askVars
      <4>. QED
        BY <4>1, <4>2 DEF PauseTypes
    <3>2. PausedIsBlocked'
      <4>1. ~paused
        BY <1>2 DEF BeginPause, IInv, PausePart, PausedIsBlocked
      <4>2. (paused' /\ at' = "waiting") \/ (paused' = paused /\ at' = "failing")
        BY <1>2 DEF BeginPause, Goto
      <4>. QED
        BY <4>1, <4>2 DEF PausedIsBlocked
    <3>3. AskInv'
      BY <1>2 DEF BeginPause, Goto, IInv, PausePart, PauseTypes, AskInv, pauseVars,
           askVars
    <3>. QED
      BY <3>1, <3>2, <3>3 DEF PausePart
  <2>3. BudgetPart'
    BY <1>2 DEF BeginPause, Goto, IInv, BudgetPart, BudgetTypes, StepInv, InLoop,
         CallsInv, CallsBounded, budgetVars
  <2>4. SteerPart'
    BY <1>2 DEF BeginPause, Goto, IInv, SteerPart, SteerTypes,
         steerVars
  <2>. QED
    BY <2>1, <2>2, <2>3, <2>4 DEF IInv
<1>3. CASE EndPause
  <2>1. TurnPart'
    <3>1. TurnTypes'
      BY <1>3 DEF EndPause, Unpaused, Goto, IInv, TurnTypes, TurnPart
    <3>2. RunInv'
      BY <1>3 DEF EndPause, Unpaused, Goto, IInv, TurnTypes, RunInv, TurnPart
    <3>. QED
      BY <3>1, <3>2 DEF TurnPart
  <2>2. PausePart'
    <3>1. PauseTypes'
      <4>1. since' \in 0..2
        BY <1>3 DEF EndPause, Unpaused, Goto, IInv, PauseTypes, PausePart, pauseVars,
             askVars
      <4>2. /\ channels' \in BOOLEAN /\ pauseClosed' \in BOOLEAN /\ resumeClosed' \in BOOLEAN
            /\ paused' \in BOOLEAN /\ pausing' \in BOOLEAN /\ asked' \in BOOLEAN
        BY <1>3 DEF EndPause, Unpaused, Goto, IInv, PauseTypes, PausePart, pauseVars,
             askVars
      <4>. QED
        BY <4>1, <4>2 DEF PauseTypes
    <3>2. PausedIsBlocked'
      BY <1>3 DEF EndPause, Unpaused, Goto, IInv, PausePart, PauseTypes,
           PausedIsBlocked, TurnPart, RunInv, pauseVars
    <3>3. AskInv'
      BY <1>3 DEF EndPause, Unpaused, Goto, IInv, PausePart, PauseTypes, AskInv,
           pauseVars, askVars
    <3>. QED
      BY <3>1, <3>2, <3>3 DEF PausePart
  <2>3. BudgetPart'
    BY <1>3 DEF EndPause, Unpaused, Goto, IInv, BudgetPart, BudgetTypes, StepInv,
         InLoop, CallsInv, CallsBounded, budgetVars
  <2>4. SteerPart'
    BY <1>3 DEF EndPause, Unpaused, Goto, IInv, SteerPart, SteerTypes, steerVars
  <2>. QED
    BY <2>1, <2>2, <2>3, <2>4 DEF IInv
<1>4. CASE CallModel
  <2>1. TurnPart'
    <3>1. TurnTypes'
      BY <1>4 DEF CallModel, CountCall, Goto, IInv, TurnTypes, TurnPart
    <3>2. RunInv'
      BY <1>4 DEF CallModel, CountCall, Goto, IInv, TurnTypes, RunInv, TurnPart
    <3>. QED
      BY <3>1, <3>2 DEF TurnPart
  <2>2. PausePart'
    <3>1. PauseTypes'
      <4>1. since' \in 0..2
        BY <1>4 DEF CallModel, CountCall, Goto, IInv, PauseTypes, PausePart, pauseVars,
             askVars
      <4>2. /\ channels' \in BOOLEAN /\ pauseClosed' \in BOOLEAN /\ resumeClosed' \in BOOLEAN
            /\ paused' \in BOOLEAN /\ pausing' \in BOOLEAN /\ asked' \in BOOLEAN
        BY <1>4 DEF CallModel, CountCall, Goto, IInv, PauseTypes, PausePart, pauseVars,
             askVars
      <4>. QED
        BY <4>1, <4>2 DEF PauseTypes
    <3>2. PausedIsBlocked'
      BY <1>4 DEF CallModel, CountCall, Goto, IInv, PausePart, PauseTypes,
           PausedIsBlocked, TurnPart, RunInv, pauseVars
    <3>3. AskInv'
      BY <1>4 DEF CallModel, CountCall, Goto, IInv, PausePart, PauseTypes, AskInv,
           pauseVars, askVars
    <3>. QED
      BY <3>1, <3>2, <3>3 DEF PausePart
  <2>3. BudgetPart'
    BY <1>4, <1>0 DEF CallModel, CountCall, Goto, IInv, BudgetPart, BudgetTypes,
         StepInv, InLoop, CallsInv, CallsBounded, budgetVars
  <2>4. SteerPart'
    <3>1. CASE steerQueue = <<>>
      BY <1>4, <3>1 DEF CallModel, Goto, IInv, SteerPart, SteerTypes, steerVars
    <3>2. CASE steerQueue # <<>>
      <4>1. steerQueue \in Seq(Steers) /\ fate \in [Steers -> Fates]
        BY DEF IInv, SteerPart, SteerTypes
      <4>2. Tail(steerQueue) \in Seq(Steers) /\ Head(steerQueue) \in Steers
        BY <3>2, <4>1
      <4>3. /\ steerQueue' = Tail(steerQueue) /\ steerConsumed' \in BOOLEAN
            /\ fate' = [fate EXCEPT ![Head(steerQueue)] = "shown"]
        BY <1>4, <3>2 DEF CallModel, Goto
      <4>4. fate' \in [Steers -> Fates]
        BY <4>1, <4>2, <4>3 DEF Fates
      <4>. QED
        BY <4>1, <4>2, <4>3, <4>4 DEF SteerPart, SteerTypes
    <3>. QED
      BY <3>1, <3>2
  <2>. QED
    BY <2>1, <2>2, <2>3, <2>4 DEF IInv
<1>5. CASE StopAtGate
  <2>1. TurnPart'
    <3>1. TurnTypes'
      BY <1>5 DEF StopAtGate, Goto, IInv, TurnTypes, TurnPart
    <3>2. RunInv'
      BY <1>5 DEF StopAtGate, Goto, IInv, TurnTypes, RunInv, TurnPart
    <3>. QED
      BY <3>1, <3>2 DEF TurnPart
  <2>2. PausePart'
    <3>1. PauseTypes'
      <4>1. since' \in 0..2
        BY <1>5 DEF StopAtGate, Goto, IInv, PauseTypes, PausePart, pauseVars, askVars
      <4>2. /\ channels' \in BOOLEAN /\ pauseClosed' \in BOOLEAN /\ resumeClosed' \in BOOLEAN
            /\ paused' \in BOOLEAN /\ pausing' \in BOOLEAN /\ asked' \in BOOLEAN
        BY <1>5 DEF StopAtGate, Goto, IInv, PauseTypes, PausePart, pauseVars, askVars
      <4>. QED
        BY <4>1, <4>2 DEF PauseTypes
    <3>2. PausedIsBlocked'
      BY <1>5 DEF StopAtGate, Goto, IInv, PausePart, PauseTypes, PausedIsBlocked,
           TurnPart, RunInv, pauseVars
    <3>3. AskInv'
      BY <1>5 DEF StopAtGate, Goto, IInv, PausePart, PauseTypes, AskInv, pauseVars,
           askVars
    <3>. QED
      BY <3>1, <3>2, <3>3 DEF PausePart
  <2>3. BudgetPart'
    BY <1>5 DEF StopAtGate, Goto, IInv, BudgetPart, BudgetTypes, StepInv, InLoop,
         CallsInv, CallsBounded, budgetVars
  <2>4. SteerPart'
    BY <1>5 DEF StopAtGate, Goto, IInv, SteerPart, SteerTypes,
         steerVars
  <2>. QED
    BY <2>1, <2>2, <2>3, <2>4 DEF IInv
<1>6. CASE Recover
  <2>1. TurnPart'
    <3>1. TurnTypes'
      BY <1>6 DEF Recover, MayRecover, Again, Goto, LoopVars, IInv, TurnTypes, TurnPart
    <3>2. RunInv'
      BY <1>6 DEF Recover, MayRecover, Again, Goto, LoopVars, IInv, TurnTypes, RunInv,
           TurnPart
    <3>. QED
      BY <3>1, <3>2 DEF TurnPart
  <2>2. PausePart'
    <3>1. PauseTypes'
      <4>1. since' \in 0..2
        BY <1>6 DEF Recover, MayRecover, Again, Goto, LoopVars, IInv, PauseTypes,
             PausePart, pauseVars, askVars
      <4>2. /\ channels' \in BOOLEAN /\ pauseClosed' \in BOOLEAN /\ resumeClosed' \in BOOLEAN
            /\ paused' \in BOOLEAN /\ pausing' \in BOOLEAN /\ asked' \in BOOLEAN
        BY <1>6 DEF Recover, MayRecover, Again, Goto, LoopVars, IInv, PauseTypes,
             PausePart, pauseVars, askVars
      <4>. QED
        BY <4>1, <4>2 DEF PauseTypes
    <3>2. PausedIsBlocked'
      BY <1>6 DEF Recover, MayRecover, Again, Goto, LoopVars, IInv, PausePart,
           PauseTypes, PausedIsBlocked, TurnPart, RunInv, pauseVars
    <3>3. AskInv'
      BY <1>6 DEF Recover, MayRecover, Again, Goto, LoopVars, IInv, PausePart,
           PauseTypes, AskInv, pauseVars, askVars
    <3>. QED
      BY <3>1, <3>2, <3>3 DEF PausePart
  <2>3. BudgetPart'
    BY <1>6, <1>0 DEF Recover, MayRecover, Again, Goto, LoopVars, IInv, BudgetPart,
         BudgetTypes, StepInv, InLoop, CallsInv, CallsBounded, budgetVars
  <2>4. SteerPart'
    BY <1>6 DEF Recover, MayRecover, Again, Goto, LoopVars, IInv, SteerPart, SteerTypes, steerVars
  <2>. QED
    BY <2>1, <2>2, <2>3, <2>4 DEF IInv
<1>7. CASE StreamFails
  <2>1. TurnPart'
    <3>1. TurnTypes'
      BY <1>7 DEF StreamFails, Goto, LoopVars, IInv, TurnTypes, TurnPart
    <3>2. RunInv'
      BY <1>7 DEF StreamFails, Goto, LoopVars, IInv, TurnTypes, RunInv, TurnPart
    <3>. QED
      BY <3>1, <3>2 DEF TurnPart
  <2>2. PausePart'
    <3>1. PauseTypes'
      <4>1. since' \in 0..2
        BY <1>7 DEF StreamFails, Goto, LoopVars, IInv, PauseTypes, PausePart, pauseVars,
             askVars
      <4>2. /\ channels' \in BOOLEAN /\ pauseClosed' \in BOOLEAN /\ resumeClosed' \in BOOLEAN
            /\ paused' \in BOOLEAN /\ pausing' \in BOOLEAN /\ asked' \in BOOLEAN
        BY <1>7 DEF StreamFails, Goto, LoopVars, IInv, PauseTypes, PausePart, pauseVars,
             askVars
      <4>. QED
        BY <4>1, <4>2 DEF PauseTypes
    <3>2. PausedIsBlocked'
      BY <1>7 DEF StreamFails, Goto, LoopVars, IInv, PausePart, PauseTypes,
           PausedIsBlocked, TurnPart, RunInv, pauseVars
    <3>3. AskInv'
      BY <1>7 DEF StreamFails, Goto, LoopVars, IInv, PausePart, PauseTypes, AskInv,
           pauseVars, askVars
    <3>. QED
      BY <3>1, <3>2, <3>3 DEF PausePart
  <2>3. BudgetPart'
    BY <1>7, <1>0 DEF StreamFails, Goto, LoopVars, IInv, BudgetPart, BudgetTypes,
         StepInv, InLoop, CallsInv, CallsBounded, budgetVars
  <2>4. SteerPart'
    BY <1>7 DEF StreamFails, Goto, LoopVars, IInv, SteerPart, SteerTypes, steerVars
  <2>. QED
    BY <2>1, <2>2, <2>3, <2>4 DEF IInv
<1>8. CASE ModelCallsTools
  <2>1. TurnPart'
    <3>1. TurnTypes'
      BY <1>8 DEF ModelCallsTools, Goto, LoopVars, IInv, TurnTypes, TurnPart
    <3>2. RunInv'
      BY <1>8 DEF ModelCallsTools, Goto, LoopVars, IInv, TurnTypes, RunInv, TurnPart
    <3>. QED
      BY <3>1, <3>2 DEF TurnPart
  <2>2. PausePart'
    <3>1. PauseTypes'
      <4>1. since' \in 0..2
        BY <1>8 DEF ModelCallsTools, Goto, LoopVars, IInv, PauseTypes, PausePart,
             pauseVars, askVars
      <4>2. /\ channels' \in BOOLEAN /\ pauseClosed' \in BOOLEAN /\ resumeClosed' \in BOOLEAN
            /\ paused' \in BOOLEAN /\ pausing' \in BOOLEAN /\ asked' \in BOOLEAN
        BY <1>8 DEF ModelCallsTools, Goto, LoopVars, IInv, PauseTypes, PausePart,
             pauseVars, askVars
      <4>. QED
        BY <4>1, <4>2 DEF PauseTypes
    <3>2. PausedIsBlocked'
      BY <1>8 DEF ModelCallsTools, Goto, LoopVars, IInv, PausePart, PauseTypes,
           PausedIsBlocked, TurnPart, RunInv, pauseVars
    <3>3. AskInv'
      BY <1>8 DEF ModelCallsTools, Goto, LoopVars, IInv, PausePart, PauseTypes, AskInv,
           pauseVars, askVars
    <3>. QED
      BY <3>1, <3>2, <3>3 DEF PausePart
  <2>3. BudgetPart'
    BY <1>8, <1>0 DEF ModelCallsTools, Goto, LoopVars, IInv, BudgetPart, BudgetTypes,
         StepInv, InLoop, CallsInv, CallsBounded, budgetVars
  <2>4. SteerPart'
    BY <1>8 DEF ModelCallsTools, Goto, LoopVars, IInv, SteerPart, SteerTypes, steerVars
  <2>. QED
    BY <2>1, <2>2, <2>3, <2>4 DEF IInv
<1>9. CASE BatchDone
  <2>1. TurnPart'
    <3>1. TurnTypes'
      BY <1>9 DEF BatchDone, NextStep, LastStep, Goto, LoopVars, IInv, TurnTypes,
           TurnPart
    <3>2. RunInv'
      BY <1>9 DEF BatchDone, NextStep, LastStep, Goto, LoopVars, IInv, TurnTypes,
           RunInv, TurnPart
    <3>. QED
      BY <3>1, <3>2 DEF TurnPart
  <2>2. PausePart'
    <3>1. PauseTypes'
      <4>1. since' \in 0..2
        BY <1>9 DEF BatchDone, NextStep, LastStep, Goto, LoopVars, IInv, PauseTypes,
             PausePart, pauseVars, askVars
      <4>2. /\ channels' \in BOOLEAN /\ pauseClosed' \in BOOLEAN /\ resumeClosed' \in BOOLEAN
            /\ paused' \in BOOLEAN /\ pausing' \in BOOLEAN /\ asked' \in BOOLEAN
        BY <1>9 DEF BatchDone, NextStep, LastStep, Goto, LoopVars, IInv, PauseTypes,
             PausePart, pauseVars, askVars
      <4>. QED
        BY <4>1, <4>2 DEF PauseTypes
    <3>2. PausedIsBlocked'
      BY <1>9 DEF BatchDone, NextStep, LastStep, Goto, LoopVars, IInv, PausePart,
           PauseTypes, PausedIsBlocked, TurnPart, RunInv, pauseVars
    <3>3. AskInv'
      BY <1>9 DEF BatchDone, NextStep, LastStep, Goto, LoopVars, IInv, PausePart,
           PauseTypes, AskInv, pauseVars, askVars
    <3>. QED
      BY <3>1, <3>2, <3>3 DEF PausePart
  <2>3. BudgetPart'
    BY <1>9, <1>0 DEF BatchDone, NextStep, LastStep, Goto, LoopVars, IInv, BudgetPart,
         BudgetTypes, StepInv, InLoop, CallsInv, CallsBounded, budgetVars
  <2>4. SteerPart'
    BY <1>9 DEF BatchDone, NextStep, LastStep, Goto, LoopVars, IInv, SteerPart,
         SteerTypes, steerVars
  <2>. QED
    BY <2>1, <2>2, <2>3, <2>4 DEF IInv
<1>10. CASE ReadinessBlocks
  <2>1. TurnPart'
    <3>1. TurnTypes'
      BY <1>10 DEF ReadinessBlocks, NextStep, LastStep, Goto, LoopVars, IInv, TurnTypes,
           TurnPart
    <3>2. RunInv'
      BY <1>10 DEF ReadinessBlocks, NextStep, LastStep, Goto, LoopVars, IInv, TurnTypes,
           RunInv, TurnPart
    <3>. QED
      BY <3>1, <3>2 DEF TurnPart
  <2>2. PausePart'
    <3>1. PauseTypes'
      <4>1. since' \in 0..2
        BY <1>10 DEF ReadinessBlocks, NextStep, LastStep, Goto, LoopVars, IInv,
             PauseTypes, PausePart, pauseVars, askVars
      <4>2. /\ channels' \in BOOLEAN /\ pauseClosed' \in BOOLEAN /\ resumeClosed' \in BOOLEAN
            /\ paused' \in BOOLEAN /\ pausing' \in BOOLEAN /\ asked' \in BOOLEAN
        BY <1>10 DEF ReadinessBlocks, NextStep, LastStep, Goto, LoopVars, IInv,
             PauseTypes, PausePart, pauseVars, askVars
      <4>. QED
        BY <4>1, <4>2 DEF PauseTypes
    <3>2. PausedIsBlocked'
      BY <1>10 DEF ReadinessBlocks, NextStep, LastStep, Goto, LoopVars, IInv, PausePart,
           PauseTypes, PausedIsBlocked, TurnPart, RunInv, pauseVars
    <3>3. AskInv'
      BY <1>10 DEF ReadinessBlocks, NextStep, LastStep, Goto, LoopVars, IInv, PausePart,
           PauseTypes, AskInv, pauseVars, askVars
    <3>. QED
      BY <3>1, <3>2, <3>3 DEF PausePart
  <2>3. BudgetPart'
    <3>1. /\ at = "stream" /\ recoveries' = 0 /\ readiness' = readiness + 1
          /\ UNCHANGED <<empty, streams>>
          /\ \/ readiness' >= MaxReadiness /\ at' = "failing" /\ step' = step
             \/ readiness' < MaxReadiness /\ step' = step + 1 /\ LastStep /\ at' = "failing"
             \/ readiness' < MaxReadiness /\ step' = step + 1 /\ ~LastStep /\ at' = "top"
      <4>1. readiness + 1 \in Nat
        BY DEF IInv, BudgetPart, BudgetTypes
      <4>. QED
        BY <1>10, <1>0, <4>1 DEF ReadinessBlocks, NextStep, Goto, LoopVars
    <3>2. readiness < MaxReadiness /\ readiness \in Nat
      BY <3>1 DEF IInv, BudgetPart, BudgetTypes, StepInv, InLoop
    <3>. QED
      BY <1>0, <3>1, <3>2 DEF LastStep, IInv, BudgetPart, BudgetTypes, StepInv, InLoop,
         CallsInv, CallsBounded
  <2>4. SteerPart'
    BY <1>10 DEF ReadinessBlocks, NextStep, LastStep, Goto, LoopVars, IInv, SteerPart,
         SteerTypes, steerVars
  <2>. QED
    BY <2>1, <2>2, <2>3, <2>4 DEF IInv
<1>11. CASE EmptyBlocks
  <2>1. TurnPart'
    <3>1. TurnTypes'
      BY <1>11 DEF EmptyBlocks, NextStep, LastStep, Goto, LoopVars, IInv, TurnTypes,
           TurnPart
    <3>2. RunInv'
      BY <1>11 DEF EmptyBlocks, NextStep, LastStep, Goto, LoopVars, IInv, TurnTypes,
           RunInv, TurnPart
    <3>. QED
      BY <3>1, <3>2 DEF TurnPart
  <2>2. PausePart'
    <3>1. PauseTypes'
      <4>1. since' \in 0..2
        BY <1>11 DEF EmptyBlocks, NextStep, LastStep, Goto, LoopVars, IInv, PauseTypes,
             PausePart, pauseVars, askVars
      <4>2. /\ channels' \in BOOLEAN /\ pauseClosed' \in BOOLEAN /\ resumeClosed' \in BOOLEAN
            /\ paused' \in BOOLEAN /\ pausing' \in BOOLEAN /\ asked' \in BOOLEAN
        BY <1>11 DEF EmptyBlocks, NextStep, LastStep, Goto, LoopVars, IInv, PauseTypes,
             PausePart, pauseVars, askVars
      <4>. QED
        BY <4>1, <4>2 DEF PauseTypes
    <3>2. PausedIsBlocked'
      BY <1>11 DEF EmptyBlocks, NextStep, LastStep, Goto, LoopVars, IInv, PausePart,
           PauseTypes, PausedIsBlocked, TurnPart, RunInv, pauseVars
    <3>3. AskInv'
      BY <1>11 DEF EmptyBlocks, NextStep, LastStep, Goto, LoopVars, IInv, PausePart,
           PauseTypes, AskInv, pauseVars, askVars
    <3>. QED
      BY <3>1, <3>2, <3>3 DEF PausePart
  <2>3. BudgetPart'
    <3>1. /\ at = "stream" /\ recoveries' = 0 /\ empty' = empty + 1
          /\ UNCHANGED <<readiness, streams>>
          /\ \/ empty' >= MaxEmpty /\ at' = "failing" /\ step' = step
             \/ empty' < MaxEmpty /\ step' = step + 1 /\ LastStep /\ at' = "failing"
             \/ empty' < MaxEmpty /\ step' = step + 1 /\ ~LastStep /\ at' = "top"
      <4>1. empty + 1 \in Nat
        BY DEF IInv, BudgetPart, BudgetTypes
      <4>. QED
        BY <1>11, <1>0, <4>1 DEF EmptyBlocks, NextStep, Goto, LoopVars
    <3>2. empty < MaxEmpty /\ empty \in Nat
      BY <3>1 DEF IInv, BudgetPart, BudgetTypes, StepInv, InLoop
    <3>. QED
      BY <1>0, <3>1, <3>2 DEF LastStep, IInv, BudgetPart, BudgetTypes, StepInv, InLoop,
         CallsInv, CallsBounded
  <2>4. SteerPart'
    BY <1>11 DEF EmptyBlocks, NextStep, LastStep, Goto, LoopVars, IInv, SteerPart,
         SteerTypes, steerVars
  <2>. QED
    BY <2>1, <2>2, <2>3, <2>4 DEF IInv
<1>12. CASE ModelAnswers
  <2>1. TurnPart'
    <3>1. TurnTypes'
      BY <1>12 DEF ModelAnswers, SteersQueued, NextStep, LastStep, Goto, LoopVars, IInv,
           TurnTypes, TurnPart
    <3>2. RunInv'
      BY <1>12 DEF ModelAnswers, SteersQueued, NextStep, LastStep, Goto, LoopVars, IInv,
           TurnTypes, RunInv, TurnPart
    <3>. QED
      BY <3>1, <3>2 DEF TurnPart
  <2>2. PausePart'
    <3>1. PauseTypes'
      <4>1. since' \in 0..2
        BY <1>12 DEF ModelAnswers, SteersQueued, NextStep, LastStep, Goto, LoopVars,
             IInv, PauseTypes, PausePart, pauseVars, askVars
      <4>2. /\ channels' \in BOOLEAN /\ pauseClosed' \in BOOLEAN /\ resumeClosed' \in BOOLEAN
            /\ paused' \in BOOLEAN /\ pausing' \in BOOLEAN /\ asked' \in BOOLEAN
        BY <1>12 DEF ModelAnswers, SteersQueued, NextStep, LastStep, Goto, LoopVars,
             IInv, PauseTypes, PausePart, pauseVars, askVars
      <4>. QED
        BY <4>1, <4>2 DEF PauseTypes
    <3>2. PausedIsBlocked'
      BY <1>12 DEF ModelAnswers, SteersQueued, NextStep, LastStep, Goto, LoopVars, IInv,
           PausePart, PauseTypes, PausedIsBlocked, TurnPart, RunInv, pauseVars
    <3>3. AskInv'
      BY <1>12 DEF ModelAnswers, SteersQueued, NextStep, LastStep, Goto, LoopVars, IInv,
           PausePart, PauseTypes, AskInv, pauseVars, askVars
    <3>. QED
      BY <3>1, <3>2, <3>3 DEF PausePart
  <2>3. BudgetPart'
    BY <1>12, <1>0 DEF ModelAnswers, SteersQueued, NextStep, LastStep, Goto, LoopVars,
         IInv, BudgetPart, BudgetTypes, StepInv, InLoop, CallsInv, CallsBounded,
         budgetVars
  <2>4. SteerPart'
    BY <1>12 DEF ModelAnswers, NextStep, SteersQueued, Goto, LoopVars, IInv,
         SteerPart, SteerTypes, steerVars
  <2>. QED
    BY <2>1, <2>2, <2>3, <2>4 DEF IInv
<1>13. CASE Return
  <2>1. TurnPart'
    <3>1. TurnTypes'
      BY <1>13 DEF Return, Goto, IInv, TurnTypes, TurnPart
    <3>2. RunInv'
      BY <1>13 DEF Return, Goto, IInv, TurnTypes, RunInv, TurnPart
    <3>. QED
      BY <3>1, <3>2 DEF TurnPart
  <2>2. PausePart'
    <3>1. PauseTypes'
      <4>1. since' \in 0..2
        BY <1>13 DEF Return, Goto, IInv, PauseTypes, PausePart, pauseVars, askVars
      <4>2. /\ channels' \in BOOLEAN /\ pauseClosed' \in BOOLEAN /\ resumeClosed' \in BOOLEAN
            /\ paused' \in BOOLEAN /\ pausing' \in BOOLEAN /\ asked' \in BOOLEAN
        BY <1>13 DEF Return, Goto, IInv, PauseTypes, PausePart, pauseVars, askVars
      <4>. QED
        BY <4>1, <4>2 DEF PauseTypes
    <3>2. PausedIsBlocked'
      BY <1>13 DEF Return, Goto, IInv, PausePart, PauseTypes, PausedIsBlocked, TurnPart,
           RunInv, pauseVars
    <3>3. AskInv'
      BY <1>13 DEF Return, Goto, IInv, PausePart, PauseTypes, AskInv, pauseVars, askVars
    <3>. QED
      BY <3>1, <3>2, <3>3 DEF PausePart
  <2>3. BudgetPart'
    BY <1>13 DEF Return, Goto, IInv, BudgetPart, BudgetTypes, StepInv, InLoop, CallsInv,
         CallsBounded, budgetVars
  <2>4. SteerPart'
    <3>1. /\ steerQueue' = <<>> /\ steerConsumed' = FALSE
      BY <1>13 DEF Return, Goto
    <3>2. fate' \in [Steers -> Fates]
      BY <1>13 DEF Return, IInv, SteerPart, SteerTypes, Fates
    <3>3. steerQueue' \in Seq(Steers)
      BY <3>1, EmptyQueue
    <3>. QED
      BY <3>1, <3>2, <3>3 DEF SteerPart, SteerTypes
  <2>. QED
    BY <2>1, <2>2, <2>3, <2>4 DEF IInv
<1>. QED
  BY <1>1, <1>2, <1>3, <1>4, <1>5, <1>6, <1>7, <1>8, <1>9, <1>10, <1>11, <1>12, <1>13 DEF Loop

LEMMA StepIInv == IInv /\ [Next]_vars => IInv'
<1>1. ASSUME IInv, UNCHANGED vars PROVE IInv'
  BY <1>1, Framed DEF IInv, vars
<1>. QED
  BY <1>1, UserStep, TurnStep, LoopStep DEF Next

-----------------------------------------------------------------------------
(* The inductive invariant holds of every behaviour of the agent.          *)
THEOREM AgentInvariant == Spec => []IInv
<1>. QED
  BY InitIInv, StepIInv, PTL DEF Spec

(* Every variable keeps its type: no counter goes past its budget.         *)
THEOREM AgentTypeCorrect == Spec => []TypeOK
<1>1. IInv => TypeOK
  BY DEF IInv, TypeOK, TurnPart, PausePart, BudgetPart, SteerPart
<1>. QED
  BY <1>1, AgentInvariant, PTL

(* The agent says it is paused exactly while it blocks.                    *)
THEOREM AgentPausedIsBlocked == Spec => []PausedIsBlocked
<1>1. IInv => PausedIsBlocked
  BY DEF IInv, PausePart
<1>. QED
  BY <1>1, AgentInvariant, PTL

(* The first pause of a run holds after one more model call at most.       *)
THEOREM AgentFirstPauseHolds == Spec => []FirstPauseHolds
<1>1. IInv => FirstPauseHolds
  BY DEF IInv, PausePart, AskInv, FirstPauseHolds
<1>. QED
  BY <1>1, AgentInvariant, PTL

(* A run under a limit makes no more model calls than its steps and their  *)
(* recoveries allow.                                                       *)
THEOREM AgentCallsBounded == Spec => []CallsBounded
<1>1. IInv => CallsBounded
  BY DEF IInv, BudgetPart
<1>. QED
  BY <1>1, AgentInvariant, PTL

-----------------------------------------------------------------------------
(* Lists, and induction over them: a list that is bad would be one of the  *)
(* least length.                                                           *)

LEMMA LeastNumber ==
  ASSUME NEW S, S \subseteq Nat, S # {} PROVE \E n \in S : \A m \in S : n <= m
<1>1. PICK n \in S : \A m \in S : ~(<<m, n>> \in OpToRel(<, Nat))
  BY NatLessThanWellFounded, WFMin
<1>2. ASSUME NEW m \in S PROVE n <= m
  <2>1. m \in Nat /\ n \in Nat
    OBVIOUS
  <2>2. m < n => <<m, n>> \in OpToRel(<, Nat)
    BY <2>1 DEF OpToRel
  <2>3. ~(<<m, n>> \in OpToRel(<, Nat))
    BY <1>1
  <2>4. ~(m < n)
    BY <2>2, <2>3, Zenon
  <2> QED
    BY <2>1, <2>4
<1> QED
  BY <1>2

\* f[i] joins the first i of the sequences.
Joins(f, ss) == f = [i \in 1..Len(ss) |-> IF i = 1 THEN ss[i] ELSE f[i - 1] \o ss[i]]

LEMMA JoinsAt ==
  ASSUME NEW T, NEW ss \in Seq(Seq(T)), NEW f, Joins(f, ss), NEW i \in 1..Len(ss)
  PROVE  f[i] = IF i = 1 THEN ss[i] ELSE f[i - 1] \o ss[i]
BY DEF Joins

(* What FlattenSeq chooses is there.                                       *)
LEMMA JoinsExists ==
  ASSUME NEW T PROVE \A ss \in Seq(Seq(T)) : \E f : Joins(f, ss)
<1> SUFFICES ASSUME NEW rr \in Seq(Seq(T)), ~ \E f : Joins(f, rr) PROVE FALSE
  OBVIOUS
<1> DEFINE Bad == {n \in Nat : \E ss \in Seq(Seq(T)) : Len(ss) = n /\ ~ \E f : Joins(f, ss)}
<1>1. Len(rr) \in Bad
  OBVIOUS
<1>2. PICK n \in Bad : \A m \in Bad : n <= m
  <2> HIDE DEF Bad
  <2> QED
    <3>1. Bad \subseteq Nat
      BY DEF Bad
    <3> QED
      BY <1>1, <3>1, LeastNumber
<1>3. PICK ss \in Seq(Seq(T)) : Len(ss) = n /\ ~ \E f : Joins(f, ss)
  OBVIOUS
<1>4. CASE n = 0
  <2>1. Joins([i \in 1..Len(ss) |-> <<>>], ss)
    BY <1>3, <1>4 DEF Joins
  <2> QED
    BY <1>3, <2>1
<1>5. CASE n # 0
  <2> DEFINE rs == SubSeq(ss, 1, n - 1)
  <2>1. rs \in Seq(Seq(T)) /\ Len(rs) = n - 1 /\ \A i \in 1..(n - 1) : rs[i] = ss[i]
    BY <1>3, <1>5
  <2>2. n - 1 \in Nat /\ n - 1 \notin Bad
    BY <1>2, <1>5
  <2>3. PICK g : Joins(g, rs)
    BY <2>1, <2>2
  <2> HIDE DEF rs, Bad
  <2> DEFINE h == [i \in 1..n |-> IF i < n THEN g[i] ELSE IF n = 1 THEN ss[n] ELSE g[n - 1] \o ss[n]]
  <2>4. \A i \in 1..(n - 1) : g[i] = IF i = 1 THEN ss[i] ELSE g[i - 1] \o ss[i]
    BY <2>1, <2>2, <2>3 DEF Joins
  <2>5. \A i \in 1..n : h[i] = IF i = 1 THEN ss[i] ELSE h[i - 1] \o ss[i]
    <3> SUFFICES ASSUME NEW i \in 1..n PROVE h[i] = IF i = 1 THEN ss[i] ELSE h[i - 1] \o ss[i]
      OBVIOUS
    <3>0. n \in Nat \ {0}
      BY <1>5 DEF Bad
    <3>1. CASE i < n
      <4>1. h[i] = g[i] /\ i \in 1..(n - 1) /\ (i = 1 \/ h[i - 1] = g[i - 1])
        BY <3>0, <3>1
      <4> HIDE DEF h
      <4> QED
        BY <4>1, <2>4, <2>1
    <3>2. CASE i = n
      BY <3>0, <3>2
    <3> QED
      BY <3>0, <3>1, <3>2
  <2>6. h = [i \in 1..Len(ss) |-> IF i = 1 THEN ss[i] ELSE h[i - 1] \o ss[i]]
    <3>1. h = [i \in 1..n |-> h[i]]
      OBVIOUS
    <3> HIDE DEF h
    <3> QED
      BY <3>1, <2>5, <1>3
  <2> HIDE DEF h
  <2>7. Joins(h, ss)
    BY <2>6 DEF Joins
  <2> QED
    BY <2>7, <1>3
<1> QED
  BY <1>4, <1>5

(* A join of a list is one of its beginnings, and is a sequence.           *)
LEMMA JoinsAgree ==
  ASSUME NEW T, NEW ss \in Seq(Seq(T)), NEW tt \in Seq(Seq(T)), NEW f, NEW g,
         Joins(f, ss), Joins(g, tt), Len(ss) <= Len(tt), \A i \in 1..Len(ss) : ss[i] = tt[i]
  PROVE  \A i \in 1..Len(ss) : f[i] = g[i] /\ f[i] \in Seq(T)
<1> DEFINE Bad == {i \in 1..Len(ss) : ~(f[i] = g[i] /\ f[i] \in Seq(T))}
<1> SUFFICES ASSUME Bad # {} PROVE FALSE
  OBVIOUS
<1>1. PICK i \in Bad : \A j \in Bad : i <= j
  <2> HIDE DEF Bad
  <2>1. Bad \subseteq Nat
    BY DEF Bad
  <2> QED
    BY <2>1, LeastNumber
<1>2. /\ f[i] = IF i = 1 THEN ss[i] ELSE f[i - 1] \o ss[i]
      /\ g[i] = IF i = 1 THEN tt[i] ELSE g[i - 1] \o tt[i]
      /\ ss[i] = tt[i] /\ ss[i] \in Seq(T)
  <2>1. i \in 1..Len(ss) /\ i \in 1..Len(tt)
    OBVIOUS
  <2>2. ss[i] \in Seq(T)
    BY <2>1
  <2> HIDE DEF Bad
  <2> QED
    BY <2>1, <2>2, JoinsAt
<1>3. i = 1 \/ (i - 1 \in 1..Len(ss) /\ i - 1 \notin Bad)
  BY <1>1
<1>4. i = 1 \/ (f[i - 1] = g[i - 1] /\ f[i - 1] \in Seq(T))
  BY <1>3
<1>5. f[i] = g[i] /\ f[i] \in Seq(T)
  BY <1>2, <1>4
<1> QED
  BY <1>5

LEMMA FlattenIs ==
  ASSUME NEW T, NEW ss \in Seq(Seq(T)), ss # <<>>
  PROVE  \E f : Joins(f, ss) /\ FlattenSeq(ss) = f[Len(ss)]
<1> DEFINE flatten == CHOOSE f : f = [i \in 1..Len(ss) |-> IF i = 1 THEN ss[i] ELSE f[i - 1] \o ss[i]]
<1>1. FlattenSeq(ss) = flatten[Len(ss)]
  <2>1. Len(ss) # 0
    OBVIOUS
  <2> QED
    BY <2>1 DEF FlattenSeq
<1>2. Joins(flatten, ss)
  <2>1. PICK f : Joins(f, ss)
    BY JoinsExists
  <2> QED
    BY <2>1 DEF Joins
<1> QED
  BY <1>1, <1>2

LEMMA FlattenEmpty == FlattenSeq(<<>>) = <<>>
BY DEF FlattenSeq

LEMMA FlattenType ==
  ASSUME NEW T, NEW ss \in Seq(Seq(T)) PROVE FlattenSeq(ss) \in Seq(T)
<1>1. CASE ss = <<>>
  <2>1. <<>> \in Seq(T)
    OBVIOUS
  <2> QED
    BY <1>1, <2>1, FlattenEmpty
<1>2. CASE ss # <<>>
  <2>1. PICK f : Joins(f, ss) /\ FlattenSeq(ss) = f[Len(ss)]
    BY <1>2, FlattenIs
  <2>2. Len(ss) \in 1..Len(ss)
    BY <1>2
  <2> QED
    BY <2>1, <2>2, JoinsAgree
<1> QED
  BY <1>1, <1>2

LEMMA FlattenAppend ==
  ASSUME NEW T, NEW ss \in Seq(Seq(T)), NEW s \in Seq(T)
  PROVE  FlattenSeq(Append(ss, s)) = FlattenSeq(ss) \o s
<1> DEFINE tt == Append(ss, s)
           n == Len(ss)
<1>1. tt \in Seq(Seq(T)) /\ Len(tt) = n + 1 /\ tt[n + 1] = s /\ tt # <<>> /\ n \in Nat
      /\ \A i \in 1..n : ss[i] = tt[i]
  BY AppendProperties
<1>2. PICK g : Joins(g, tt) /\ FlattenSeq(tt) = g[n + 1]
  <2> HIDE DEF tt, n
  <2> QED
    BY <1>1, FlattenIs
<1>3. g[n + 1] = IF n = 0 THEN s ELSE g[n] \o s
  <2> HIDE DEF tt, n
  <2>1. n + 1 \in 1..Len(tt)
    BY <1>1
  <2>2. g[n + 1] = IF n + 1 = 1 THEN tt[n + 1] ELSE g[n + 1 - 1] \o tt[n + 1]
    BY <1>1, <1>2, <2>1, JoinsAt
  <2> QED
    BY <2>2, <1>1
<1>4. CASE ss = <<>>
  BY <1>2, <1>3, <1>4, FlattenEmpty
<1>5. CASE ss # <<>>
  <2>1. PICK f : Joins(f, ss) /\ FlattenSeq(ss) = f[n]
    BY <1>5, FlattenIs
  <2>2. n \in 1..n
    BY <1>5
  <2>3. f[n] = g[n]
    <3> HIDE DEF tt, n
    <3>1. n = Len(ss) BY DEF n
    <3>2. Len(ss) <= Len(tt)
      BY <1>1, <3>1
    <3>3. \A i \in 1..Len(ss) : ss[i] = tt[i]
      BY <1>1, <3>1
    <3>4. tt \in Seq(Seq(T)) /\ Joins(f, ss) /\ Joins(g, tt)
      BY <1>1, <1>2, <2>1
    <3>5. \A i \in 1..Len(ss) : f[i] = g[i] /\ f[i] \in Seq(T)
      BY <3>2, <3>3, <3>4, JoinsAgree
    <3> QED
      BY <2>2, <3>1, <3>5
  <2> QED
    BY <2>1, <2>3, <1>2, <1>3, <1>5
<1> QED
  BY <1>4, <1>5

(* Induction on the length of a list; G holds the lists of which it is     *)
(* true.                                                                   *)
LEMMA ListInduction ==
  ASSUME NEW T, NEW G, <<>> \in G, \A s \in Seq(T), e \in T : s \in G => Append(s, e) \in G
  PROVE  \A s \in Seq(T) : s \in G
<1> DEFINE Bad == {n \in Nat : \E s \in Seq(T) : Len(s) = n /\ s \notin G}
<1> SUFFICES ASSUME NEW r \in Seq(T), r \notin G PROVE FALSE
  OBVIOUS
<1>1. Len(r) \in Bad
  OBVIOUS
<1>2. PICK n \in Bad : \A m \in Bad : n <= m
  <2> HIDE DEF Bad
  <2>1. Bad \subseteq Nat
    BY DEF Bad
  <2> QED
    BY <1>1, <2>1, LeastNumber
<1>3. PICK t \in Seq(T) : Len(t) = n /\ t \notin G
  OBVIOUS
<1>4. PICK s \in Seq(T), e \in T : t = Append(s, e)
  BY <1>3, SequenceEmptyOrAppend
<1>5. Len(s) \in Nat /\ Len(s) < n
  BY <1>3, <1>4
<1>6. Len(s) \notin Bad
  <2> HIDE DEF Bad
  <2>1. n \in Nat
    BY DEF Bad
  <2> QED
    BY <1>2, <1>5, <2>1
<1>7. s \in G
  BY <1>5, <1>6
<1> QED
  BY <1>3, <1>4, <1>7

LEMMA FlattenConcat ==
  ASSUME NEW T, NEW rr \in Seq(Seq(T))
  PROVE  \A ss \in Seq(Seq(T)) : FlattenSeq(rr \o ss) = FlattenSeq(rr) \o FlattenSeq(ss)
<1> DEFINE G == {ss \in Seq(Seq(T)) : FlattenSeq(rr \o ss) = FlattenSeq(rr) \o FlattenSeq(ss)}
<1>1. <<>> \in G
  <2>1. FlattenSeq(rr) \in Seq(T) /\ rr \o <<>> = rr /\ <<>> \in Seq(Seq(T))
    BY FlattenType
  <2>2. FlattenSeq(rr) \o <<>> = FlattenSeq(rr)
    BY <2>1, ConcatEmptySeq
  <2> QED
    BY <2>1, <2>2, FlattenEmpty
<1>2. ASSUME NEW ss \in Seq(Seq(T)), NEW s \in Seq(T), ss \in G PROVE Append(ss, s) \in G
  <2>1. rr \o Append(ss, s) = Append(rr \o ss, s) /\ rr \o ss \in Seq(Seq(T)) /\ Append(ss, s) \in Seq(Seq(T))
    OBVIOUS
  <2>2. FlattenSeq(Append(rr \o ss, s)) = FlattenSeq(rr \o ss) \o s
    BY <2>1, FlattenAppend
  <2>3. FlattenSeq(Append(ss, s)) = FlattenSeq(ss) \o s
    BY FlattenAppend
  <2>4. FlattenSeq(rr) \in Seq(T) /\ FlattenSeq(ss) \in Seq(T)
    BY FlattenType
  <2>5. (FlattenSeq(rr) \o FlattenSeq(ss)) \o s = FlattenSeq(rr) \o (FlattenSeq(ss) \o s)
    <3> DEFINE a == FlattenSeq(rr)
               b == FlattenSeq(ss)
    <3>1. a \in Seq(T) /\ b \in Seq(T) /\ s \in Seq(T)
      BY <2>4
    <3> HIDE DEF a, b
    <3>2. (a \o b) \o s = a \o (b \o s)
      BY <3>1, ConcatAssociative
    <3> QED
      BY <3>2 DEF a, b
  <2>6. FlattenSeq(rr \o ss) = FlattenSeq(rr) \o FlattenSeq(ss)
    BY <1>2
  <2> QED
    BY <2>1, <2>2, <2>3, <2>5, <2>6
<1> HIDE DEF G
<1>3. \A ss \in Seq(Seq(T)) : ss \in G
  BY <1>1, <1>2, ListInduction
<1> QED
  BY <1>3 DEF G

(* What the lists of ss hold.                                              *)
AllOf(ss) == UNION {Range(ss[i]) : i \in DOMAIN ss}

LEMMA AllOfAppend ==
  ASSUME NEW T, NEW ss \in Seq(T), NEW s \in T
  PROVE  AllOf(Append(ss, s)) = AllOf(ss) \cup Range(s)
<1> DEFINE tt == Append(ss, s)
<1>1. DOMAIN tt = DOMAIN ss \cup {Len(ss) + 1} /\ tt[Len(ss) + 1] = s /\ \A i \in DOMAIN ss : tt[i] = ss[i]
  OBVIOUS
<1> HIDE DEF tt
<1>2. ASSUME NEW x PROVE x \in AllOf(tt) <=> x \in AllOf(ss) \/ x \in Range(s)
  <2>1. x \in AllOf(tt) <=> \E i \in DOMAIN tt : x \in Range(tt[i])
    BY DEF AllOf
  <2>2. x \in AllOf(ss) <=> \E i \in DOMAIN ss : x \in Range(ss[i])
    BY DEF AllOf
  <2>3. (\E i \in DOMAIN tt : x \in Range(tt[i])) <=> (\E i \in DOMAIN ss : x \in Range(ss[i])) \/ x \in Range(s)
    BY <1>1
  <2> QED
    BY <2>1, <2>2, <2>3
<1>3. AllOf(tt) = AllOf(ss) \cup Range(s)
  BY <1>2
<1> QED
  BY <1>3 DEF tt

LEMMA FlattenRange ==
  ASSUME NEW T
  PROVE  \A ss \in Seq(Seq(T)) : Range(FlattenSeq(ss)) = AllOf(ss)
<1> DEFINE G == {ss \in Seq(Seq(T)) : Range(FlattenSeq(ss)) = AllOf(ss)}
<1>1. <<>> \in G
  BY FlattenEmpty DEF Range, AllOf
<1>2. ASSUME NEW ss \in Seq(Seq(T)), NEW s \in Seq(T), ss \in G PROVE Append(ss, s) \in G
  <2>1. FlattenSeq(ss) \in Seq(T)
    BY FlattenType
  <2>2. FlattenSeq(Append(ss, s)) = FlattenSeq(ss) \o s
    BY FlattenAppend
  <2>3. Range(FlattenSeq(ss) \o s) = Range(FlattenSeq(ss)) \cup Range(s)
    BY <2>1, RangeConcatenation
  <2>4. AllOf(Append(ss, s)) = AllOf(ss) \cup Range(s)
    BY AllOfAppend
  <2>5. Range(FlattenSeq(ss)) = AllOf(ss) /\ Append(ss, s) \in Seq(Seq(T))
    BY <1>2
  <2> QED
    BY <2>2, <2>3, <2>4, <2>5
<1> HIDE DEF G
<1>3. \A ss \in Seq(Seq(T)) : ss \in G
  BY <1>1, <1>2, ListInduction
<1> QED
  BY <1>3 DEF G

-----------------------------------------------------------------------------
(* Only.                                                                   *)

Pieces(s, S) == [i \in DOMAIN s |-> IF s[i] \in S THEN <<s[i]>> ELSE <<>>]

LEMMA PiecesType ==
  ASSUME NEW T, NEW s \in Seq(T), NEW S
  PROVE  Pieces(s, S) \in Seq(Seq(T)) /\ Only(s, S) = FlattenSeq(Pieces(s, S)) /\ Only(s, S) \in Seq(T)
<1>1. ASSUME NEW i \in 1..Len(s) PROVE (IF s[i] \in S THEN <<s[i]>> ELSE <<>>) \in Seq(T)
  <2>1. s[i] \in T
    OBVIOUS
  <2>2. <<s[i]>> \in Seq(T) /\ <<>> \in Seq(T)
    BY <2>1
  <2> QED
    BY <2>2
<1>2. Pieces(s, S) \in Seq(Seq(T))
  <2>1. DOMAIN s = 1..Len(s) /\ Len(s) \in Nat
    OBVIOUS
  <2>2. Pieces(s, S) = [i \in 1..Len(s) |-> IF s[i] \in S THEN <<s[i]>> ELSE <<>>]
    BY <2>1 DEF Pieces
  <2>3. Pieces(s, S) \in [1..Len(s) -> Seq(T)]
    BY <1>1, <2>2
  <2> QED
    BY <2>1, <2>3
<1>3. Only(s, S) = FlattenSeq(Pieces(s, S))
  BY DEF Only, Pieces
<1> QED
  BY <1>2, <1>3, FlattenType

LEMMA OnlyEmpty == \A S : Only(<<>>, S) = <<>>
<1>1. \A S : Pieces(<<>>, S) = <<>>
  BY DEF Pieces
<1> QED
  BY <1>1, FlattenEmpty DEF Only, Pieces

LEMMA OnlyConcat ==
  ASSUME NEW T, NEW r \in Seq(T), NEW s \in Seq(T), NEW S
  PROVE  Only(r \o s, S) = Only(r, S) \o Only(s, S)
<1>1. Pieces(r \o s, S) = Pieces(r, S) \o Pieces(s, S)
  <2>0. r \o s \in Seq(T)
    OBVIOUS
  <2>1. Pieces(r, S) \in Seq(Seq(T)) /\ Pieces(s, S) \in Seq(Seq(T)) /\ Pieces(r \o s, S) \in Seq(Seq(T))
    BY <2>0, PiecesType
  <2>2. Len(Pieces(r, S)) = Len(r) /\ Len(Pieces(s, S)) = Len(s) /\ Len(Pieces(r \o s, S)) = Len(r) + Len(s)
    BY <2>1 DEF Pieces
  <2>3. ASSUME NEW i \in 1..(Len(r) + Len(s))
        PROVE  Pieces(r \o s, S)[i] = (Pieces(r, S) \o Pieces(s, S))[i]
    <3>0. Len(r) \in Nat /\ Len(s) \in Nat /\ i \in Nat
      OBVIOUS
    <3>1. CASE i <= Len(r)
      <4>1. (r \o s)[i] = r[i] /\ i \in DOMAIN r /\ i \in DOMAIN (r \o s)
        BY <3>1
      <4>2. Pieces(r \o s, S)[i] = Pieces(r, S)[i]
        BY <4>1 DEF Pieces
      <4> DEFINE a == Pieces(r, S)
                 b == Pieces(s, S)
      <4>3. a \in Seq(Seq(T)) /\ b \in Seq(Seq(T)) /\ i \in 1..Len(a)
        BY <2>1, <2>2, <3>0, <3>1
      <4> HIDE DEF a, b
      <4>4. (a \o b)[i] = a[i]
        BY <4>3
      <4> QED
        BY <4>2, <4>4 DEF a, b
    <3>2. CASE i > Len(r)
      <4>1. (r \o s)[i] = s[i - Len(r)] /\ i - Len(r) \in DOMAIN s /\ i \in DOMAIN (r \o s)
        BY <3>2
      <4>2. Pieces(r \o s, S)[i] = Pieces(s, S)[i - Len(r)]
        BY <4>1 DEF Pieces
      <4> DEFINE a == Pieces(r, S)
                 b == Pieces(s, S)
      <4>3. /\ a \in Seq(Seq(T)) /\ b \in Seq(Seq(T)) /\ Len(a) = Len(r)
            /\ i \in (Len(a) + 1)..(Len(a) + Len(b))
        BY <2>1, <2>2, <3>0, <3>2
      <4> HIDE DEF a, b
      <4>4. (a \o b)[i] = b[i - Len(a)]
        BY <4>3
      <4> QED
        BY <4>2, <4>3, <4>4 DEF a, b
    <3>3. i <= Len(r) \/ i > Len(r)
      BY <3>0
    <3> QED
      BY <3>1, <3>2, <3>3, Zenon
  <2>4. Pieces(r, S) \o Pieces(s, S) \in Seq(Seq(T)) /\ Len(Pieces(r, S) \o Pieces(s, S)) = Len(r) + Len(s)
    BY <2>1, <2>2, ConcatProperties
  <2>5. \A i \in 1..Len(Pieces(r \o s, S)) : Pieces(r \o s, S)[i] = (Pieces(r, S) \o Pieces(s, S))[i]
    BY <2>2, <2>3
  <2> QED
    BY <2>1, <2>2, <2>4, <2>5, SeqEqual
<1>2. r \o s \in Seq(T)
  OBVIOUS
<1>3. /\ Pieces(r, S) \in Seq(Seq(T)) /\ Only(r, S) = FlattenSeq(Pieces(r, S))
      /\ Pieces(s, S) \in Seq(Seq(T)) /\ Only(s, S) = FlattenSeq(Pieces(s, S))
      /\ Only(r \o s, S) = FlattenSeq(Pieces(r \o s, S))
  BY <1>2, PiecesType
<1>4. FlattenSeq(Pieces(r, S) \o Pieces(s, S)) = FlattenSeq(Pieces(r, S)) \o FlattenSeq(Pieces(s, S))
  BY <1>3, FlattenConcat
<1> QED
  BY <1>1, <1>3, <1>4

LEMMA OnlySame ==
  ASSUME NEW T, NEW s \in Seq(T), NEW R, NEW S, Range(s) \cap R = Range(s) \cap S
  PROVE  Only(s, R) = Only(s, S)
<1>1. \A i \in DOMAIN s : s[i] \in R <=> s[i] \in S
  BY DEF Range
<1> QED
  BY <1>1 DEF Only

LEMMA OnlyRange ==
  ASSUME NEW T, NEW s \in Seq(T), NEW S
  PROVE  Range(Only(s, S)) = Range(s) \cap S
<1>1. Range(Only(s, S)) = UNION {Range(Pieces(s, S)[i]) : i \in DOMAIN Pieces(s, S)}
  BY PiecesType, FlattenRange DEF AllOf
<1>2. DOMAIN Pieces(s, S) = DOMAIN s
  BY DEF Pieces
<1>3. \A i \in DOMAIN s : Range(Pieces(s, S)[i]) = {s[i]} \cap S
  <2> SUFFICES ASSUME NEW i \in DOMAIN s PROVE Range(Pieces(s, S)[i]) = {s[i]} \cap S
    OBVIOUS
  <2>1. Range(<<s[i]>>) = {s[i]} /\ Range(<<>>) = {}
    BY DEF Range
  <2>2. Pieces(s, S)[i] = IF s[i] \in S THEN <<s[i]>> ELSE <<>>
    BY DEF Pieces
  <2> QED
    BY <2>1, <2>2
<1>4. UNION {Range(Pieces(s, S)[i]) : i \in DOMAIN s} = UNION {{s[i]} \cap S : i \in DOMAIN s}
  BY <1>3
<1>5. UNION {{s[i]} \cap S : i \in DOMAIN s} = Range(s) \cap S
  BY DEF Range
<1> QED
  BY <1>1, <1>2, <1>4, <1>5

LEMMA OnlyOne ==
  ASSUME NEW e, NEW S
  PROVE  Only(<<e>>, S) = IF e \in S THEN <<e>> ELSE <<>>
<1>1. Pieces(<<e>>, S) = Append(<<>>, IF e \in S THEN <<e>> ELSE <<>>)
  BY DEF Pieces
<1>2. (IF e \in S THEN <<e>> ELSE <<>>) \in Seq({e}) /\ <<>> \in Seq(Seq({e}))
  <2>1. <<e>> \in Seq({e}) /\ <<>> \in Seq({e}) /\ <<>> \in Seq(Seq({e}))
    OBVIOUS
  <2> QED
    BY <2>1
<1>3. FlattenSeq(Pieces(<<e>>, S)) = <<>> \o (IF e \in S THEN <<e>> ELSE <<>>)
  BY <1>1, <1>2, FlattenAppend, FlattenEmpty
<1> QED
  BY <1>2, <1>3 DEF Only, Pieces

LEMMA OnlyNone ==
  ASSUME NEW T, NEW s \in Seq(T), NEW S, Range(s) \cap S = {}
  PROVE  Only(s, S) = <<>>
<1> DEFINE o == Only(s, S)
<1>1. o \in Seq(T) /\ Range(o) = {}
  BY PiecesType, OnlyRange
<1> HIDE DEF o
<1>2. Len(o) = 0
  <2>1. DOMAIN o = 1..Len(o) /\ Len(o) \in Nat
    BY <1>1
  <2>2. 1 \notin DOMAIN o
    BY <1>1 DEF Range
  <2> QED
    BY <2>1, <2>2
<1>3. o = <<>>
  BY <1>1, <1>2
<1> QED
  BY <1>3 DEF o

(* A choice from a choice.                                                 *)
LEMMA OnlyTwice ==
  ASSUME NEW T, NEW R, NEW S, R \cap T \subseteq S
  PROVE  \A s \in Seq(T) : Only(Only(s, S), R) = Only(s, R)
<1> DEFINE G == {s \in Seq(T) : Only(Only(s, S), R) = Only(s, R)}
<1>1. <<>> \in G
  BY OnlyEmpty
<1>2. ASSUME NEW s \in Seq(T), NEW e \in T, s \in G PROVE Append(s, e) \in G
  <2>1. Append(s, e) = s \o <<e>> /\ <<e>> \in Seq(T) /\ Append(s, e) \in Seq(T) /\ <<>> \in Seq(T)
    BY AppendIsConcat
  <2>2. Only(s, S) \in Seq(T) /\ Only(<<e>>, S) \in Seq(T)
    BY <2>1, PiecesType
  <2>3. ASSUME NEW t \in Seq(T)
        PROVE  Only(s \o t, S) = Only(s, S) \o Only(t, S) /\ Only(s \o t, R) = Only(s, R) \o Only(t, R)
    BY OnlyConcat
  <2>4. ASSUME NEW u \in Seq(T), NEW t \in Seq(T)
        PROVE  Only(u \o t, R) = Only(u, R) \o Only(t, R)
    BY OnlyConcat
  <2>5. Only(Only(<<e>>, S), R) = Only(<<e>>, R)
    BY OnlyOne, OnlyEmpty
  <2>6. Only(Only(s, S), R) = Only(s, R)
    BY <1>2
  <2>7. Only(s \o <<e>>, S) = Only(s, S) \o Only(<<e>>, S) /\ Only(s \o <<e>>, R) = Only(s, R) \o Only(<<e>>, R)
    BY <2>1, <2>3, Zenon
  <2>8. Only(Only(s, S) \o Only(<<e>>, S), R) = Only(Only(s, S), R) \o Only(Only(<<e>>, S), R)
    BY <2>2, <2>4, Zenon
  <2>9. Only(Only(Append(s, e), S), R) = Only(Append(s, e), R)
    BY <2>1, <2>5, <2>6, <2>7, <2>8, Zenon
  <2> QED
    BY <2>1, <2>9
<1> HIDE DEF G
<1>3. \A s \in Seq(T) : s \in G
  BY <1>1, <1>2, ListInduction
<1> QED
  BY <1>3 DEF G

-----------------------------------------------------------------------------
(* Transcript.                                                             *)

Ids       == {NoId, 1, 2}
CallsMade == [id : Ids, named : BOOLEAN, cut : BOOLEAN]
Labels    == -MaxOld..MaxMessages

Messages ==
  {m \in [role : Roles, n : Labels, calls : Seq(CallsMade), to : Ids, named : BOOLEAN,
          text : Texts, tells : SUBSET Labels] :
     /\ m.calls # <<>> => m.role = "assistant"
     /\ m.text \in {"long", "huge", "trimmed", "elided"} => IsTool(m)
     /\ m.role = "summary" => m.n = 0
     /\ m.tells # {} => m.role = "summary" \/ m.role = "user"
     /\ m.tells # {} => m.text = "brief"}
Pasts == [owed : SUBSET (Labels \ {0}), asked : Seq(Labels)]

ListTypes ==
  /\ list \in Seq(Messages) /\ disk \in Seq(Messages) /\ archive \subseteq Messages
  /\ past \in Pasts /\ diskPast \in Pasts
  /\ added \in 0..MaxMessages
ControlTypes ==
  /\ phase \in {"idle", "step", "tools", "review"} /\ then \in {"idle", "step"}
  /\ bounds \subseteq marks /\ marks \subseteq Nat
  /\ clean \in BOOLEAN

OpenBatch(i) == /\ i \in DOMAIN list /\ Asks(list[i]) /\ RunEnd(list, i) = Len(list)
                /\ Len(list) - i < Len(list[i].calls)
BatchInv == phase = "tools" => \E i \in DOMAIN list : OpenBatch(i)

LatchInv ==
  /\ latch \in [compacts : 0..2, stuck : BOOLEAN, noticed : BOOLEAN]
  /\ latch.stuck <=> latch.compacts = 2
  /\ row \in 0..latch.compacts

\* What the messages of a list say themselves, or tell in the user's place.
Firm(ms) == Numbers(ms) \cup UNION {m.tells : m \in {x \in Range(ms) : x.role = "user"}}
Boxed == {m.n : m \in archive}

OwedInv == past.owed \subseteq Firm(list) \cup Boxed /\ diskPast.owed \subseteq Firm(disk) \cup Boxed

AskedInv == /\ NumbersOf(UserTurns(list)) = past.asked
            /\ NumbersOf(UserTurns(disk)) = diskPast.asked

-----------------------------------------------------------------------------
(* What the messages of a list say, tell, and whether in the user's place. *)
Saying(m) == [n |-> m.n, tells |-> m.tells, user |-> m.role = "user"]
Says(ms) == {Saying(m) : m \in Range(ms)}

LEMMA SaysMore ==
  ASSUME NEW r, NEW s, Says(r) \subseteq Says(s)
  PROVE  Numbers(r) \subseteq Numbers(s) /\ Told(r) \subseteq Told(s) /\ Firm(r) \subseteq Firm(s)
<1>1. ASSUME NEW m \in Range(r)
      PROVE  \E o \in Range(s) : o.n = m.n /\ o.tells = m.tells /\ (o.role = "user" <=> m.role = "user")
  <2>1. Saying(m) \in Says(s)
    BY DEF Says
  <2>2. PICK o \in Range(s) : Saying(m) = Saying(o)
    BY <2>1 DEF Says
  <2> QED
    BY <2>2 DEF Saying
<1>2. Numbers(r) \subseteq Numbers(s)
  BY <1>1 DEF Numbers
<1>3. Told(r) \subseteq Told(s)
  BY <1>1 DEF Told
<1>4. UNION {m.tells : m \in {x \in Range(r) : x.role = "user"}}
      \subseteq UNION {m.tells : m \in {x \in Range(s) : x.role = "user"}}
  BY <1>1
<1> QED
  BY <1>2, <1>3, <1>4 DEF Firm

(* A nonempty set of numbers up to n has a greatest and a least one.       *)
LEMMA MaxMin ==
  ASSUME NEW n \in Nat, NEW S, S \subseteq 0..n, S # {}
  PROVE  /\ Max(S) \in S /\ \A x \in S : x <= Max(S)
         /\ Min(S) \in S /\ \A x \in S : Min(S) <= x
<1>1. PICK a \in S : \A x \in S : a <= x
  <2>1. S \subseteq Nat
    OBVIOUS
  <2> QED
    BY <2>1, LeastNumber
<1> DEFINE U == {m \in 0..n : \A x \in S : x <= m}
<1>2. U # {} /\ U \subseteq Nat
  <2>1. n \in U
    OBVIOUS
  <2> QED
    BY <2>1
<1>3. PICK b \in U : \A m \in U : b <= m
  BY <1>2, LeastNumber
<1>4. b \in S
  <2>1. SUFFICES ASSUME b \notin S PROVE FALSE
    OBVIOUS
  <2>2. b \in 0..n /\ \A x \in S : x <= b
    OBVIOUS
  <2>3. b > 0 /\ \A x \in S : x <= b - 1
    BY <2>1, <2>2
  <2>4. b - 1 \in U
    BY <2>2, <2>3
  <2> QED
    BY <1>3, <2>2, <2>4
<1>5. \A x \in S : b >= x
  OBVIOUS
<1> HIDE DEF U
<1>6. Max(S) \in S /\ \A x \in S : Max(S) >= x
  BY <1>4, <1>5 DEF Max
<1>7. Min(S) \in S /\ \A x \in S : Min(S) =< x
  BY <1>1 DEF Min
<1> QED
  BY <1>6, <1>7

(* The run of tool messages has one end.                                   *)
IsRunEnd(ms, i, j) ==
  /\ j \in i..Len(ms) /\ \A k \in (i + 1)..j : IsTool(ms[k])
  /\ j = Len(ms) \/ ~IsTool(ms[j + 1])

LEMMA RunEndIs ==
  ASSUME NEW T, NEW ms \in Seq(T), NEW i \in DOMAIN ms
  PROVE  IsRunEnd(ms, i, RunEnd(ms, i))
<1>0. i \in 1..Len(ms) /\ Len(ms) \in Nat
  OBVIOUS
<1> DEFINE S == {j \in i..Len(ms) : \A k \in (i + 1)..j : IsTool(ms[k])}
<1>1. i \in S /\ S \subseteq 0..Len(ms)
  BY <1>0
<1>2. Max(S) \in S /\ \A j \in S : j <= Max(S)
  <2> HIDE DEF S
  <2> QED
    BY <1>0, <1>1, MaxMin
<1> DEFINE j == Max(S)
<1>3. j \in i..Len(ms) /\ \A k \in (i + 1)..j : IsTool(ms[k])
  BY <1>2
<1>4. ASSUME j # Len(ms), IsTool(ms[j + 1]) PROVE FALSE
  <2>1. j + 1 \in i..Len(ms) /\ j + 1 > j
    BY <1>0, <1>3, <1>4
  <2>2. \A k \in (i + 1)..(j + 1) : k \in (i + 1)..j \/ k = j + 1
    BY <1>0, <1>3
  <2>3. j + 1 \in S
    BY <2>1, <2>2, <1>3, <1>4
  <2> QED
    BY <2>1, <2>3, <1>2, <1>3, <1>0
<1>5. \E e \in i..Len(ms) : /\ \A k \in (i + 1)..e : IsTool(ms[k])
                            /\ e = Len(ms) \/ ~IsTool(ms[e + 1])
  BY <1>3, <1>4
<1> QED
  BY <1>5 DEF RunEnd, IsRunEnd

LEMMA OneRunEnd ==
  ASSUME NEW T, NEW ms \in Seq(T), NEW i \in DOMAIN ms, NEW j, IsRunEnd(ms, i, j)
  PROVE  RunEnd(ms, i) = j
<1>1. /\ IsRunEnd(ms, i, RunEnd(ms, i)) /\ i \in 1..Len(ms) /\ Len(ms) \in Nat
  BY RunEndIs
<1> DEFINE e == RunEnd(ms, i)
<1>2. e \in Int /\ j \in Int /\ e \in i..Len(ms) /\ j \in i..Len(ms)
  BY <1>1 DEF IsRunEnd
<1>3. ~(e < j)
  <2> SUFFICES ASSUME e < j PROVE FALSE
    OBVIOUS
  <2>1. e + 1 \in (i + 1)..j /\ e # Len(ms)
    BY <1>1, <1>2
  <2> QED
    BY <2>1, <1>1 DEF IsRunEnd
<1>4. ~(j < e)
  <2> SUFFICES ASSUME j < e PROVE FALSE
    OBVIOUS
  <2>1. j + 1 \in (i + 1)..e /\ j # Len(ms)
    BY <1>1, <1>2
  <2> QED
    BY <2>1, <1>1 DEF IsRunEnd
<1> QED
  BY <1>2, <1>3, <1>4

-----------------------------------------------------------------------------
(* The parts of a list.                                                    *)

LEMMA PlanCuts ==
  ASSUME NEW T, NEW ms \in Seq(T)
  PROVE  /\ Plan(ms).head \in 0..Len(ms) /\ Plan(ms).start \in Plan(ms).head..Len(ms)
         /\ Plan(ms).ok <=> Plan(ms).start > Plan(ms).head
<1> DEFINE n == Len(ms)
           head == PinnedPrefixLen(ms)
<1>0. n \in Nat
  OBVIOUS
<1>1. head \in 0..n
  <2> DEFINE first == IF ms # <<>> /\ PinnableUserTurn(ms[1]) THEN 1 ELSE 0
             S == {h \in first..n : \A i \in (first + 1)..h : IsSummary(ms[i])}
  <2>1. first \in 0..n
    OBVIOUS
  <2>2. first \in S /\ S \subseteq 0..n
    BY <2>1, <1>0
  <2>3. Max(S) \in S
    <3> HIDE DEF S, first, n
    <3> QED
      BY <1>0, <2>2, MaxMin
  <2>4. head = Max(S)
    BY DEF PinnedPrefixLen
  <2> HIDE DEF S, head
  <2> QED
    BY <2>2, <2>3, <2>4
<1> DEFINE start == TailStart(ms, head)
<1>2. start \in 0..n
  <2> DEFINE fits == {i \in (head + 1)..(n - 1) : n - i <= MinKeep \/ WeightFrom(ms, i) <= TailBudget}
             s == IF fits = {} THEN n ELSE Min(fits)
  <2>1. s \in head..n
    <3>1. fits \subseteq 0..n /\ fits \subseteq head..n
      BY <1>0, <1>1
    <3> HIDE DEF fits
    <3>2. CASE fits = {}
      BY <1>0, <1>1, <3>2
    <3>3. CASE fits # {}
      <4> HIDE DEF n
      <4>1. Min(fits) \in fits
        BY <1>0, <3>1, <3>3, MaxMin
      <4> QED
        BY <3>1, <3>3, <4>1
    <3> QED
      BY <3>2, <3>3
  <2>2. start = AlignedStart(ms, head, s)
    BY DEF TailStart
  <2> DEFINE J == {j \in head..s : j = head \/ ~IsTool(ms[j + 1])}
  <2> HIDE DEF s, head, start, n
  <2>3. Max(J) \in J
    <3>1. head \in J /\ J \subseteq 0..n
      BY <1>0, <1>1, <2>1
    <3> HIDE DEF J
    <3> QED
      BY <1>0, <3>1, MaxMin
  <2>4. start = s \/ start = Max(J)
    BY <2>2 DEF AlignedStart
  <2> QED
    BY <1>0, <1>1, <2>1, <2>3, <2>4
<1> HIDE DEF head, start
<1>3. Plan(ms) = [head |-> head, start |-> IF start < head THEN head ELSE start, ok |-> start > head]
  BY DEF Plan, head, start
<1>4. /\ Plan(ms).head = head /\ Plan(ms).start = (IF start < head THEN head ELSE start)
      /\ Plan(ms).ok <=> start > head
  <2>1. Plan(ms).ok = (start > head)
    BY <1>3
  <2>2. Plan(ms).ok <=> start > head
    BY <2>1, Zenon
  <2> QED
    BY <1>3, <2>2
<1>5. head \in Int /\ start \in Int /\ head \in 0..Len(ms) /\ start \in 0..Len(ms)
  BY <1>0, <1>1, <1>2
<1>6. CASE start < head
  BY <1>4, <1>5, <1>6
<1>7. CASE ~(start < head)
  BY <1>4, <1>5, <1>7
<1> QED
  BY <1>6, <1>7

LEMMA PartsJoin ==
  ASSUME NEW T, NEW ms \in Seq(T)
  PROVE  LET p == Parts(ms)
         IN /\ p.head \in Seq(T) /\ p.region \in Seq(T) /\ p.tail \in Seq(T)
            /\ ms = (p.head \o p.region) \o p.tail
            /\ p.ok \in BOOLEAN
<1> DEFINE h == Plan(ms).head
           s == Plan(ms).start
<1>1. h \in 0..Len(ms) /\ s \in h..Len(ms) /\ Plan(ms).ok \in BOOLEAN
  <2>1. Plan(ms).ok \in BOOLEAN
    BY DEF Plan
  <2> QED
    BY <2>1, PlanCuts
<1>2. /\ Parts(ms).head = SubSeq(ms, 1, h) /\ Parts(ms).region = SubSeq(ms, h + 1, s)
      /\ Parts(ms).tail = SubSeq(ms, s + 1, Len(ms)) /\ Parts(ms).ok = Plan(ms).ok
  BY DEF Parts
<1> HIDE DEF h, s
<1>3. /\ SubSeq(ms, 1, h) \in Seq(T) /\ SubSeq(ms, h + 1, s) \in Seq(T)
      /\ SubSeq(ms, s + 1, Len(ms)) \in Seq(T)
  BY <1>1
<1>4. ms = (SubSeq(ms, 1, h) \o SubSeq(ms, h + 1, s)) \o SubSeq(ms, s + 1, Len(ms))
  <2>1. SubSeq(ms, 1, h) \o SubSeq(ms, h + 1, s) = SubSeq(ms, 1, s)
    BY <1>1, ConcatAdjacentSubSeq
  <2>2. SubSeq(ms, 1, s) \o SubSeq(ms, s + 1, Len(ms)) = SubSeq(ms, 1, Len(ms))
    <3>1. Len(ms) \in s..Len(ms) /\ s \in 0..Len(ms) /\ 1 \in 1..(Len(ms) + 1)
      BY <1>1
    <3>2. s \in (1 - 1)..Len(ms)
      BY <3>1
    <3> QED
      BY <3>1, <3>2, ConcatAdjacentSubSeq
  <2>3. SubSeq(ms, 1, Len(ms)) = ms
    BY SubSeqFull
  <2> QED
    BY <2>1, <2>2, <2>3
<1> QED
  BY <1>1, <1>2, <1>3, <1>4

-----------------------------------------------------------------------------
(* The turns of the user.                                                  *)

Turns == {m \in Messages : IsUserTurn(m)}

LEMMA TurnsOnly ==
  ASSUME NEW ms \in Seq(Messages)
  PROVE  UserTurns(ms) = Only(ms, Turns) /\ UserTurns(ms) \in Seq(Messages)
<1>1. Range(ms) \subseteq Messages
  BY RangeOfSeq
<1>2. Range(ms) \cap {m \in Range(ms) : IsUserTurn(m)} = Range(ms) \cap Turns
  BY <1>1 DEF Turns
<1>3. UserTurns(ms) = Only(ms, Turns)
  BY <1>2, OnlySame DEF UserTurns
<1> QED
  BY <1>3, PiecesType

LEMMA TurnsConcat ==
  ASSUME NEW r \in Seq(Messages), NEW s \in Seq(Messages)
  PROVE  UserTurns(r \o s) = UserTurns(r) \o UserTurns(s)
<1>1. r \o s \in Seq(Messages)
  OBVIOUS
<1>2. Only(r \o s, Turns) = Only(r, Turns) \o Only(s, Turns)
  BY OnlyConcat
<1> QED
  BY <1>1, <1>2, TurnsOnly

LEMMA NoTurns ==
  ASSUME NEW ms \in Seq(Messages), \A m \in Range(ms) : ~IsUserTurn(m)
  PROVE  UserTurns(ms) = <<>>
<1>1. Range(ms) \cap Turns = {}
  BY DEF Turns
<1> QED
  BY <1>1, TurnsOnly, OnlyNone

LEMMA SaysConcat ==
  ASSUME NEW T, NEW r \in Seq(T), NEW s \in Seq(T)
  PROVE  Says(r \o s) = Says(r) \cup Says(s)
BY RangeConcatenation DEF Says

(* Results that are shortened say what they said.                          *)
LEMMA Shortened ==
  ASSUME NEW r \in Seq(Messages), NEW s \in Seq(Messages), Len(s) = Len(r),
         \A i \in DOMAIN r : \/ s[i] = r[i]
                             \/ /\ IsTool(r[i]) /\ IsTool(s[i])
                                /\ s[i].n = r[i].n /\ s[i].tells = r[i].tells
  PROVE  Says(s) = Says(r) /\ UserTurns(s) = UserTurns(r)
<1>1. DOMAIN r = DOMAIN s
  OBVIOUS
<1>2. \A i \in DOMAIN r : s[i].n = r[i].n /\ s[i].tells = r[i].tells /\ (s[i].role = "user" <=> r[i].role = "user")
  BY DEF IsTool
<1>3. Says(s) = Says(r)
  <2>1. ASSUME NEW i \in DOMAIN r PROVE Saying(s[i]) = Saying(r[i])
    <3>1. (s[i].role = "user") = (r[i].role = "user")
      BY <1>2, Zenon
    <3>2. s[i].n = r[i].n /\ s[i].tells = r[i].tells
      BY <1>2
    <3> QED
      BY <3>1, <3>2, Zenon DEF Saying
  <2>2. Says(s) = {Saying(s[i]) : i \in DOMAIN r} /\ Says(r) = {Saying(r[i]) : i \in DOMAIN r}
    BY <1>1 DEF Says, Range
  <2> QED
    BY <2>1, <2>2
<1>4. Pieces(s, Turns) = Pieces(r, Turns)
  <2>1. \A i \in DOMAIN r : (IF s[i] \in Turns THEN <<s[i]>> ELSE <<>>) = (IF r[i] \in Turns THEN <<r[i]>> ELSE <<>>)
    BY DEF Turns, IsUserTurn, IsTool
  <2> QED
    BY <1>1, <2>1 DEF Pieces
<1>5. Only(s, Turns) = Only(r, Turns)
  BY <1>4, PiecesType
<1> QED
  BY <1>3, <1>5, TurnsOnly

LEMMA TextChange ==
  ASSUME NEW m \in Messages, NEW t \in Texts, IsTool(m)
  PROVE  /\ [m EXCEPT !.text = t] \in Messages /\ IsTool([m EXCEPT !.text = t])
         /\ [m EXCEPT !.text = t].n = m.n /\ [m EXCEPT !.text = t].tells = m.tells
BY DEF Messages, IsTool, Texts, Roles

LEMMA TrimmedIs ==
  ASSUME NEW r \in Seq(Messages)
  PROVE  /\ SoftTrimmed(r) \in Seq(Messages)
         /\ Says(SoftTrimmed(r)) = Says(r) /\ UserTurns(SoftTrimmed(r)) = UserTurns(r)
<1> DEFINE s == SoftTrimmed(r)
<1>1. \A i \in DOMAIN r : s[i] = IF IsTool(r[i]) /\ r[i].text = "huge" THEN [r[i] EXCEPT !.text = "trimmed"] ELSE r[i]
  BY DEF SoftTrimmed
<1>2. DOMAIN s = 1..Len(r) /\ DOMAIN r = 1..Len(r) /\ Len(r) \in Nat
  BY DEF SoftTrimmed
<1>3. "trimmed" \in Texts
  BY DEF Texts
<1>4. \A i \in DOMAIN r : /\ s[i] \in Messages
                          /\ \/ s[i] = r[i]
                             \/ /\ IsTool(r[i]) /\ IsTool(s[i])
                                /\ s[i].n = r[i].n /\ s[i].tells = r[i].tells
  <2> SUFFICES ASSUME NEW i \in DOMAIN r
               PROVE  /\ s[i] \in Messages
                      /\ \/ s[i] = r[i]
                         \/ /\ IsTool(r[i]) /\ IsTool(s[i])
                            /\ s[i].n = r[i].n /\ s[i].tells = r[i].tells
    OBVIOUS
  <2>1. r[i] \in Messages
    BY <1>2
  <2> HIDE DEF s
  <2>2. s[i] = r[i] \/ (IsTool(r[i]) /\ s[i] = [r[i] EXCEPT !.text = "trimmed"])
    BY <1>1
  <2>3. IsTool(r[i]) =>
          LET w == [r[i] EXCEPT !.text = "trimmed"]
          IN w \in Messages /\ IsTool(w) /\ w.n = r[i].n /\ w.tells = r[i].tells
    BY <1>3, <2>1, TextChange
  <2> QED
    BY <2>1, <2>2, <2>3, Zenon
<1>5. s \in Seq(Messages) /\ Len(s) = Len(r)
  <2>1. s = [i \in 1..Len(r) |-> s[i]]
    BY <1>2 DEF SoftTrimmed
  <2> HIDE DEF s
  <2>2. s \in [1..Len(r) -> Messages]
    BY <2>1, <1>2, <1>4
  <2> QED
    BY <2>2, <1>2
<1> HIDE DEF s
<1>6. Says(s) = Says(r) /\ UserTurns(s) = UserTurns(r)
  BY <1>4, <1>5, Shortened
<1> QED
  BY <1>5, <1>6 DEF s

LEMMA PrunedIs ==
  ASSUME NEW r \in Seq(Messages)
  PROVE  /\ Pruned(r) \in Seq(Messages)
         /\ Says(Pruned(r)) = Says(r) /\ UserTurns(Pruned(r)) = UserTurns(r)
<1> DEFINE s == Pruned(r)
<1>1. \A i \in DOMAIN r : s[i] = IF IsStale(r[i]) THEN [r[i] EXCEPT !.text = "elided"] ELSE r[i]
  BY DEF Pruned
<1>2. DOMAIN s = 1..Len(r) /\ DOMAIN r = 1..Len(r) /\ Len(r) \in Nat
  BY DEF Pruned
<1>3. "elided" \in Texts
  BY DEF Texts
<1>4. \A i \in DOMAIN r : /\ s[i] \in Messages
                          /\ \/ s[i] = r[i]
                             \/ /\ IsTool(r[i]) /\ IsTool(s[i])
                                /\ s[i].n = r[i].n /\ s[i].tells = r[i].tells
  <2> SUFFICES ASSUME NEW i \in DOMAIN r
               PROVE  /\ s[i] \in Messages
                      /\ \/ s[i] = r[i]
                         \/ /\ IsTool(r[i]) /\ IsTool(s[i])
                            /\ s[i].n = r[i].n /\ s[i].tells = r[i].tells
    OBVIOUS
  <2>1. r[i] \in Messages
    BY <1>2
  <2> HIDE DEF s
  <2>2. s[i] = r[i] \/ (IsTool(r[i]) /\ s[i] = [r[i] EXCEPT !.text = "elided"])
    BY <1>1 DEF IsStale
  <2>3. IsTool(r[i]) =>
          LET w == [r[i] EXCEPT !.text = "elided"]
          IN w \in Messages /\ IsTool(w) /\ w.n = r[i].n /\ w.tells = r[i].tells
    BY <1>3, <2>1, TextChange
  <2> QED
    BY <2>1, <2>2, <2>3, Zenon
<1>5. s \in Seq(Messages) /\ Len(s) = Len(r)
  <2>1. s = [i \in 1..Len(r) |-> s[i]]
    BY <1>2 DEF Pruned
  <2> HIDE DEF s
  <2>2. s \in [1..Len(r) -> Messages]
    BY <2>1, <1>2, <1>4
  <2> QED
    BY <2>2, <1>2
<1> HIDE DEF s
<1>6. Says(s) = Says(r) /\ UserTurns(s) = UserTurns(r)
  BY <1>4, <1>5, Shortened
<1> QED
  BY <1>5, <1>6 DEF s

-----------------------------------------------------------------------------
(* Folds.                                                                  *)

LEMMA ZeroIsLabel == 0 \in Labels /\ Labels \subseteq Int
BY TranscriptBounds DEF Labels

LEMMA MessageIs ==
  ASSUME NEW role \in Roles, NEW n \in Labels, role = "summary" => n = 0
  PROVE  Message(role, n) \in Messages
<1>1. "brief" \in Texts /\ NoId \in Ids /\ <<>> \in Seq(CallsMade) /\ {} \in SUBSET Labels /\ FALSE \in BOOLEAN
  BY DEF Texts, Ids
<1> QED
  BY <1>1 DEF Message, Messages, IsTool

LEMMA SummaryIs ==
  ASSUME NEW tells \in SUBSET Labels
  PROVE  Summary(tells) \in Messages /\ IsSummary(Summary(tells)) /\ Summary(tells).tells = tells
<1>1. Message("summary", 0) \in Messages
  BY ZeroIsLabel, MessageIs DEF Roles
<1> QED
  BY <1>1 DEF Summary, Message, Messages, IsSummary, IsTool

LEMMA PreviousIs ==
  ASSUME NEW T, NEW ms \in Seq(T)
  PROVE  LET p == Parts(ms)
         IN PreviousSummary(p) = 0 \/ /\ PreviousSummary(p) \in DOMAIN p.head
                                      /\ IsSummary(p.head[PreviousSummary(p)])
<1> DEFINE head == Parts(ms).head
           S == {0} \cup {i \in DOMAIN head : IsSummary(head[i])}
<1>1. head \in Seq(T)
  BY PartsJoin
<1> HIDE DEF head
<1>2. S \subseteq 0..Len(head) /\ S # {} /\ Len(head) \in Nat
  BY <1>1
<1>3. Max(S) \in S
  <2> HIDE DEF S
  <2> QED
    BY <1>2, MaxMin
<1>4. PreviousSummary(Parts(ms)) = 0 \/ PreviousSummary(Parts(ms)) = Max(S)
  BY DEF PreviousSummary, S, head
<1>5. PreviousSummary(Parts(ms)) = 0 \/ /\ PreviousSummary(Parts(ms)) \in DOMAIN head
                                        /\ IsSummary(head[PreviousSummary(Parts(ms))])
  BY <1>3, <1>4
<1> QED
  BY <1>5 DEF head

LEMMA RangeOfThree ==
  ASSUME NEW T, NEW a \in Seq(T), NEW b \in Seq(T), NEW c \in Seq(T)
  PROVE  Range((a \o b) \o c) = Range(a) \cup Range(b) \cup Range(c)
<1> DEFINE d == a \o b
<1>1. d \in Seq(T)
  OBVIOUS
<1>2. Range(d) = Range(a) \cup Range(b)
  BY RangeConcatenation
<1> HIDE DEF d
<1>3. Range(d \o c) = Range(d) \cup Range(c)
  BY <1>1, RangeConcatenation
<1> QED
  BY <1>2, <1>3 DEF d

(* A list without one of its messages.                                     *)
LEMMA RemoveAtIs ==
  ASSUME NEW T, NEW s \in Seq(T), NEW i \in DOMAIN s
  PROVE  /\ SubSeq(s, 1, i - 1) \in Seq(T) /\ SubSeq(s, i + 1, Len(s)) \in Seq(T) /\ <<s[i]>> \in Seq(T)
         /\ RemoveAt(s, i) = SubSeq(s, 1, i - 1) \o SubSeq(s, i + 1, Len(s))
         /\ s = (SubSeq(s, 1, i - 1) \o <<s[i]>>) \o SubSeq(s, i + 1, Len(s))
<1>0. i \in 1..Len(s) /\ Len(s) \in Nat /\ s[i] \in T
  OBVIOUS
<1>1. SubSeq(s, 1, i - 1) \in Seq(T) /\ SubSeq(s, i + 1, Len(s)) \in Seq(T) /\ <<s[i]>> \in Seq(T)
  BY <1>0
<1>2. SubSeq(s, 1, i) = SubSeq(s, 1, i - 1) \o <<s[i]>>
  <2>1. 1 \in 1..Len(s) /\ i \in 1..Len(s)
    BY <1>0
  <2> QED
    BY <2>1, SubSeqRecursiveSecond
<1>3. SubSeq(s, 1, i) \o SubSeq(s, i + 1, Len(s)) = SubSeq(s, 1, Len(s))
  <2>1. Len(s) \in i..Len(s) /\ 1 \in 1..(Len(s) + 1) /\ i \in (1 - 1)..Len(s)
    BY <1>0
  <2> QED
    BY <2>1, ConcatAdjacentSubSeq
<1>4. SubSeq(s, 1, Len(s)) = s
  BY SubSeqFull
<1> QED
  BY <1>1, <1>2, <1>3, <1>4 DEF RemoveAt

\* The pinned messages, without the summary that is replaced.
Pinned(p) == IF PreviousSummary(p) = 0 THEN p.head ELSE RemoveAt(p.head, PreviousSummary(p))

LEMMA PinnedIs ==
  ASSUME NEW ms \in Seq(Messages)
  PROVE  LET p == Parts(ms)
         IN /\ Pinned(p) \in Seq(Messages) /\ UserTurns(Pinned(p)) = UserTurns(p.head)
            /\ \A m \in Range(p.head) : m \in Range(Pinned(p)) \/ (IsSummary(m) /\ m.tells \subseteq Previous(p))
            /\ Previous(p) \subseteq Labels
<1> DEFINE p == Parts(ms)
           i == PreviousSummary(p)
           h == p.head
<1>1. h \in Seq(Messages)
  BY PartsJoin
<1>2. i = 0 \/ (i \in DOMAIN h /\ IsSummary(h[i]))
  BY PreviousIs
<1>3. /\ Pinned(p) = (IF i = 0 THEN h ELSE RemoveAt(h, i))
      /\ Previous(p) = (IF i = 0 THEN {} ELSE h[i].tells)
  BY DEF Pinned, Previous
<1> HIDE DEF h, i, p
<1>4. CASE i = 0
  BY <1>1, <1>3, <1>4 DEF h, p
<1>5. CASE i # 0
  <2> DEFINE a == SubSeq(h, 1, i - 1)
             b == SubSeq(h, i + 1, Len(h))
  <2>0. i \in DOMAIN h /\ IsSummary(h[i]) /\ h[i] \in Messages
    BY <1>1, <1>2, <1>5
  <2>1. a \in Seq(Messages) /\ b \in Seq(Messages) /\ <<h[i]>> \in Seq(Messages)
        /\ Pinned(p) = a \o b /\ h = (a \o <<h[i]>>) \o b
    BY <1>1, <1>3, <1>5, <2>0, RemoveAtIs
  <2> HIDE DEF a, b
  <2> DEFINE c == <<h[i]>>
  <2>2. Range(c) = {h[i]}
    BY DEF Range
  <2>3. UserTurns(c) = <<>>
    <3>1. \A m \in Range(c) : ~IsUserTurn(m)
      BY <2>2, <2>0 DEF IsUserTurn, IsSummary
    <3> QED
      BY <3>1, <2>1, NoTurns
  <2>4. c \in Seq(Messages)
    BY <2>1
  <2> HIDE DEF c
  <2>5. a \o b \in Seq(Messages) /\ a \o c \in Seq(Messages)
    BY <2>1, <2>4
  <2>6. UserTurns(h) = UserTurns(a \o c) \o UserTurns(b) /\ UserTurns(a \o c) = UserTurns(a) \o UserTurns(c)
    <3>1. h = (a \o c) \o b
      BY <2>1 DEF c
    <3>2. UserTurns((a \o c) \o b) = UserTurns(a \o c) \o UserTurns(b)
      BY <2>1, <2>5, TurnsConcat
    <3>3. UserTurns(a \o c) = UserTurns(a) \o UserTurns(c)
      BY <2>1, <2>4, TurnsConcat
    <3> QED
      BY <3>1, <3>2, <3>3
  <2>7. UserTurns(a) \in Seq(Messages) /\ UserTurns(a) \o <<>> = UserTurns(a)
    BY <2>1, TurnsOnly, ConcatEmptySeq
  <2>8. UserTurns(Pinned(p)) = UserTurns(a) \o UserTurns(b)
    BY <2>1, TurnsConcat
  <2>9. Range(h) = Range(a) \cup Range(c) \cup Range(b) /\ Range(Pinned(p)) = Range(a) \cup Range(b)
    <3>1. h = (a \o c) \o b
      BY <2>1 DEF c
    <3>2. Range((a \o c) \o b) = Range(a) \cup Range(c) \cup Range(b)
      BY <2>1, <2>4, RangeOfThree
    <3>4. Range(a \o b) = Range(a) \cup Range(b)
      BY <2>1, RangeConcatenation
    <3> QED
      BY <3>1, <3>2, <3>4, <2>1
  <2>10. h[i].tells \subseteq Labels
    BY <2>0 DEF Messages
  <2>11. Pinned(p) \in Seq(Messages) /\ UserTurns(Pinned(p)) = UserTurns(h)
    BY <2>1, <2>3, <2>5, <2>6, <2>7, <2>8
  <2>12. \A m \in Range(h) : m \in Range(Pinned(p)) \/ (IsSummary(m) /\ m.tells \subseteq Previous(p))
    BY <2>0, <2>2, <2>9, <1>3, <1>5
  <2> QED
    BY <2>10, <2>11, <2>12, <1>3, <1>5 DEF h, p
<1> QED
  BY <1>4, <1>5

LEMMA NumbersAre ==
  ASSUME NEW ms \in Seq(Messages) PROVE Numbers(ms) \subseteq Labels /\ Told(ms) \subseteq Labels
<1>1. Range(ms) \subseteq Messages
  BY RangeOfSeq
<1> QED
  BY <1>1 DEF Numbers, Told, Messages

LEMMA FoldIs ==
  ASSUME NEW ms \in Seq(Messages), NEW tells \in Digests(Parts(ms))
  PROVE  LET p  == Parts(ms)
             fl == FoldedList(p, tells)
         IN /\ fl \in Seq(Messages) /\ UserTurns(fl) = UserTurns(ms)
            /\ Summary(tells) \in Range(fl) /\ tells \subseteq Labels
            /\ Range(Folded(p)) \subseteq Messages
            /\ \A m \in Range(ms) : \/ m \in Range(fl)
                                    \/ m \in Range(Folded(p)) /\ ~Keeps(m) /\ m.tells \subseteq Digest(p)
                                    \/ IsSummary(m) /\ m.tells \subseteq Digest(p)
<1> DEFINE p == Parts(ms)
           fl == FoldedList(p, tells)
           c == <<Summary(tells)>>
           hd == Pinned(p)
           k == Kept(p)
<1>1. /\ p.head \in Seq(Messages) /\ p.region \in Seq(Messages) /\ p.tail \in Seq(Messages)
      /\ ms = (p.head \o p.region) \o p.tail
  BY PartsJoin
<1>2. /\ hd \in Seq(Messages) /\ UserTurns(hd) = UserTurns(p.head)
      /\ \A m \in Range(p.head) : m \in Range(hd) \/ (IsSummary(m) /\ m.tells \subseteq Previous(p))
      /\ Previous(p) \subseteq Labels
  BY PinnedIs
<1>3. Digest(p) \subseteq Labels /\ tells \subseteq Labels
  <2> HIDE DEF p
  <2>1. Digest(p) \subseteq Labels
    BY <1>1, <1>2, NumbersAre DEF Digest
  <2> QED
    BY <2>1 DEF Digests, p
<1>4. Range(c) = {Summary(tells)} /\ c \in Seq(Messages) /\ UserTurns(c) = <<>>
  <2>1. Summary(tells) \in Messages /\ IsSummary(Summary(tells))
    BY <1>3, SummaryIs
  <2>2. Range(c) = {Summary(tells)}
    BY DEF Range
  <2>3. c \in Seq(Messages)
    BY <2>1
  <2>4. ~IsUserTurn(Summary(tells))
    BY <2>1 DEF IsUserTurn, IsSummary
  <2>5. \A m \in Range(c) : ~IsUserTurn(m)
    BY <2>2, <2>4
  <2> HIDE DEF c
  <2> QED
    BY <2>2, <2>3, <2>5, NoTurns
<1>5. fl = ((hd \o k) \o c) \o p.tail
  BY DEF FoldedList, Pinned
<1> HIDE DEF c, hd, fl, p, k
<1>6. /\ k \in Seq(Messages) /\ Range(k) = {m \in Range(p.region) : Keeps(m)}
      /\ Folded(p) \in Seq(Messages) /\ Range(Folded(p)) = {m \in Range(p.region) : ~Keeps(m)}
  <2>1. /\ Range(Only(p.region, {m \in Range(p.region) : Keeps(m)}))
             = Range(p.region) \cap {m \in Range(p.region) : Keeps(m)}
        /\ Only(p.region, {m \in Range(p.region) : Keeps(m)}) \in Seq(Messages)
    BY <1>1, OnlyRange, PiecesType
  <2>2. /\ Range(Only(p.region, {m \in Range(p.region) : ~Keeps(m)}))
             = Range(p.region) \cap {m \in Range(p.region) : ~Keeps(m)}
        /\ Only(p.region, {m \in Range(p.region) : ~Keeps(m)}) \in Seq(Messages)
    BY <1>1, OnlyRange, PiecesType
  <2> QED
    BY <2>1, <2>2 DEF k, Kept, Folded
<1>7. UserTurns(k) = UserTurns(p.region)
  <2> DEFINE S == {m \in Range(p.region) : Keeps(m)}
             R == Turns \cap Range(p.region)
  <2>0. p.region \in Seq(Range(p.region))
    BY <1>1, SeqOfRange
  <2>1. R \cap Range(p.region) \subseteq S
    BY DEF Turns, IsUserTurn, Keeps, PinnableUserTurn
  <2>2. Only(Only(p.region, S), R) = Only(p.region, R)
    <3> HIDE DEF R, S
    <3> QED
      BY <2>0, <2>1, OnlyTwice
  <2>3. Only(p.region, R) = Only(p.region, Turns)
    <3>1. Range(p.region) \cap R = Range(p.region) \cap Turns
      OBVIOUS
    <3> QED
      BY <3>1, <1>1, OnlySame
  <2>4. Only(k, R) = Only(k, Turns)
    <3>1. Range(k) \cap R = Range(k) \cap Turns
      BY <1>6
    <3> QED
      BY <3>1, <1>6, OnlySame
  <2>5. k = Only(p.region, S)
    BY DEF k, Kept
  <2>6. Only(k, Turns) = Only(p.region, Turns)
    <3> HIDE DEF R, S
    <3> QED
      BY <2>2, <2>3, <2>4, <2>5
  <2> QED
    BY <2>6, <1>1, <1>6, TurnsOnly
<1>8. hd \o k \in Seq(Messages) /\ (hd \o k) \o c \in Seq(Messages) /\ fl \in Seq(Messages)
      /\ p.head \o p.region \in Seq(Messages)
  BY <1>1, <1>2, <1>4, <1>5, <1>6
<1>9. UserTurns(fl) = UserTurns(ms)
  <2>1. UserTurns(fl) = UserTurns((hd \o k) \o c) \o UserTurns(p.tail)
    BY <1>1, <1>5, <1>8, TurnsConcat
  <2>2. UserTurns((hd \o k) \o c) = UserTurns(hd \o k) \o UserTurns(c)
    BY <1>4, <1>8, TurnsConcat
  <2>3. UserTurns(hd \o k) = UserTurns(hd) \o UserTurns(k)
    BY <1>2, <1>6, TurnsConcat
  <2>4. UserTurns(ms) = UserTurns(p.head \o p.region) \o UserTurns(p.tail)
    BY <1>1, <1>8, TurnsConcat
  <2>5. UserTurns(p.head \o p.region) = UserTurns(p.head) \o UserTurns(p.region)
    BY <1>1, TurnsConcat
  <2>6. UserTurns(hd \o k) \in Seq(Messages)
    BY <1>8, TurnsOnly
  <2>7. UserTurns(hd \o k) \o <<>> = UserTurns(hd \o k)
    BY <2>6, ConcatEmptySeq
  <2> QED
    BY <2>1, <2>2, <2>3, <2>4, <2>5, <2>7, <1>2, <1>4, <1>7
<1>10. Range(fl) = Range(hd) \cup Range(k) \cup Range(c) \cup Range(p.tail)
  <2>1. Range(fl) = Range((hd \o k) \o c) \cup Range(p.tail)
    <3> DEFINE v == (hd \o k) \o c
               w == p.tail
    <3>1. v \in Seq(Messages) /\ w \in Seq(Messages)
      BY <1>1, <1>8
    <3>2. fl = v \o w
      BY <1>5
    <3> HIDE DEF v, w, fl
    <3>3. Range(v \o w) = Range(v) \cup Range(w)
      BY <3>1, RangeConcatenation
    <3> QED
      BY <3>2, <3>3 DEF v, w
  <2>2. Range((hd \o k) \o c) = Range(hd) \cup Range(k) \cup Range(c)
    BY <1>2, <1>4, <1>6, RangeOfThree
  <2> QED
    BY <2>1, <2>2
<1>11. Range(ms) = Range(p.head) \cup Range(p.region) \cup Range(p.tail)
  <2>1. Range((p.head \o p.region) \o p.tail) = Range(p.head) \cup Range(p.region) \cup Range(p.tail)
    BY <1>1, RangeOfThree
  <2> QED
    BY <2>1, <1>1
<1>12. Previous(p) \subseteq Digest(p) /\ \A m \in Range(p.region) : m.tells \subseteq Digest(p)
  BY DEF Digest, Told
<1>13. \A m \in Range(ms) : \/ m \in Range(fl)
                            \/ m \in Range(Folded(p)) /\ ~Keeps(m) /\ m.tells \subseteq Digest(p)
                            \/ IsSummary(m) /\ m.tells \subseteq Digest(p)
  <2> SUFFICES ASSUME NEW m \in Range(ms), m \notin Range(fl)
               PROVE  \/ m \in Range(Folded(p)) /\ ~Keeps(m) /\ m.tells \subseteq Digest(p)
                      \/ IsSummary(m) /\ m.tells \subseteq Digest(p)
    OBVIOUS
  <2>1. CASE m \in Range(p.head)
    BY <2>1, <1>2, <1>10, <1>12
  <2>2. CASE m \in Range(p.region)
    BY <2>2, <1>6, <1>10, <1>12
  <2>3. CASE m \in Range(p.tail)
    BY <2>3, <1>10
  <2> QED
    BY <2>1, <2>2, <2>3, <1>11
<1>14. Summary(tells) \in Range(fl) /\ Range(Folded(p)) \subseteq Messages
  BY <1>4, <1>6, <1>10, RangeOfSeq
<1> QED
  BY <1>3, <1>8, <1>9, <1>13, <1>14 DEF fl, p

-----------------------------------------------------------------------------
(* Loads.                                                                  *)

LEMMA FunctionIsSeq ==
  ASSUME NEW T, NEW n \in Nat, NEW f \in [1..n -> T]
  PROVE  f \in Seq(T) /\ Len(f) = n /\ DOMAIN f = 1..n
OBVIOUS

\* The choice from each of the lists.
Each(ss, S) == [i \in DOMAIN ss |-> Only(ss[i], S)]

LEMMA EachType ==
  ASSUME NEW T, NEW ss \in Seq(Seq(T)), NEW S
  PROVE  Each(ss, S) \in Seq(Seq(T)) /\ DOMAIN Each(ss, S) = DOMAIN ss
<1>1. \A i \in 1..Len(ss) : Only(ss[i], S) \in Seq(T)
  <2> SUFFICES ASSUME NEW i \in 1..Len(ss) PROVE Only(ss[i], S) \in Seq(T)
    OBVIOUS
  <2>1. ss[i] \in Seq(T)
    OBVIOUS
  <2> QED
    BY <2>1, PiecesType
<1>2. Len(ss) \in Nat /\ DOMAIN ss = 1..Len(ss)
  OBVIOUS
<1>3. Each(ss, S) \in [1..Len(ss) -> Seq(T)]
  BY <1>1, <1>2 DEF Each
<1> QED
  BY <1>2, <1>3, FunctionIsSeq

LEMMA OnlyFlatten ==
  ASSUME NEW T, NEW S
  PROVE  \A ss \in Seq(Seq(T)) : Only(FlattenSeq(ss), S) = FlattenSeq(Each(ss, S))
<1> DEFINE G == {ss \in Seq(Seq(T)) : Only(FlattenSeq(ss), S) = FlattenSeq(Each(ss, S))}
<1>1. <<>> \in G
  <2>1. Each(<<>>, S) = <<>>
    BY DEF Each
  <2> QED
    BY <2>1, FlattenEmpty, OnlyEmpty
<1>2. ASSUME NEW ss \in Seq(Seq(T)), NEW s \in Seq(T), ss \in G PROVE Append(ss, s) \in G
  <2>1. FlattenSeq(Append(ss, s)) = FlattenSeq(ss) \o s /\ FlattenSeq(ss) \in Seq(T)
    BY FlattenAppend, FlattenType
  <2>2. Only(FlattenSeq(ss) \o s, S) = Only(FlattenSeq(ss), S) \o Only(s, S)
    BY <2>1, OnlyConcat
  <2>3. Only(FlattenSeq(ss), S) = FlattenSeq(Each(ss, S))
    BY <1>2
  <2>4. Each(ss, S) \in Seq(Seq(T)) /\ Only(s, S) \in Seq(T)
    BY EachType, PiecesType
  <2>5. Each(Append(ss, s), S) = Append(Each(ss, S), Only(s, S))
    <3> DEFINE p == Each(Append(ss, s), S)
               q == Append(Each(ss, S), Only(s, S))
    <3>1. Append(ss, s) \in Seq(Seq(T))
      OBVIOUS
    <3>2. p \in Seq(Seq(T)) /\ DOMAIN p = DOMAIN Append(ss, s)
      BY <3>1, EachType
    <3>3. q \in Seq(Seq(T)) /\ Len(q) = Len(ss) + 1
      <4>1. DOMAIN Each(ss, S) = DOMAIN ss /\ Len(Each(ss, S)) = Len(ss)
        BY <2>4 DEF Each
      <4> QED
        BY <2>4, <4>1
    <3>4. Len(p) = Len(ss) + 1
      BY <3>2
    <3>5. ASSUME NEW i \in 1..(Len(ss) + 1) PROVE p[i] = q[i]
      <4>0. Len(Each(ss, S)) = Len(ss) /\ Len(ss) \in Nat
        BY <2>4 DEF Each
      <4>1. CASE i = Len(ss) + 1
        <5>1. Append(ss, s)[i] = s /\ i \in DOMAIN Append(ss, s)
          BY <4>1
        <5>2. p[i] = Only(s, S)
          BY <5>1 DEF Each
        <5>3. q[i] = Only(s, S)
          BY <2>4, <4>0, <4>1
        <5> QED
          BY <5>2, <5>3
      <4>2. CASE i # Len(ss) + 1
        <5>1. Append(ss, s)[i] = ss[i] /\ i \in DOMAIN Append(ss, s) /\ i \in DOMAIN ss
          BY <4>2
        <5>2. p[i] = Only(ss[i], S)
          BY <5>1 DEF Each
        <5>3. q[i] = Each(ss, S)[i]
          BY <2>4, <4>0, <4>2
        <5> QED
          BY <5>1, <5>2, <5>3 DEF Each
      <4> QED
        BY <4>1, <4>2
    <3> HIDE DEF p, q
    <3>6. p = q
      BY <3>2, <3>3, <3>4, <3>5, SeqEqual
    <3> QED
      BY <3>6 DEF p, q
  <2>6. FlattenSeq(Append(Each(ss, S), Only(s, S))) = FlattenSeq(Each(ss, S)) \o Only(s, S)
    BY <2>4, FlattenAppend
  <2>7. Only(FlattenSeq(Append(ss, s)), S) = FlattenSeq(Each(Append(ss, s), S))
    <3> HIDE DEF G
    <3> QED
      BY <2>1, <2>2, <2>3, <2>5, <2>6
  <2> QED
    BY <2>7
<1> HIDE DEF G
<1>3. \A ss \in Seq(Seq(T)) : ss \in G
  BY <1>1, <1>2, ListInduction
<1> QED
  BY <1>3 DEF G

(* The calls of a turn after their repair.                                 *)
LEMMA CallsRepaired ==
  ASSUME NEW calls \in Seq(CallsMade), NEW results
  PROVE  LET cs == RepairToolCallArgs(BackfillToolCallNames(calls, results))
         IN /\ cs \in Seq(CallsMade) /\ Len(cs) = Len(calls)
            /\ \A k \in DOMAIN calls : cs[k].id = calls[k].id /\ cs[k].cut = FALSE
<1> DEFINE bs == BackfillToolCallNames(calls, results)
           cs == RepairToolCallArgs(bs)
<1>0. DOMAIN calls = 1..Len(calls) /\ Len(calls) \in Nat
  OBVIOUS
<1>1. \A k \in DOMAIN calls : calls[k] \in CallsMade /\ NameKnown(calls, results, k) \in BOOLEAN
  <2> SUFFICES ASSUME NEW k \in DOMAIN calls PROVE NameKnown(calls, results, k) \in BOOLEAN
    OBVIOUS
  <2> QED
    BY Zenon DEF NameKnown
<1>2. bs = [k \in 1..Len(calls) |-> [calls[k] EXCEPT !.named = NameKnown(calls, results, k)]]
  BY <1>0 DEF BackfillToolCallNames
<1>3. \A k \in 1..Len(calls) : /\ [calls[k] EXCEPT !.named = NameKnown(calls, results, k)] \in CallsMade
                               /\ [calls[k] EXCEPT !.named = NameKnown(calls, results, k)].id = calls[k].id
  <2> SUFFICES ASSUME NEW k \in 1..Len(calls), NEW b \in BOOLEAN
               PROVE  [calls[k] EXCEPT !.named = b] \in CallsMade /\ [calls[k] EXCEPT !.named = b].id = calls[k].id
    BY <1>0, <1>1
  <2> QED
    BY <1>0, <1>1 DEF CallsMade
<1>4. \A k \in 1..Len(calls) : bs[k] \in CallsMade /\ bs[k].id = calls[k].id
  BY <1>2, <1>3
<1>5. DOMAIN bs = 1..Len(calls)
  BY <1>2
<1> HIDE DEF bs
<1>6. cs = [k \in 1..Len(calls) |-> [bs[k] EXCEPT !.cut = FALSE]]
  BY <1>5 DEF RepairToolCallArgs
<1>7. \A k \in 1..Len(calls) : cs[k] \in CallsMade /\ cs[k].id = calls[k].id /\ cs[k].cut = FALSE
  <2> SUFFICES ASSUME NEW k \in 1..Len(calls)
               PROVE  cs[k] \in CallsMade /\ cs[k].id = calls[k].id /\ cs[k].cut = FALSE
    OBVIOUS
  <2> DEFINE c == bs[k]
  <2>1. c \in CallsMade /\ c.id = calls[k].id
    BY <1>4
  <2>2. cs[k] = [c EXCEPT !.cut = FALSE]
    BY <1>6
  <2> HIDE DEF c, cs
  <2>3. [c EXCEPT !.cut = FALSE] \in CallsMade /\ [c EXCEPT !.cut = FALSE].id = c.id /\ [c EXCEPT !.cut = FALSE].cut = FALSE
    BY <2>1 DEF CallsMade
  <2> QED
    BY <2>1, <2>2, <2>3
<1>8. cs \in [1..Len(calls) -> CallsMade]
  BY <1>6, <1>7
<1> QED
  BY <1>0, <1>7, <1>8 DEF bs

LEMMA PlaceholderIs ==
  ASSUME NEW c \in CallsMade
  PROVE  /\ Placeholder(c) \in Messages /\ IsTool(Placeholder(c)) /\ Placeholder(c).n = 0
         /\ Placeholder(c).to = c.id
<1>1. Message("tool", 0) \in Messages
  BY ZeroIsLabel, MessageIs DEF Roles
<1> QED
  BY <1>1 DEF Placeholder, Result, Message, Messages, CallsMade, IsTool

LEMMA ResultsAre ==
  ASSUME NEW T, NEW ms \in Seq(T), NEW i \in DOMAIN ms
  PROVE  /\ Results(ms, i) \in Seq(T) /\ Len(Results(ms, i)) = RunEnd(ms, i) - i
         /\ \A k \in DOMAIN Results(ms, i) : /\ Results(ms, i)[k] = ms[i + k] /\ i + k \in (i + 1)..RunEnd(ms, i)
                                             /\ IsTool(ms[i + k])
         /\ \A k \in (i + 1)..RunEnd(ms, i) : ms[k] \in Range(Results(ms, i))
<1> DEFINE e == RunEnd(ms, i)
<1>1. e \in i..Len(ms) /\ \A k \in (i + 1)..e : IsTool(ms[k])
  BY RunEndIs DEF IsRunEnd
<1>2. i \in 1..Len(ms) /\ Len(ms) \in Nat
  OBVIOUS
<1> HIDE DEF e
<1>3. Results(ms, i) = SubSeq(ms, i + 1, e)
  BY DEF Results, e
<1>4. \A k \in (i + 1)..e : ms[k] \in T
  BY <1>1, <1>2
<1>5. /\ SubSeq(ms, i + 1, e) \in Seq(T) /\ Len(SubSeq(ms, i + 1, e)) = e - i
      /\ \A k \in 1..(e - i) : SubSeq(ms, i + 1, e)[k] = ms[i + k]
  BY <1>1, <1>2, <1>4, SubSeqProperties
<1>6. ASSUME NEW k \in (i + 1)..e PROVE ms[k] \in Range(SubSeq(ms, i + 1, e))
  <2>1. PICK j \in 1..(e - i) : i + j = k
    <3>1. k - i \in 1..(e - i) /\ i + (k - i) = k
      BY <1>1, <1>2
    <3> QED
      BY <3>1
  <2>2. SubSeq(ms, i + 1, e)[j] = ms[k] /\ j \in DOMAIN SubSeq(ms, i + 1, e)
    <3> DEFINE s == SubSeq(ms, i + 1, e)
    <3>1. s \in Seq(T) /\ Len(s) = e - i /\ s[j] = ms[i + j]
      BY <1>5
    <3> HIDE DEF s
    <3>2. DOMAIN s = 1..(e - i)
      BY <3>1
    <3> QED
      BY <2>1, <3>1, <3>2 DEF s
  <2> QED
    BY <2>2 DEF Range
<1>7. \A k \in DOMAIN SubSeq(ms, i + 1, e) : i + k \in (i + 1)..e /\ k \in 1..(e - i)
  BY <1>1, <1>2, <1>5
<1> QED
  BY <1>1, <1>3, <1>5, <1>6, <1>7 DEF e

LEMMA KeptResultsAre ==
  ASSUME NEW calls \in Seq(CallsMade), NEW avail \in Seq(Messages), \A m \in Range(avail) : IsTool(m)
  PROVE  LET rs == SessionToolResults(calls, avail)
         IN /\ rs \in Seq(Messages) /\ Range(avail) \subseteq Range(rs)
            /\ \A m \in Range(rs) : IsTool(m)
<1> DEFINE un == Unanswered(calls, avail)
           fill == [k \in DOMAIN un |-> Placeholder(un[k])]
<1>1. un \in Seq(CallsMade)
  <2>1. Only(calls, {c \in Range(calls) : Answers(avail, c) = {}}) \in Seq(CallsMade)
    BY PiecesType
  <2>2. SubSeq(calls, Len(avail) + 1, Len(calls)) \in Seq(CallsMade)
    BY SubSeqProperties
  <2> QED
    BY <2>1, <2>2 DEF Unanswered
<1> HIDE DEF un
<1>2. \A k \in 1..Len(un) : Placeholder(un[k]) \in Messages /\ IsTool(Placeholder(un[k]))
  BY <1>1, PlaceholderIs
<1>3. DOMAIN un = 1..Len(un) /\ Len(un) \in Nat
  BY <1>1
<1>4. fill \in [1..Len(un) -> Messages]
  BY <1>2, <1>3
<1>5. fill \in Seq(Messages)
  BY <1>3, <1>4
<1>6. \A m \in Range(fill) : IsTool(m)
  BY <1>2, <1>3 DEF Range
<1> HIDE DEF fill
<1>7. Range(avail \o fill) = Range(avail) \cup Range(fill)
  BY <1>5, RangeConcatenation
<1>8. SessionToolResults(calls, avail) = avail \o fill
  BY DEF SessionToolResults, fill, un
<1> QED
  BY <1>5, <1>6, <1>7, <1>8

LEMMA RepairedIs ==
  ASSUME NEW ms \in Seq(Messages), NEW i \in DOMAIN ms
  PROVE  LET b == Repaired(ms, i, FALSE)
         IN /\ b \in Seq(Messages)
            /\ Asks(ms[i]) => /\ \A m \in Range(b) : ~IsUserTurn(m)
                              /\ Saying(ms[i]) \in Says(b)
                              /\ Range(Results(ms, i)) \subseteq Range(b)
            /\ ~Asks(ms[i]) => b = IF IsTool(ms[i]) /\ Claimed(ms, i) THEN <<>> ELSE <<ms[i]>>
<1>1. ms[i] \in Messages
  OBVIOUS
<1>2. CASE ~Asks(ms[i])
  BY <1>1, <1>2 DEF Repaired
<1>3. CASE Asks(ms[i])
  <2> DEFINE rs == Results(ms, i)
             cs == RepairToolCallArgs(BackfillToolCallNames(ms[i].calls, rs))
             a == [ms[i] EXCEPT !.calls = cs]
             kept == SessionToolResults(cs, rs)
  <2>1. rs \in Seq(Messages) /\ \A m \in Range(rs) : IsTool(m)
    BY ResultsAre DEF Range
  <2>2. cs \in Seq(CallsMade)
    <3> HIDE DEF rs
    <3>1. ms[i].calls \in Seq(CallsMade)
      BY <1>1 DEF Messages
    <3> QED
      BY <3>1, CallsRepaired
  <2> HIDE DEF cs, rs
  <2>3. kept \in Seq(Messages) /\ Range(rs) \subseteq Range(kept) /\ \A m \in Range(kept) : IsTool(m)
    BY <2>1, <2>2, KeptResultsAre
  <2>4. a \in Messages /\ Saying(a) = Saying(ms[i]) /\ a.role = "assistant"
    BY <1>1, <1>3, <2>2 DEF Messages, Asks, Saying, IsTool
  <2>5. Repaired(ms, i, FALSE) = <<a>> \o kept
    BY <1>3 DEF Repaired, RepairedTurn, rs, cs
  <2> HIDE DEF a, kept
  <2> DEFINE f == <<a>>
  <2>6. f \in Seq(Messages) /\ Range(f) = {a}
    BY <2>4 DEF Range
  <2> HIDE DEF f
  <2>7. f \o kept \in Seq(Messages) /\ Range(f \o kept) = {a} \cup Range(kept)
    BY <2>3, <2>6, RangeConcatenation
  <2>8. \A m \in Range(f \o kept) : ~IsUserTurn(m)
    BY <2>3, <2>4, <2>7 DEF IsUserTurn, IsTool
  <2>9. Saying(ms[i]) \in Says(f \o kept)
    BY <2>4, <2>7 DEF Says
  <2> QED
    BY <1>3, <2>3, <2>5, <2>7, <2>8, <2>9 DEF f, rs
<1> QED
  BY <1>2, <1>3

LEMMA StoredIs ==
  ASSUME NEW ms \in Seq(Messages)
  PROVE  /\ Stored(ms) \in Seq(Messages) /\ Says(ms) \subseteq Says(Stored(ms))
         /\ UserTurns(Stored(ms)) = UserTurns(ms)
<1> DEFINE bs == [i \in DOMAIN ms |-> Repaired(ms, i, FALSE)]
<1>1. Stored(ms) = ms \/ Stored(ms) = FlattenSeq(bs)
  BY DEF Stored, Normalize, SlowPath
<1>2. bs \in Seq(Seq(Messages)) /\ DOMAIN bs = DOMAIN ms
  <2>1. DOMAIN ms = 1..Len(ms) /\ Len(ms) \in Nat
    OBVIOUS
  <2>2. \A i \in DOMAIN ms : Repaired(ms, i, FALSE) \in Seq(Messages)
    BY RepairedIs
  <2>3. bs \in [1..Len(ms) -> Seq(Messages)]
    BY <2>1, <2>2
  <2> HIDE DEF bs
  <2> QED
    BY <2>1, <2>3
<1>3. \A i \in DOMAIN ms : bs[i] = Repaired(ms, i, FALSE)
  OBVIOUS
<1> HIDE DEF bs
<1>4. Range(FlattenSeq(bs)) = AllOf(bs) /\ FlattenSeq(bs) \in Seq(Messages)
  BY <1>2, FlattenRange, FlattenType
<1>5. ASSUME NEW i \in DOMAIN ms PROVE Saying(ms[i]) \in Says(FlattenSeq(bs))
  <2>1. \A j \in DOMAIN ms : Range(Repaired(ms, j, FALSE)) \subseteq Range(FlattenSeq(bs))
    BY <1>2, <1>3, <1>4 DEF AllOf
  <2>2. \A j \in DOMAIN ms : Says(Repaired(ms, j, FALSE)) \subseteq Says(FlattenSeq(bs))
    BY <2>1 DEF Says
  <2>3. CASE Asks(ms[i])
    BY <2>2, <2>3, RepairedIs
  <2>4. CASE ~Asks(ms[i]) /\ ~(IsTool(ms[i]) /\ Claimed(ms, i))
    <3>1. Repaired(ms, i, FALSE) = <<ms[i]>>
      BY <2>4, RepairedIs
    <3>2. ms[i] \in Range(FlattenSeq(bs))
      <4>1. ms[i] \in Range(<<ms[i]>>)
        BY DEF Range
      <4> QED
        BY <3>1, <4>1, <2>1
    <3> QED
      BY <3>2 DEF Says
  <2>5. CASE IsTool(ms[i]) /\ Claimed(ms, i)
    <3>1. PICK a \in 1..(i - 1) : Asks(ms[a]) /\ i <= RunEnd(ms, a)
      BY <2>5 DEF Claimed
    <3>2. a \in DOMAIN ms /\ i \in Int /\ a \in Int /\ i > a
      OBVIOUS
    <3>3. RunEnd(ms, a) \in Int
      BY <3>2, RunEndIs DEF IsRunEnd
    <3>4. i \in (a + 1)..RunEnd(ms, a)
      BY <3>1, <3>2, <3>3
    <3>5. ms[i] \in Range(Results(ms, a))
      BY <3>2, <3>4, ResultsAre
    <3>6. ms[i] \in Range(Repaired(ms, a, FALSE))
      BY <3>1, <3>2, <3>5, RepairedIs
    <3>7. ms[i] \in Range(FlattenSeq(bs))
      BY <2>1, <3>2, <3>6
    <3> QED
      BY <3>7 DEF Says
  <2> QED
    BY <2>3, <2>4, <2>5
<1>6. Says(ms) \subseteq Says(FlattenSeq(bs))
  <2>1. Says(ms) = {Saying(ms[i]) : i \in DOMAIN ms}
    BY DEF Says, Range
  <2> QED
    BY <2>1, <1>5
<1>7. Only(FlattenSeq(bs), Turns) = Only(ms, Turns)
  <2>1. Only(FlattenSeq(bs), Turns) = FlattenSeq(Each(bs, Turns))
    BY <1>2, OnlyFlatten
  <2>2. ASSUME NEW i \in DOMAIN ms
        PROVE  Only(bs[i], Turns) = IF ms[i] \in Turns THEN <<ms[i]>> ELSE <<>>
    <3>1. CASE Asks(ms[i])
      <4>1. bs[i] \in Seq(Messages) /\ Range(bs[i]) \cap Turns = {}
        BY <1>3, <3>1, RepairedIs DEF Turns
      <4>2. ms[i] \notin Turns
        BY <3>1 DEF Asks, Turns, IsUserTurn
      <4> QED
        BY <4>1, <4>2, OnlyNone
    <3>2. CASE ~Asks(ms[i]) /\ IsTool(ms[i]) /\ Claimed(ms, i)
      <4>1. bs[i] = <<>>
        BY <1>3, <3>2, RepairedIs
      <4>2. ms[i] \notin Turns
        BY <3>2 DEF IsTool, Turns, IsUserTurn
      <4> QED
        BY <4>1, <4>2, OnlyEmpty
    <3>3. CASE ~Asks(ms[i]) /\ ~(IsTool(ms[i]) /\ Claimed(ms, i))
      <4>1. bs[i] = <<ms[i]>>
        BY <1>3, <3>3, RepairedIs
      <4> QED
        BY <4>1, OnlyOne
    <3> QED
      BY <3>1, <3>2, <3>3
  <2>3. Each(bs, Turns) = Pieces(ms, Turns)
    BY <2>2, <1>2 DEF Each, Pieces
  <2> QED
    BY <2>1, <2>3, PiecesType
<1>8. UserTurns(FlattenSeq(bs)) = UserTurns(ms)
  BY <1>4, <1>7, TurnsOnly
<1> QED
  BY <1>1, <1>4, <1>6, <1>8

TranscriptInv == ListTypes /\ ControlTypes /\ BatchInv /\ LatchInv /\ OwedInv /\ AskedInv

-----------------------------------------------------------------------------
(* One message more.                                                       *)

LEMMA NumbersOfIs ==
  ASSUME NEW ms \in Seq(Messages) PROVE NumbersOf(ms) \in Seq(Labels) /\ Len(NumbersOf(ms)) = Len(ms)
<1>1. DOMAIN ms = 1..Len(ms) /\ Len(ms) \in Nat /\ \A i \in 1..Len(ms) : ms[i].n \in Labels
  BY DEF Messages
<1>2. NumbersOf(ms) \in [1..Len(ms) -> Labels]
  BY <1>1 DEF NumbersOf
<1> QED
  BY <1>1, <1>2, FunctionIsSeq

LEMMA NumbersOfAppend ==
  ASSUME NEW ms \in Seq(Messages), NEW m \in Messages
  PROVE  NumbersOf(ms \o <<m>>) = Append(NumbersOf(ms), m.n)
<1> DEFINE p == NumbersOf(ms \o <<m>>)
           q == Append(NumbersOf(ms), m.n)
<1>1. <<m>> \in Seq(Messages) /\ ms \o <<m>> \in Seq(Messages) /\ m.n \in Labels
  BY DEF Messages
<1>2. p \in Seq(Labels) /\ Len(p) = Len(ms) + 1
  <2>1. p \in Seq(Labels) /\ Len(p) = Len(ms \o <<m>>)
    BY <1>1, NumbersOfIs
  <2>2. Len(ms \o <<m>>) = Len(ms) + 1
    OBVIOUS
  <2> QED
    BY <2>1, <2>2
<1>3. NumbersOf(ms) \in Seq(Labels) /\ Len(NumbersOf(ms)) = Len(ms)
  BY NumbersOfIs
<1>4. q \in Seq(Labels) /\ Len(q) = Len(ms) + 1
  BY <1>1, <1>3
<1>5. ASSUME NEW i \in 1..(Len(ms) + 1) PROVE p[i] = q[i]
  <2>1. p[i] = (ms \o <<m>>)[i].n
    BY DEF NumbersOf
  <2>2. CASE i = Len(ms) + 1
    BY <1>3, <2>1, <2>2
  <2>3. CASE i # Len(ms) + 1
    <3>1. (ms \o <<m>>)[i] = ms[i] /\ i \in DOMAIN ms
      BY <2>3
    <3>2. q[i] = NumbersOf(ms)[i]
      BY <1>3, <2>3
    <3> QED
      BY <2>1, <3>1, <3>2 DEF NumbersOf
  <2> QED
    BY <2>2, <2>3
<1> HIDE DEF p, q
<1>6. p = q
  BY <1>2, <1>4, <1>5, SeqEqual
<1> QED
  BY <1>6 DEF p, q

LEMMA OneMore ==
  ASSUME NEW ms \in Seq(Messages), NEW m \in Messages
  PROVE  /\ Append(ms, m) \in Seq(Messages) /\ Range(Append(ms, m)) = Range(ms) \cup {m}
         /\ NumbersOf(UserTurns(Append(ms, m)))
              = IF IsUserTurn(m) THEN Append(NumbersOf(UserTurns(ms)), m.n) ELSE NumbersOf(UserTurns(ms))
<1>1. <<m>> \in Seq(Messages) /\ Append(ms, m) = ms \o <<m>> /\ Append(ms, m) \in Seq(Messages)
  BY AppendIsConcat
<1>2. Range(ms \o <<m>>) = Range(ms) \cup {m}
  <2>1. Range(<<m>>) = {m}
    BY DEF Range
  <2> DEFINE f == <<m>>
  <2>2. f \in Seq(Messages) /\ Range(f) = {m}
    BY <1>1, <2>1
  <2> HIDE DEF f
  <2>3. Range(ms \o f) = Range(ms) \cup Range(f)
    BY <2>2, RangeConcatenation
  <2> QED
    BY <2>2, <2>3 DEF f
<1>3. UserTurns(ms \o <<m>>) = UserTurns(ms) \o UserTurns(<<m>>)
  BY <1>1, TurnsConcat
<1>4. UserTurns(<<m>>) = IF IsUserTurn(m) THEN <<m>> ELSE <<>>
  <2>1. UserTurns(<<m>>) = Only(<<m>>, Turns)
    BY <1>1, TurnsOnly
  <2>2. m \in Turns <=> IsUserTurn(m)
    BY DEF Turns
  <2> QED
    BY <2>1, <2>2, OnlyOne
<1>5. UserTurns(ms) \in Seq(Messages) /\ UserTurns(ms) \o <<>> = UserTurns(ms)
  BY TurnsOnly, ConcatEmptySeq
<1>6. CASE IsUserTurn(m)
  BY <1>1, <1>2, <1>3, <1>4, <1>5, <1>6, NumbersOfAppend
<1>7. CASE ~IsUserTurn(m)
  BY <1>1, <1>2, <1>3, <1>4, <1>5, <1>7
<1> QED
  BY <1>6, <1>7

LEMMA AddIs ==
  ASSUME ListTypes, OwedInv, AskedInv, NEW m \in Messages, Add(m), m.n = added + 1, m.tells = {},
         UNCHANGED <<archive, diskVars>>
  PROVE  ListTypes' /\ OwedInv' /\ AskedInv' /\ Told(list) \subseteq Told(list')
         /\ list' = Append(list, m)
<1>1. /\ list' = Append(list, m) /\ added' = added + 1 /\ added < MaxMessages /\ past' = Remember(m)
      /\ archive' = archive /\ disk' = disk /\ diskPast' = diskPast
  BY DEF Add, diskVars
<1>2. list \in Seq(Messages) /\ past \in Pasts /\ added \in 0..MaxMessages /\ MaxMessages \in Nat
  BY TranscriptBounds DEF ListTypes
<1>3. /\ list' \in Seq(Messages) /\ Range(list') = Range(list) \cup {m}
      /\ NumbersOf(UserTurns(list'))
           = IF IsUserTurn(m) THEN Append(NumbersOf(UserTurns(list)), m.n) ELSE NumbersOf(UserTurns(list))
  BY <1>1, <1>2, OneMore
<1>4. IsUserTurn(m) <=> m.role = "user" /\ m.text = "brief"
  BY DEF IsUserTurn
<1>5. /\ past'.owed = past.owed \cup {m.n}
      /\ past'.asked = IF IsUserTurn(m) THEN Append(past.asked, m.n) ELSE past.asked
  BY <1>1, <1>4 DEF Remember
<1>6. m.n \in Labels \ {0} /\ added' \in 0..MaxMessages
  BY <1>1, <1>2 DEF Messages
<1>7. past' \in Pasts
  <2>1. past'.owed \in SUBSET (Labels \ {0}) /\ past'.asked \in Seq(Labels)
    BY <1>2, <1>5, <1>6 DEF Pasts
  <2>2. past' = [owed |-> past'.owed, asked |-> past'.asked]
    BY <1>1 DEF Remember
  <2> QED
    BY <2>1, <2>2 DEF Pasts
<1>8. ListTypes'
  BY <1>1, <1>3, <1>6, <1>7 DEF ListTypes
<1>9. Firm(list) \subseteq Firm(list') /\ m.n \in Firm(list') /\ Told(list) \subseteq Told(list')
  BY <1>3 DEF Firm, Numbers, Told
<1>10. OwedInv'
  <2>1. past'.owed \subseteq Firm(list') \cup Boxed'
    BY <1>1, <1>5, <1>9 DEF OwedInv, Boxed
  <2> QED
    BY <2>1, <1>1 DEF OwedInv, Boxed
<1>11. AskedInv'
  BY <1>1, <1>3, <1>5 DEF AskedInv
<1> QED
  BY <1>1, <1>8, <1>9, <1>10, <1>11

-----------------------------------------------------------------------------
(* Maintenance.                                                            *)

LEMMA FoldKeeps ==
  ASSUME NEW ms \in Seq(Messages), NEW tells \in Digests(Parts(ms))
  PROVE  LET fl == FoldedList(Parts(ms), tells)
         IN /\ fl \in Seq(Messages) /\ UserTurns(fl) = UserTurns(ms)
            /\ ArchiveFolded(Parts(ms), tells) \subseteq Messages
            /\ Firm(ms) \ {0} \subseteq Firm(fl) \cup {m.n : m \in ArchiveFolded(Parts(ms), tells)}
            /\ Told(ms) \subseteq Told(fl) \/ Summary({}) \in Range(fl)
<1> DEFINE p == Parts(ms)
           fl == FoldedList(p, tells)
           box == Range(Folded(p))
<1>1. /\ fl \in Seq(Messages) /\ UserTurns(fl) = UserTurns(ms)
      /\ Summary(tells) \in Range(fl) /\ tells \subseteq Labels
      /\ box \subseteq Messages
      /\ \A m \in Range(ms) : \/ m \in Range(fl)
                              \/ m \in box /\ ~Keeps(m) /\ m.tells \subseteq Digest(p)
                              \/ IsSummary(m) /\ m.tells \subseteq Digest(p)
  BY FoldIs
<1>2. Range(ms) \subseteq Messages /\ tells \in {{}, Digest(p)}
  BY RangeOfSeq DEF Digests
<1> HIDE DEF fl, box, p
<1>3. Numbers(ms) \ {0} \subseteq Numbers(fl) \cup {m.n : m \in box}
  BY <1>1, <1>2 DEF Numbers, IsSummary, Messages
<1>4. ASSUME NEW m \in Range(ms), m.role = "user", m.tells # {} PROVE m \in Range(fl)
  <2>1. m.text = "brief"
    BY <1>2, <1>4 DEF Messages
  <2>2. Keeps(m) /\ ~IsSummary(m)
    BY <1>4, <2>1 DEF Keeps, PinnableUserTurn, IsSummary
  <2> QED
    BY <1>1, <2>2
<1>5. Firm(ms) \ {0} \subseteq Firm(fl) \cup {m.n : m \in box}
  BY <1>3, <1>4 DEF Firm
<1>6. CASE tells = {}
  BY <1>1, <1>5, <1>6 DEF fl, box, p, ArchiveFolded
<1>7. CASE tells = Digest(p)
  <2>1. Summary(tells).tells = Digest(p)
    BY <1>1, <1>7, SummaryIs
  <2>2. Digest(p) \subseteq Told(fl)
    BY <1>1, <2>1 DEF Told
  <2>3. Told(ms) \subseteq Told(fl)
    BY <1>1, <2>2 DEF Told
  <2> QED
    BY <1>1, <1>5, <2>3 DEF fl, box, p, ArchiveFolded
<1> QED
  BY <1>2, <1>6, <1>7

(* Trimming and pruning.                                                   *)
LEMMA WithRegionIs ==
  ASSUME NEW ms \in Seq(Messages), NEW region \in Seq(Messages),
         Says(region) = Says(Parts(ms).region), UserTurns(region) = UserTurns(Parts(ms).region)
  PROVE  LET new == WithRegion(Parts(ms), region)
         IN new \in Seq(Messages) /\ Says(new) = Says(ms) /\ UserTurns(new) = UserTurns(ms)
<1> DEFINE a == Parts(ms).head
           b == Parts(ms).region
           c == Parts(ms).tail
<1>1. a \in Seq(Messages) /\ b \in Seq(Messages) /\ c \in Seq(Messages) /\ ms = (a \o b) \o c
  BY PartsJoin
<1>2. Says(region) = Says(b) /\ UserTurns(region) = UserTurns(b)
  OBVIOUS
<1>3. WithRegion(Parts(ms), region) = (a \o region) \o c
  BY DEF WithRegion
<1> HIDE DEF a, b, c
<1>4. ASSUME NEW d \in Seq(Messages)
      PROVE  /\ (a \o d) \o c \in Seq(Messages)
             /\ Says((a \o d) \o c) = (Says(a) \cup Says(d)) \cup Says(c)
             /\ UserTurns((a \o d) \o c) = (UserTurns(a) \o UserTurns(d)) \o UserTurns(c)
  <2> DEFINE e == a \o d
  <2>1. e \in Seq(Messages) /\ Says(e) = Says(a) \cup Says(d) /\ UserTurns(e) = UserTurns(a) \o UserTurns(d)
    <3>1. e \in Seq(Messages)
      BY <1>1
    <3>2. Says(e) = Says(a) \cup Says(d)
      BY <1>1, SaysConcat
    <3>3. UserTurns(e) = UserTurns(a) \o UserTurns(d)
      BY <1>1, TurnsConcat
    <3> QED
      BY <3>1, <3>2, <3>3
  <2> HIDE DEF e
  <2>2. e \o c \in Seq(Messages) /\ Says(e \o c) = Says(e) \cup Says(c)
        /\ UserTurns(e \o c) = UserTurns(e) \o UserTurns(c)
    <3>1. e \o c \in Seq(Messages)
      BY <1>1, <2>1
    <3>2. Says(e \o c) = Says(e) \cup Says(c)
      BY <1>1, <2>1, SaysConcat
    <3>3. UserTurns(e \o c) = UserTurns(e) \o UserTurns(c)
      BY <1>1, <2>1, TurnsConcat
    <3> QED
      BY <3>1, <3>2, <3>3
  <2> QED
    BY <2>1, <2>2 DEF e
<1>5. /\ Says(ms) = (Says(a) \cup Says(b)) \cup Says(c)
      /\ UserTurns(ms) = (UserTurns(a) \o UserTurns(b)) \o UserTurns(c)
  BY <1>1, <1>4
<1> QED
  BY <1>2, <1>3, <1>4, <1>5

LEMMA PassesAre ==
  ASSUME NEW ms \in Seq(Messages)
  PROVE  /\ TrimmedList(ms) \in Seq(Messages)
         /\ Says(TrimmedList(ms)) = Says(ms) /\ UserTurns(TrimmedList(ms)) = UserTurns(ms)
         /\ PrunedList(ms) \in Seq(Messages)
         /\ Says(PrunedList(ms)) = Says(ms) /\ UserTurns(PrunedList(ms)) = UserTurns(ms)
         /\ Stale(ms) \subseteq Messages
<1> DEFINE r == Parts(ms).region
<1>1. r \in Seq(Messages)
  BY PartsJoin
<1>2. /\ SoftTrimmed(r) \in Seq(Messages)
      /\ Says(SoftTrimmed(r)) = Says(r) /\ UserTurns(SoftTrimmed(r)) = UserTurns(r)
  BY <1>1, TrimmedIs
<1>3. /\ Pruned(r) \in Seq(Messages)
      /\ Says(Pruned(r)) = Says(r) /\ UserTurns(Pruned(r)) = UserTurns(r)
  BY <1>1, PrunedIs
<1>4. Stale(ms) \subseteq Messages
  BY <1>1, RangeOfSeq DEF Stale
<1>5. /\ TrimmedList(ms) = WithRegion(Parts(ms), SoftTrimmed(r))
      /\ PrunedList(ms) = WithRegion(Parts(ms), Pruned(r))
  BY DEF TrimmedList, PrunedList
<1>6. LET w == WithRegion(Parts(ms), SoftTrimmed(r))
      IN w \in Seq(Messages) /\ Says(w) = Says(ms) /\ UserTurns(w) = UserTurns(ms)
  BY <1>2, WithRegionIs
<1>7. LET w == WithRegion(Parts(ms), Pruned(r))
      IN w \in Seq(Messages) /\ Says(w) = Says(ms) /\ UserTurns(w) = UserTurns(ms)
  BY <1>3, WithRegionIs
<1> HIDE DEF r
<1> QED
  BY <1>4, <1>5, <1>6, <1>7

LEMMA ReviewIs ==
  ASSUME list \in Seq(Messages), archive \subseteq Messages, LatchInv, ~latch.stuck,
         NEW force \in BOOLEAN, NEW archives \in BOOLEAN, Review(force, archives)
  PROVE  /\ list' \in Seq(Messages) /\ archive' \subseteq Messages /\ archive \subseteq archive'
         /\ UserTurns(list') = UserTurns(list)
         /\ Firm(list) \ {0} \subseteq Firm(list') \cup Boxed'
         /\ Told(list) \subseteq Told(list') \/ Summary({}) \in Range(list')
         /\ LatchInv'
<1> DEFINE trimmed == TrimmedList(list)
           prunes == Stale(trimmed) # {} /\ archives
           ms == IF prunes THEN PrunedList(trimmed) ELSE trimmed
           kept == IF prunes THEN archive \cup Stale(trimmed) ELSE archive
           parts == Parts(ms)
<1>1. \/ /\ list' = ms /\ archive' = kept
         /\ UNCHANGED <<latch, row>>
      \/ /\ latch' = [latch EXCEPT !.compacts = @ + 1, !.stuck = latch.compacts >= 1]
         /\ \/ \E tells \in Digests(parts) :
                 /\ list' = FoldedList(parts, tells)
                 /\ archive' = kept \cup ArchiveFolded(parts, tells)
                 /\ row' = row + 1
            \/ list' = ms /\ archive' = kept /\ UNCHANGED row
  BY DEF Review
<1>2. trimmed \in Seq(Messages) /\ Says(trimmed) = Says(list) /\ UserTurns(trimmed) = UserTurns(list)
  BY PassesAre
<1> HIDE DEF trimmed
<1>3. /\ PrunedList(trimmed) \in Seq(Messages)
      /\ Says(PrunedList(trimmed)) = Says(trimmed) /\ UserTurns(PrunedList(trimmed)) = UserTurns(trimmed)
      /\ Stale(trimmed) \subseteq Messages
  BY <1>2, PassesAre
<1> HIDE DEF prunes
<1>4. ms \in Seq(Messages) /\ Says(ms) = Says(list) /\ UserTurns(ms) = UserTurns(list)
  BY <1>2, <1>3
<1>5. kept \subseteq Messages /\ archive \subseteq kept
  BY <1>3
<1> HIDE DEF ms, kept
<1>6. Firm(list) \subseteq Firm(ms) /\ Told(list) \subseteq Told(ms) /\ Told(ms) \subseteq Told(list)
  BY <1>4, SaysMore
<1>7. /\ latch.compacts \in 0..1 /\ row \in 0..latch.compacts /\ latch.noticed \in BOOLEAN
      /\ latch = [compacts |-> latch.compacts, stuck |-> latch.stuck, noticed |-> latch.noticed]
  BY DEF LatchInv
<1>8. CASE list' = ms /\ archive' = kept /\ UNCHANGED <<latch, row>>
  BY <1>4, <1>5, <1>6, <1>8 DEF LatchInv
<1>9. ASSUME latch' = [latch EXCEPT !.compacts = @ + 1, !.stuck = latch.compacts >= 1],
              row' = row \/ row' = row + 1
       PROVE  LatchInv'
  <2>1. /\ latch'.compacts = latch.compacts + 1 /\ latch'.noticed = latch.noticed
        /\ latch'.stuck = (latch.compacts >= 1)
    BY <1>7, <1>9
  <2>2. latch' \in [compacts : 0..2, stuck : BOOLEAN, noticed : BOOLEAN]
    <3>1. latch.compacts + 1 \in 0..2 /\ (latch.compacts >= 1) \in BOOLEAN
      BY <1>7
    <3>2. latch' = [compacts |-> latch.compacts + 1, stuck |-> latch.compacts >= 1, noticed |-> latch.noticed]
      BY <1>7, <1>9
    <3> QED
      BY <1>7, <3>1, <3>2
  <2>3. latch'.stuck <=> latch'.compacts = 2
    <3>1. latch'.stuck <=> latch.compacts >= 1
      BY <2>1, Zenon
    <3>2. latch.compacts >= 1 <=> latch'.compacts = 2
      BY <1>7, <2>1
    <3> QED
      BY <3>1, <3>2, Zenon
  <2>4. row' \in 0..latch'.compacts
    BY <1>7, <1>9, <2>1
  <2> QED
    BY <2>2, <2>3, <2>4 DEF LatchInv
<1>10. CASE latch' = [latch EXCEPT !.compacts = @ + 1, !.stuck = latch.compacts >= 1]
            /\ list' = ms /\ archive' = kept /\ row' = row
  BY <1>4, <1>5, <1>6, <1>9, <1>10
<1>11. ASSUME latch' = [latch EXCEPT !.compacts = @ + 1, !.stuck = latch.compacts >= 1],
              NEW tells \in Digests(parts), list' = FoldedList(parts, tells),
              archive' = kept \cup ArchiveFolded(parts, tells), row' = row + 1
       PROVE  /\ list' \in Seq(Messages) /\ archive' \subseteq Messages /\ archive \subseteq archive'
              /\ UserTurns(list') = UserTurns(list)
              /\ Firm(list) \ {0} \subseteq Firm(list') \cup Boxed'
              /\ Told(list) \subseteq Told(list') \/ Summary({}) \in Range(list')
              /\ LatchInv'
  <2> DEFINE fl == FoldedList(Parts(ms), tells)
             box == ArchiveFolded(Parts(ms), tells)
  <2>1. /\ fl \in Seq(Messages) /\ UserTurns(fl) = UserTurns(ms) /\ box \subseteq Messages
        /\ Firm(ms) \ {0} \subseteq Firm(fl) \cup {m.n : m \in box}
        /\ Told(ms) \subseteq Told(fl) \/ Summary({}) \in Range(fl)
    BY <1>4, FoldKeeps
  <2>2. list' = fl /\ archive' = kept \cup box
    BY <1>11
  <2> HIDE DEF fl, box
  <2>3. {m.n : m \in box} \subseteq Boxed'
    BY <2>2 DEF Boxed
  <2>4. Firm(list) \ {0} \subseteq Firm(list') \cup Boxed'
    BY <2>1, <2>2, <2>3, <1>6
  <2>5. Told(list) \subseteq Told(list') \/ Summary({}) \in Range(list')
    BY <2>1, <2>2, <1>6
  <2> QED
    BY <2>1, <2>2, <2>4, <2>5, <1>4, <1>5, <1>9, <1>11
<1> QED
  BY <1>1, <1>8, <1>10, <1>11

-----------------------------------------------------------------------------
(* The steps.                                                              *)

\* What the steps must show of the summaries.
Grows == Restart \/ Told(list) \subseteq Told(list') \/ Summary({}) \in Range(list')

LEMMA OldMessagesAre == \A m \in OldMessages : m \in Messages /\ m.role # "summary"
<1>1. OldCalls \subseteq Seq(CallsMade)
  <2>1. \A id \in Ids, b \in BOOLEAN, c \in BOOLEAN : [id |-> id, named |-> b, cut |-> c] \in CallsMade
    BY DEF CallsMade
  <2>2. /\ Call(1) \in CallsMade /\ Call(2) \in CallsMade /\ Call(NoId) \in CallsMade
        /\ [Call(1) EXCEPT !.named = FALSE] \in CallsMade /\ [Call(NoId) EXCEPT !.named = FALSE] \in CallsMade
        /\ [Call(1) EXCEPT !.cut = TRUE] \in CallsMade
    BY DEF Call, CallsMade, Ids, NoId
  <2> QED
    BY <2>2 DEF OldCalls, Batches
<1>2. Message("user", 0) \in Messages /\ Message("assistant", 0) \in Messages /\ Message("tool", 0) \in Messages
  BY ZeroIsLabel, MessageIs DEF Roles
<1>3. ASSUME NEW cs \in OldCalls, NEW m, m = [Message("assistant", 0) EXCEPT !.calls = cs]
      PROVE  m \in Messages /\ m.role # "summary"
  <2>1. cs \in Seq(CallsMade)
    BY <1>1
  <2> QED
    BY <1>2, <1>3, <2>1 DEF Message, Messages, IsTool
<1>4. ASSUME NEW q \in [id : {NoId, 1, 2}, named : BOOLEAN],
           NEW m, m = [Message("tool", 0) EXCEPT !.to = q.id, !.named = q.named]
      PROVE  m \in Messages /\ m.role # "summary"
  BY <1>2, <1>4 DEF Message, Messages, IsTool, Ids
<1>5. Message("user", 0).role # "summary"
  BY DEF Message
<1> SUFFICES ASSUME NEW m \in OldMessages PROVE m \in Messages /\ m.role # "summary"
  OBVIOUS
<1>6. CASE m = Message("user", 0)
  BY <1>2, <1>5, <1>6
<1>7. CASE \E cs \in OldCalls : m = [Message("assistant", 0) EXCEPT !.calls = cs]
  BY <1>3, <1>7
<1>8. CASE \E q \in [id : {NoId, 1, 2}, named : BOOLEAN] : m = [Message("tool", 0) EXCEPT !.to = q.id, !.named = q.named]
  BY <1>4, <1>8
<1>9. \/ m = Message("user", 0) \/ \E cs \in OldCalls : m = [Message("assistant", 0) EXCEPT !.calls = cs]
      \/ \E q \in [id : {NoId, 1, 2}, named : BOOLEAN] : m = [Message("tool", 0) EXCEPT !.to = q.id, !.named = q.named]
  <2>1. CASE m \in {[Message("tool", 0) EXCEPT !.to = q.id, !.named = q.named] : q \in [id : {NoId, 1, 2}, named : BOOLEAN]}
    BY <2>1
  <2>2. CASE m \in {[Message("assistant", 0) EXCEPT !.calls = cs] : cs \in OldCalls}
    BY <2>2
  <2>3. CASE m = Message("user", 0)
    BY <2>3
  <2> QED
    BY <2>1, <2>2, <2>3 DEF OldMessages
<1> QED
  BY <1>6, <1>7, <1>8, <1>9

LEMMA TypedInit == TranscriptInit => TranscriptInv
<1> SUFFICES ASSUME TranscriptInit PROVE TranscriptInv
  OBVIOUS
<1>1. MaxOld \in Nat /\ MaxMessages \in Nat /\ MaxNew \in Nat /\ MaxNew <= MaxMessages
  BY TranscriptBounds
<1>2. \A m \in OldMessages : m \in Messages /\ m.role # "summary"
  BY OldMessagesAre
<1>3. ASSUME NEW ms \in OldFiles PROVE ms \in Seq(Messages) /\ 0 \notin Numbers(ms)
  <2> PICK k \in 1..MaxOld : \E os \in [1..k -> OldMessages] : ms = [i \in 1..k |-> [os[i] EXCEPT !.n = -i]]
    BY DEF OldFiles
  <2>1. PICK os \in [1..k -> OldMessages] : ms = [i \in 1..k |-> [os[i] EXCEPT !.n = -i]]
    OBVIOUS
  <2>2. ASSUME NEW i \in 1..k PROVE [os[i] EXCEPT !.n = -i] \in Messages /\ [os[i] EXCEPT !.n = -i].n # 0
    <3>1. os[i] \in Messages /\ os[i].role # "summary"
      BY <1>2
    <3>3. -i \in Labels /\ -i # 0
      BY <1>1 DEF Labels
    <3> QED
      BY <3>1, <3>3 DEF Messages, IsTool
  <2>3. ms \in [1..k -> Messages] /\ \A i \in 1..k : ms[i].n # 0
    BY <2>1, <2>2
  <2>4. ms \in Seq(Messages) /\ DOMAIN ms = 1..k
    <3>1. k \in Nat
      BY <1>1
    <3>2. ms \in [1..k -> Messages]
      BY <2>3
    <3> QED
      BY <3>1, <3>2, FunctionIsSeq
  <2>5. \A m \in Range(ms) : m.n # 0
    BY <2>3, <2>4 DEF Range
  <2> QED
    BY <2>4, <2>5 DEF Numbers
<1>4. PICK ms \in Seq(Messages) : Start(ms) /\ 0 \notin Numbers(ms) /\ added \in 0..MaxMessages
  <2>1. CASE Start(<<>>) /\ added = 0
    <3>1. <<>> \in Seq(Messages) /\ 0 \notin Numbers(<<>>) /\ added \in 0..MaxMessages
      BY <1>1, <2>1 DEF Numbers, Range
    <3> QED
      BY <2>1, <3>1, Zenon
  <2>2. CASE \E ms \in OldFiles : Start(ms) /\ added = MaxMessages - MaxNew
    <3> PICK ms \in OldFiles : Start(ms) /\ added = MaxMessages - MaxNew
      BY <2>2
    <3>1. MaxMessages - MaxNew \in 0..MaxMessages
      BY <1>1
    <3>2. ms \in Seq(Messages) /\ 0 \notin Numbers(ms)
      BY <1>3
    <3> QED
      BY <3>1, <3>2
  <2> QED
    BY <2>1, <2>2 DEF TranscriptInit
<1>5. /\ list = Stored(ms) /\ disk = ms
      /\ past = [owed |-> Numbers(ms), asked |-> NumbersOf(UserTurns(ms))]
      /\ diskPast = past /\ clean = Whole(list)
  BY <1>4 DEF Start
<1>6. list \in Seq(Messages) /\ Says(ms) \subseteq Says(list) /\ UserTurns(list) = UserTurns(ms)
  BY <1>5, StoredIs
<1>7. past \in Pasts
  <2>1. Numbers(ms) \in SUBSET (Labels \ {0})
    BY <1>4, NumbersAre
  <2>2. NumbersOf(UserTurns(ms)) \in Seq(Labels)
    BY TurnsOnly, NumbersOfIs
  <2> QED
    BY <1>5, <2>1, <2>2 DEF Pasts
<1>8. ListTypes
  BY <1>4, <1>5, <1>6, <1>7 DEF TranscriptInit, ListTypes
<1>9. ControlTypes
  <2>1. clean \in BOOLEAN
    BY <1>5, Zenon DEF Whole
  <2> QED
    BY <2>1 DEF TranscriptInit, ControlTypes
<1>10. BatchInv /\ LatchInv
  BY DEF TranscriptInit, BatchInv, LatchInv
<1>11. OwedInv
  <2>1. Numbers(ms) \subseteq Numbers(list)
    BY <1>6, SaysMore
  <2> QED
    BY <1>5, <2>1 DEF OwedInv, Firm
<1>12. AskedInv
  BY <1>5, <1>6 DEF AskedInv
<1> QED
  BY <1>8, <1>9, <1>10, <1>11, <1>12 DEF TranscriptInv

(* A message of the loop's that begins no batch.                           *)
LEMMA AddStep ==
  ASSUME TranscriptInv, NEW m \in Messages, Add(m), m.n = added + 1, m.tells = {},
         UNCHANGED <<foldVars, diskVars, clean>>,
         phase' \in {"step", "review"}, then' \in {"idle", "step"},
         bounds' \subseteq marks', marks' \subseteq Nat
  PROVE  TranscriptInv' /\ Grows
<1>1. ListTypes' /\ OwedInv' /\ AskedInv' /\ Told(list) \subseteq Told(list')
  BY AddIs DEF TranscriptInv, foldVars
<1>2. ControlTypes' /\ BatchInv'
  BY DEF TranscriptInv, ControlTypes, BatchInv
<1>3. LatchInv'
  BY DEF TranscriptInv, LatchInv, foldVars
<1> QED
  BY <1>1, <1>2, <1>3 DEF TranscriptInv, Grows

LEMMA NextLabel == ASSUME ListTypes, added < MaxMessages PROVE added + 1 \in Labels /\ Len(list) \in Nat
BY TranscriptBounds DEF ListTypes, Labels

LEMMA AskStep ==
  ASSUME TranscriptInv, NEW text \in {"brief", "pasted"}, Ask(text) PROVE TranscriptInv' /\ Grows
<1> DEFINE m == [Message("user", added + 1) EXCEPT !.text = text]
<1>1. Add(m) /\ added < MaxMessages
  BY DEF Ask, Add
<1>2. added + 1 \in Labels /\ Len(list) \in Nat
  BY <1>1, NextLabel DEF TranscriptInv
<1>3. m \in Messages /\ m.n = added + 1 /\ m.tells = {}
  <2>1. Message("user", added + 1) \in Messages
    BY <1>2, MessageIs DEF Roles
  <2> QED
    BY <2>1 DEF Message, Messages, IsTool, Texts
<1>4. /\ UNCHANGED <<foldVars, diskVars, clean>> /\ phase' = "step" /\ then' = "step"
      /\ bounds' = bounds \cup {Len(list)} /\ marks' = marks \cup {Len(list)}
  BY DEF Ask, Goes
<1>5. bounds \subseteq marks /\ marks \subseteq Nat
  BY DEF TranscriptInv, ControlTypes
<1> HIDE DEF m
<1> QED
  BY <1>1, <1>2, <1>3, <1>4, <1>5, AddStep

LEMMA NudgeStep == ASSUME TranscriptInv, Nudge PROVE TranscriptInv' /\ Grows
<1> DEFINE m == Message("user", added + 1)
<1>1. Add(m) /\ added < MaxMessages
  BY DEF Nudge, Add
<1>2. added + 1 \in Labels
  BY <1>1, NextLabel DEF TranscriptInv
<1>3. m \in Messages /\ m.n = added + 1 /\ m.tells = {}
  <2>1. m \in Messages
    BY <1>2, MessageIs DEF Roles
  <2> QED
    BY <2>1 DEF Message
<1>4. /\ UNCHANGED <<foldVars, diskVars, clean>> /\ phase' = "step" /\ then' = then
      /\ bounds' = bounds /\ marks' = marks
  BY DEF Nudge
<1>5. bounds \subseteq marks /\ marks \subseteq Nat /\ then \in {"idle", "step"}
  BY DEF TranscriptInv, ControlTypes
<1> HIDE DEF m
<1> QED
  BY <1>1, <1>3, <1>4, <1>5, AddStep

LEMMA AnswerStep ==
  ASSUME TranscriptInv, NEW next \in {"idle", "step"}, Answer(next) PROVE TranscriptInv' /\ Grows
<1> DEFINE m == Message("assistant", added + 1)
<1>1. Add(m) /\ added < MaxMessages
  BY DEF Answer, Add
<1>2. added + 1 \in Labels
  BY <1>1, NextLabel DEF TranscriptInv
<1>3. m \in Messages /\ m.n = added + 1 /\ m.tells = {}
  <2>1. m \in Messages
    BY <1>2, MessageIs DEF Roles
  <2> QED
    BY <2>1 DEF Message
<1>4. /\ UNCHANGED <<foldVars, diskVars, clean>> /\ phase' = "review" /\ then' = next
      /\ bounds' = bounds /\ marks' = marks
  BY DEF Answer, Goes
<1>5. bounds \subseteq marks /\ marks \subseteq Nat
  BY DEF TranscriptInv, ControlTypes
<1> HIDE DEF m
<1> QED
  BY <1>1, <1>3, <1>4, <1>5, AddStep

(* The end of a run of tool messages, when a message is added.             *)
LEMMA RunGrows ==
  ASSUME NEW T, NEW ms \in Seq(T), NEW m \in T, NEW i \in DOMAIN ms, RunEnd(ms, i) = Len(ms), IsTool(m)
  PROVE  /\ Append(ms, m) \in Seq(T) /\ i \in DOMAIN Append(ms, m) /\ Append(ms, m)[i] = ms[i]
         /\ RunEnd(Append(ms, m), i) = Len(ms) + 1 /\ Len(Append(ms, m)) = Len(ms) + 1
<1> DEFINE ns == Append(ms, m)
<1>1. /\ ns \in Seq(T) /\ Len(ns) = Len(ms) + 1 /\ ns[Len(ms) + 1] = m
      /\ \A k \in 1..Len(ms) : ns[k] = ms[k]
  BY AppendProperties
<1>2. i \in 1..Len(ms) /\ Len(ms) \in Nat
  OBVIOUS
<1>3. IsRunEnd(ms, i, Len(ms))
  BY RunEndIs
<1> HIDE DEF ns
<1>4. ASSUME NEW k \in (i + 1)..(Len(ms) + 1) PROVE IsTool(ns[k])
  <2>1. CASE k = Len(ms) + 1
    BY <1>1, <2>1
  <2>2. CASE k # Len(ms) + 1
    <3>1. k \in (i + 1)..Len(ms) /\ k \in 1..Len(ms)
      BY <1>2, <2>2
    <3> QED
      BY <1>1, <1>3, <3>1 DEF IsRunEnd
  <2> QED
    BY <2>1, <2>2
<1>5. IsRunEnd(ns, i, Len(ms) + 1)
  BY <1>1, <1>2, <1>4 DEF IsRunEnd
<1>6. i \in DOMAIN ns
  BY <1>1, <1>2
<1>7. RunEnd(ns, i) = Len(ms) + 1
  BY <1>1, <1>5, <1>6, OneRunEnd
<1> QED
  BY <1>1, <1>2, <1>6, <1>7 DEF ns

LEMMA AskToolsStep ==
  ASSUME TranscriptInv, NEW calls \in Batches, AskTools(calls) PROVE TranscriptInv' /\ Grows
<1> DEFINE m == [Message("assistant", added + 1) EXCEPT !.calls = calls]
<1>1. Add(m) /\ added < MaxMessages /\ UNCHANGED <<foldVars, diskVars, clean, bounds, marks>>
      /\ phase' = "tools" /\ then' = "step"
  BY DEF AskTools, Add, Goes
<1>2. added + 1 \in Labels
  BY <1>1, NextLabel DEF TranscriptInv
<1>3. calls \in Seq(CallsMade) /\ calls # <<>> /\ Len(calls) > 0
  <2>1. Call(1) \in CallsMade /\ Call(2) \in CallsMade /\ Call(NoId) \in CallsMade
    BY DEF Call, CallsMade, Ids, NoId
  <2>2. calls = <<Call(1)>> \/ calls = <<Call(2), Call(1)>> \/ calls = <<Call(NoId), Call(NoId)>>
    BY DEF Batches
  <2>3. CASE calls = <<Call(1)>>
    BY <2>1, <2>3
  <2>4. CASE calls = <<Call(2), Call(1)>>
    BY <2>1, <2>4
  <2>5. CASE calls = <<Call(NoId), Call(NoId)>>
    BY <2>1, <2>5
  <2> QED
    BY <2>2, <2>3, <2>4, <2>5
<1>4. m \in Messages /\ m.n = added + 1 /\ m.tells = {} /\ Asks(m) /\ m.calls = calls
  <2>1. Message("assistant", added + 1) \in Messages
    BY <1>2, MessageIs DEF Roles
  <2> QED
    BY <2>1, <1>3 DEF Message, Messages, IsTool, Asks
<1> HIDE DEF m
<1>5. ListTypes' /\ OwedInv' /\ AskedInv' /\ Told(list) \subseteq Told(list') /\ list' = Append(list, m)
  BY <1>1, <1>4, AddIs DEF TranscriptInv, foldVars
<1>6. BatchInv'
  <2> PICK i \in Nat : i = Len(list) + 1
    BY DEF TranscriptInv, ListTypes
  <2>1. /\ list \in Seq(Messages) /\ list' \in Seq(Messages) /\ Len(list') = i /\ i \in DOMAIN list'
        /\ list'[i] = m /\ i \in Nat
    BY <1>4, <1>5 DEF TranscriptInv, ListTypes
  <2>2. IsRunEnd(list', i, i)
    BY <2>1 DEF IsRunEnd
  <2>3. RunEnd(list', i) = i
    BY <2>1, <2>2, OneRunEnd
  <2>4. Len(list') - i < Len(list'[i].calls)
    BY <1>3, <1>4, <2>1
  <2>5. OpenBatch(i)'
    BY <1>4, <2>1, <2>3, <2>4 DEF OpenBatch
  <2> QED
    BY <2>1, <2>5 DEF BatchInv
<1>7. ControlTypes' /\ LatchInv'
  BY <1>1 DEF TranscriptInv, ControlTypes, LatchInv, foldVars
<1> QED
  BY <1>5, <1>6, <1>7 DEF TranscriptInv, Grows

LEMMA LastCaller ==
  ASSUME NEW T, NEW ms \in Seq(T), NEW a \in DOMAIN ms, Asks(ms[a]), RunEnd(ms, a) = Len(ms)
  PROVE  (CHOOSE i \in DOMAIN ms : Asks(ms[i]) /\ RunEnd(ms, i) = Len(ms)) = a
<1>0. Len(ms) \in Nat /\ a \in 1..Len(ms) /\ DOMAIN ms = 1..Len(ms)
  OBVIOUS
<1>1. ASSUME NEW i \in DOMAIN ms, Asks(ms[i]), RunEnd(ms, i) = Len(ms) PROVE i = a
  <2>1. IsRunEnd(ms, i, Len(ms)) /\ IsRunEnd(ms, a, Len(ms))
    BY <1>1, RunEndIs
  <2>2. i \in 1..Len(ms)
    BY <1>0
  <2>3. ~(i < a)
    <3> SUFFICES ASSUME i < a PROVE FALSE
      OBVIOUS
    <3>1. a \in (i + 1)..Len(ms)
      BY <1>0, <2>2
    <3> QED
      BY <2>1, <3>1 DEF IsRunEnd, Asks, IsTool
  <2>4. ~(a < i)
    <3> SUFFICES ASSUME a < i PROVE FALSE
      OBVIOUS
    <3>1. i \in (a + 1)..Len(ms)
      BY <1>0, <2>2
    <3> QED
      BY <1>1, <2>1, <3>1 DEF IsRunEnd, Asks, IsTool
  <2> QED
    BY <1>0, <2>2, <2>3, <2>4
<1> QED
  BY <1>1

LEMMA AddResultStep ==
  ASSUME TranscriptInv, NEW text \in Sizes, AddResult(text) PROVE TranscriptInv' /\ Grows
<1>1. PICK a \in DOMAIN list : OpenBatch(a)
  BY DEF TranscriptInv, BatchInv, AddResult
<1>2. list \in Seq(Messages) /\ Len(list) \in Nat /\ a \in 1..Len(list) /\ list[a] \in Messages
  BY <1>1 DEF TranscriptInv, ListTypes
<1>3. (CHOOSE i \in DOMAIN list : Asks(list[i]) /\ RunEnd(list, i) = Len(list)) = a
  BY <1>1, <1>2, LastCaller DEF OpenBatch
<1> DEFINE k == Len(list) - a + 1
           c == list[a].calls[k]
           m == [Result(c, added + 1) EXCEPT !.text = text]
<1>4. /\ Add(m) /\ phase' = (IF ResultsIn(k, list[a].calls) THEN "review" ELSE "tools") /\ then' = "step"
      /\ UNCHANGED <<foldVars, diskVars, clean, bounds, marks>>
  BY <1>3 DEF AddResult, Goes
<1>5. added + 1 \in Labels
  BY <1>4, NextLabel DEF TranscriptInv, Add
<1>6. k \in 1..Len(list[a].calls) /\ list[a].calls \in Seq(CallsMade) /\ Len(list[a].calls) \in Nat
  <2>1. list[a].calls \in Seq(CallsMade)
    BY <1>2 DEF Messages
  <2> QED
    BY <1>1, <1>2, <2>1 DEF OpenBatch
<1>7. c \in CallsMade
  BY <1>6
<1> HIDE DEF c
<1>8. m \in Messages /\ m.n = added + 1 /\ m.tells = {} /\ IsTool(m)
  <2>1. Message("tool", added + 1) \in Messages
    BY <1>5, MessageIs DEF Roles
  <2>2. text \in Texts
    BY TranscriptBounds DEF Texts
  <2> QED
    BY <2>1, <2>2, <1>7 DEF Result, Message, Messages, IsTool, CallsMade
<1> HIDE DEF m
<1>9. ListTypes' /\ OwedInv' /\ AskedInv' /\ Told(list) \subseteq Told(list') /\ list' = Append(list, m)
  BY <1>4, <1>8, AddIs DEF TranscriptInv, foldVars
<1>10. BatchInv'
  <2> SUFFICES ASSUME phase' = "tools" PROVE OpenBatch(a)' /\ a \in DOMAIN list'
    BY DEF BatchInv
  <2>1. k # Len(list[a].calls)
    BY <1>4 DEF ResultsIn
  <2>2. /\ a \in DOMAIN list' /\ list'[a] = list[a] /\ RunEnd(list', a) = Len(list') /\ Len(list') = Len(list) + 1
    BY <1>1, <1>2, <1>8, <1>9, RunGrows DEF OpenBatch
  <2>3. Len(list') - a < Len(list'[a].calls)
    BY <1>2, <1>6, <2>1, <2>2
  <2> QED
    BY <1>1, <2>2, <2>3 DEF OpenBatch
<1>11. ControlTypes' /\ LatchInv'
  BY <1>4 DEF TranscriptInv, ControlTypes, LatchInv, foldVars
<1> QED
  BY <1>9, <1>10, <1>11 DEF TranscriptInv, Grows

LEMMA LeaveTurnStep == ASSUME TranscriptInv, LeaveTurn PROVE TranscriptInv' /\ Grows
<1>1. /\ UNCHANGED <<list, latch, archive, row, bounds, marks, disk, diskPast, added, past, clean>>
      /\ phase' = "idle" /\ then' = "idle"
  BY DEF LeaveTurn, Goes, foldVars, diskVars
<1>2. ListTypes' /\ OwedInv' /\ AskedInv'
  BY <1>1 DEF TranscriptInv, ListTypes, OwedInv, AskedInv, Boxed
<1>3. ControlTypes' /\ BatchInv' /\ LatchInv'
  BY <1>1 DEF TranscriptInv, ControlTypes, BatchInv, LatchInv
<1> QED
  BY <1>1, <1>2, <1>3 DEF TranscriptInv, Grows

(* A fold of the list, by maintenance or by the user.                      *)
LEMMA FoldStep ==
  ASSUME TranscriptInv, list' \in Seq(Messages), archive' \subseteq Messages, archive \subseteq archive',
         UserTurns(list') = UserTurns(list),
         Firm(list) \ {0} \subseteq Firm(list') \cup Boxed',
         Told(list) \subseteq Told(list') \/ Summary({}) \in Range(list'),
         LatchInv', phase' \in {"idle", "step"}, then' \in {"idle", "step"},
         UNCHANGED <<bounds, marks, diskVars, added, past, clean>>
  PROVE  TranscriptInv' /\ Grows
<1>1. /\ bounds' = bounds /\ marks' = marks /\ disk' = disk /\ diskPast' = diskPast /\ added' = added
      /\ past' = past /\ clean' = clean
  BY DEF diskVars
<1>2. ListTypes' /\ AskedInv'
  BY <1>1 DEF TranscriptInv, ListTypes, AskedInv
<1>3. ControlTypes' /\ BatchInv'
  BY <1>1 DEF TranscriptInv, ControlTypes, BatchInv
<1>4. OwedInv'
  <2>1. Boxed \subseteq Boxed'
    BY DEF Boxed
  <2>2. 0 \notin past.owed /\ past.owed \subseteq Firm(list) \cup Boxed /\ diskPast.owed \subseteq Firm(disk) \cup Boxed
    BY DEF TranscriptInv, ListTypes, Pasts, OwedInv
  <2>3. Firm(disk') = Firm(disk)
    BY <1>1
  <2> QED
    BY <1>1, <2>1, <2>2, <2>3 DEF OwedInv
<1> QED
  BY <1>2, <1>3, <1>4 DEF TranscriptInv, Grows

LEMMA RelaxIs ==
  ASSUME LatchInv, NEW between \in BOOLEAN, Relax(between)
  PROVE  list' = list /\ archive' = archive /\ LatchInv'
<1>1. list' = list /\ archive' = archive
  BY DEF Relax
<1>2. CASE latch' = NoticeOnce(latch) /\ row' = row
  <2>1. /\ latch'.compacts = latch.compacts /\ latch'.stuck = latch.stuck
        /\ latch' \in [compacts : 0..2, stuck : BOOLEAN, noticed : BOOLEAN]
    BY <1>2 DEF NoticeOnce, LatchInv
  <2> QED
    BY <1>1, <1>2, <2>1 DEF LatchInv
<1>3. CASE latch' = [compacts |-> 0, stuck |-> FALSE, noticed |-> FALSE] /\ row' = 0
  <2>1. /\ latch'.compacts = 0 /\ ~latch'.stuck
        /\ latch' \in [compacts : 0..2, stuck : BOOLEAN, noticed : BOOLEAN]
    BY <1>3
  <2> QED
    BY <1>1, <1>3, <2>1 DEF LatchInv
<1> QED
  BY <1>1, <1>2, <1>3 DEF Relax

LEMMA MaybeCompactStep == ASSUME TranscriptInv, MaybeCompact PROVE TranscriptInv' /\ Grows
<1>1. /\ phase' \in {"idle", "step"} /\ then' \in {"idle", "step"}
      /\ UNCHANGED <<bounds, marks, diskVars, added, past, clean>>
  BY DEF MaybeCompact, Goes, TranscriptInv, ControlTypes
<1>2. list \in Seq(Messages) /\ archive \subseteq Messages /\ LatchInv
  BY DEF TranscriptInv, ListTypes
<1>3. ASSUME list' = list, archive' = archive, LatchInv' PROVE TranscriptInv' /\ Grows
  BY <1>1, <1>2, <1>3, FoldStep
<1>4. CASE UNCHANGED <<list, foldVars>>
  <2>1. list' = list /\ archive' = archive /\ LatchInv'
    BY <1>2, <1>4 DEF foldVars, LatchInv
  <2> QED
    BY <1>3, <2>1
<1>5. CASE \E between \in BOOLEAN : Relax(between)
  BY <1>2, <1>3, <1>5, RelaxIs
<1>6. CASE ~latch.stuck /\ \E force, archives \in BOOLEAN : Review(force, archives)
  <2>1. /\ list' \in Seq(Messages) /\ archive' \subseteq Messages /\ archive \subseteq archive'
        /\ UserTurns(list') = UserTurns(list)
        /\ Firm(list) \ {0} \subseteq Firm(list') \cup Boxed'
        /\ Told(list) \subseteq Told(list') \/ Summary({}) \in Range(list')
        /\ LatchInv'
    BY <1>2, <1>6, ReviewIs
  <2> QED
    BY <1>1, <2>1, FoldStep
<1> QED
  BY <1>4, <1>5, <1>6, Zenon DEF MaybeCompact

LEMMA CompactNowStep == ASSUME TranscriptInv, CompactNow PROVE TranscriptInv' /\ Grows
<1>1. /\ phase' \in {"idle", "step"} /\ then' \in {"idle", "step"}
      /\ UNCHANGED <<latch, row, bounds, marks, diskVars, added, past, clean>>
  BY DEF CompactNow, TranscriptInv, ControlTypes
<1>2. list \in Seq(Messages) /\ archive \subseteq Messages /\ LatchInv
  BY DEF TranscriptInv, ListTypes
<1>3. PICK tells \in Digests(Parts(list)) :
        list' = FoldedList(Parts(list), tells) /\ archive' = archive \cup ArchiveFolded(Parts(list), tells)
  BY Zenon DEF CompactNow
<1>4. /\ FoldedList(Parts(list), tells) \in Seq(Messages)
      /\ UserTurns(FoldedList(Parts(list), tells)) = UserTurns(list)
      /\ ArchiveFolded(Parts(list), tells) \subseteq Messages
      /\ Firm(list) \ {0} \subseteq Firm(FoldedList(Parts(list), tells))
                                      \cup {m.n : m \in ArchiveFolded(Parts(list), tells)}
      /\ \/ Told(list) \subseteq Told(FoldedList(Parts(list), tells))
         \/ Summary({}) \in Range(FoldedList(Parts(list), tells))
  BY <1>2, FoldKeeps
<1>5. {m.n : m \in ArchiveFolded(Parts(list), tells)} \subseteq Boxed'
  BY <1>3 DEF Boxed
<1>6. LatchInv'
  BY <1>1, <1>2 DEF LatchInv
<1> QED
  BY <1>1, <1>2, <1>3, <1>4, <1>5, <1>6, FoldStep

(* A summary the user asks for at a boundary: the messages on one side of  *)
(* it are told by the recap that takes their place.                        *)
LEMMA RecapIs ==
  ASSUME NEW ms \in Seq(Messages)
  PROVE  /\ Recap(ms) \in Messages /\ Recap(ms).tells = Numbers(ms) \cup Told(ms)
         /\ Recap(ms).role = "user"
<1>1. Message("user", 0) \in Messages
  BY ZeroIsLabel, MessageIs DEF Roles
<1>2. Numbers(ms) \cup Told(ms) \subseteq Labels
  BY NumbersAre
<1> QED
  BY <1>1, <1>2 DEF Recap, Message, Messages, IsTool

LEMMA CutAt ==
  ASSUME NEW T, NEW ms \in Seq(T), NEW b \in 0..Len(ms)
  PROVE  /\ SubSeq(ms, 1, b) \in Seq(T) /\ SubSeq(ms, b + 1, Len(ms)) \in Seq(T)
         /\ Range(ms) = Range(SubSeq(ms, 1, b)) \cup Range(SubSeq(ms, b + 1, Len(ms)))
<1> DEFINE r == SubSeq(ms, 1, b)
           s == SubSeq(ms, b + 1, Len(ms))
<1>1. r \in Seq(T) /\ s \in Seq(T)
  BY SubSeqProperties
<1>2. Len(r) = b /\ \A i \in 1..b : r[i] = ms[i]
  BY SubSeqProperties
<1>3. Len(s) = Len(ms) - b /\ \A i \in 1..(Len(ms) - b) : s[i] = ms[b + i]
  BY SubSeqProperties
<1> HIDE DEF r, s
<1>4. DOMAIN r = 1..b /\ DOMAIN s = 1..(Len(ms) - b) /\ DOMAIN ms = 1..Len(ms) /\ Len(ms) \in Nat
  BY <1>1, <1>2, <1>3
<1>5. ASSUME NEW i \in 1..Len(ms) PROVE ms[i] \in Range(r) \cup Range(s)
  <2>1. CASE i \in 1..b
    BY <1>2, <1>4, <2>1 DEF Range
  <2>2. CASE i \notin 1..b
    <3>1. i - b \in 1..(Len(ms) - b) /\ b + (i - b) = i
      BY <1>4, <2>2
    <3>2. s[i - b] = ms[i]
      BY <1>3, <3>1
    <3> QED
      BY <1>4, <3>1, <3>2 DEF Range
  <2> QED
    BY <2>1, <2>2
<1>6. ASSUME NEW i \in 1..b PROVE r[i] \in Range(ms)
  BY <1>2, <1>4 DEF Range
<1>7. ASSUME NEW i \in 1..(Len(ms) - b) PROVE s[i] \in Range(ms)
  <2>1. b + i \in 1..Len(ms)
    BY <1>4
  <2> QED
    BY <1>3, <1>4, <2>1 DEF Range
<1> QED
  BY <1>1, <1>4, <1>5, <1>6, <1>7 DEF Range, r, s

LEMMA RecapKeeps ==
  ASSUME NEW old \in Seq(Messages), NEW new \in Seq(Messages), NEW region \in Seq(Messages), NEW rest,
         Range(old) = rest \cup Range(region), Range(new) = rest \cup {Recap(region)}
  PROVE  Firm(old) \subseteq Firm(new) /\ Told(old) \subseteq Told(new)
<1>1. Recap(region).tells = Numbers(region) \cup Told(region) /\ Recap(region).role = "user"
  BY RecapIs
<1>2. Recap(region) \in Range(new)
  OBVIOUS
<1> DEFINE r == Recap(region)
<1> HIDE DEF r
<1>3. r.tells \subseteq Firm(new) /\ r.tells \subseteq Told(new)
  BY <1>1, <1>2 DEF Firm, Told, r
<1>4. ASSUME NEW m \in Range(old)
      PROVE  /\ m.n \in Firm(new) /\ m.tells \subseteq Told(new)
             /\ m.role = "user" => m.tells \subseteq Firm(new)
  <2>1. CASE m \in rest
    BY <2>1 DEF Firm, Told, Numbers
  <2>2. CASE m \in Range(region)
    <3>1. m.n \in r.tells /\ m.tells \subseteq r.tells
      BY <1>1, <2>2 DEF Numbers, Told, r
    <3> QED
      BY <1>3, <3>1
  <2> QED
    BY <2>1, <2>2
<1>5. Numbers(old) \subseteq Firm(new) /\ Told(old) \subseteq Told(new)
  BY <1>4 DEF Numbers, Told
<1>6. UNION {m.tells : m \in {x \in Range(old) : x.role = "user"}} \subseteq Firm(new)
  BY <1>4
<1> QED
  BY <1>5, <1>6 DEF Firm

LEMMA SummarizedStep ==
  ASSUME TranscriptInv, NEW ms \in Seq(Messages), NEW region \in Seq(Messages), Summarized(ms, region),
         Firm(list) \subseteq Firm(ms), Told(list) \subseteq Told(ms), clean' \in BOOLEAN
  PROVE  TranscriptInv' /\ Grows
<1>1. /\ list' = ms /\ disk' = ms /\ bounds' = {} /\ marks' = marks /\ added' = added
      /\ phase' = "idle" /\ then' = then /\ latch' = latch /\ row' = row
      /\ archive \subseteq archive' /\ archive' \subseteq archive \cup Range(region)
      /\ diskPast' = past'
  BY DEF Summarized
<1>2. past' = [past EXCEPT !.asked = NumbersOf(UserTurns(ms))]
  BY DEF Summarized
<1>3. /\ archive \subseteq Messages /\ past \in Pasts /\ added \in 0..MaxMessages
      /\ past.owed \subseteq Firm(list) \cup Boxed /\ Range(region) \subseteq Messages
      /\ marks \subseteq Nat /\ then \in {"idle", "step"} /\ LatchInv
  BY RangeOfSeq DEF TranscriptInv, ListTypes, OwedInv, ControlTypes
<1>4. NumbersOf(UserTurns(ms)) \in Seq(Labels)
  BY TurnsOnly, NumbersOfIs
<1>5. past' \in Pasts /\ past'.owed = past.owed /\ past'.asked = NumbersOf(UserTurns(ms))
  BY <1>2, <1>3, <1>4 DEF Pasts
<1>6. ListTypes'
  BY <1>1, <1>3, <1>5 DEF ListTypes
<1>7. OwedInv'
  <2>1. Boxed \subseteq Boxed'
    BY <1>1 DEF Boxed
  <2> QED
    BY <1>1, <1>3, <1>5, <2>1 DEF OwedInv
<1>8. AskedInv'
  BY <1>1, <1>5 DEF AskedInv
<1>9. ControlTypes' /\ BatchInv' /\ LatchInv'
  BY <1>1, <1>3 DEF ControlTypes, BatchInv, LatchInv
<1> QED
  BY <1>1, <1>6, <1>7, <1>8, <1>9 DEF TranscriptInv, Grows

LEMMA SeversIs == ASSUME NEW b PROVE (clean /\ ~Severs(list, b)) \in BOOLEAN
OBVIOUS

LEMMA SummarizeFromStep ==
  ASSUME TranscriptInv, NEW b \in bounds, SummarizeFrom(b) PROVE TranscriptInv' /\ Grows
<1> DEFINE kept == SubSeq(list, 1, b)
           region == SubSeq(list, b + 1, Len(list))
           ms == Append(kept, Recap(region))
<1>1. list \in Seq(Messages) /\ b \in 0..Len(list) /\ clean' \in BOOLEAN /\ Summarized(ms, region)
  BY SeversIs DEF TranscriptInv, ListTypes, ControlTypes, SummarizeFrom
<1>2. kept \in Seq(Messages) /\ region \in Seq(Messages) /\ Range(list) = Range(kept) \cup Range(region)
  BY <1>1, CutAt
<1> HIDE DEF kept, region
<1>3. Recap(region) \in Messages
  BY <1>2, RecapIs
<1>4. ms \in Seq(Messages) /\ Range(ms) = Range(kept) \cup {Recap(region)}
  BY <1>2, <1>3, OneMore
<1> HIDE DEF ms
<1>5. Firm(list) \subseteq Firm(ms) /\ Told(list) \subseteq Told(ms)
  BY <1>1, <1>2, <1>4, RecapKeeps
<1> QED
  BY <1>1, <1>2, <1>4, <1>5, SummarizedStep

LEMMA SummarizeUpToStep ==
  ASSUME TranscriptInv, NEW b \in bounds, SummarizeUpTo(b) PROVE TranscriptInv' /\ Grows
<1> DEFINE region == SubSeq(list, 1, b)
           kept == SubSeq(list, b + 1, Len(list))
           ms == <<Recap(region)>> \o kept
<1>1. list \in Seq(Messages) /\ b \in 0..Len(list) /\ clean' \in BOOLEAN /\ Summarized(ms, region)
  BY SeversIs DEF TranscriptInv, ListTypes, ControlTypes, SummarizeUpTo
<1>2. kept \in Seq(Messages) /\ region \in Seq(Messages) /\ Range(list) = Range(kept) \cup Range(region)
  BY <1>1, CutAt
<1> HIDE DEF kept, region
<1>3. Recap(region) \in Messages
  BY <1>2, RecapIs
<1>4. ms \in Seq(Messages) /\ Range(ms) = Range(kept) \cup {Recap(region)}
  <2>1. <<Recap(region)>> \in Seq(Messages) /\ Range(<<Recap(region)>>) = {Recap(region)}
    BY <1>3 DEF Range
  <2> DEFINE r == <<Recap(region)>>
  <2> HIDE DEF r
  <2>2. r \in Seq(Messages) /\ Range(r) = {Recap(region)} /\ ms = r \o kept
    BY <2>1 DEF r
  <2>3. Range(r \o kept) = Range(r) \cup Range(kept)
    BY <1>2, <2>2, RangeConcatenation
  <2>4. r \o kept \in Seq(Messages)
    BY <1>2, <2>2
  <2> HIDE DEF ms
  <2> QED
    BY <2>2, <2>3, <2>4
<1> HIDE DEF ms
<1>5. Firm(list) \subseteq Firm(ms) /\ Told(list) \subseteq Told(ms)
  BY <1>1, <1>2, <1>4, RecapKeeps
<1> QED
  BY <1>1, <1>2, <1>4, <1>5, SummarizedStep

LEMMA SaveStep == ASSUME TranscriptInv, Save PROVE TranscriptInv' /\ Grows
<1>1. /\ UNCHANGED <<list, phase, then, latch, archive, row, bounds, marks, added, past, clean>>
      /\ disk' = list /\ diskPast' = past
  BY DEF Save, foldVars
<1>2. ListTypes' /\ OwedInv' /\ AskedInv'
  BY <1>1 DEF TranscriptInv, ListTypes, OwedInv, AskedInv, Boxed
<1>3. ControlTypes' /\ BatchInv' /\ LatchInv'
  BY <1>1 DEF TranscriptInv, ControlTypes, BatchInv, LatchInv, OpenBatch
<1> QED
  BY <1>1, <1>2, <1>3 DEF TranscriptInv, Grows

LEMMA RestartStep == ASSUME TranscriptInv, Restart PROVE TranscriptInv' /\ Grows
<1>1. /\ list' = Stored(disk) /\ past' = diskPast /\ phase' = "idle" /\ then' = "idle"
      /\ latch' = [compacts |-> 0, stuck |-> FALSE, noticed |-> FALSE] /\ row' = 0
      /\ bounds' = marks /\ marks' = marks /\ archive' = archive /\ disk' = disk /\ diskPast' = diskPast
      /\ added' = added /\ clean' = clean
  BY DEF Restart, Goes, diskVars
<1>2. /\ Stored(disk) \in Seq(Messages) /\ Says(disk) \subseteq Says(Stored(disk))
      /\ UserTurns(Stored(disk)) = UserTurns(disk)
  BY StoredIs DEF TranscriptInv, ListTypes
<1>3. Firm(disk) \subseteq Firm(list')
  BY <1>1, <1>2, SaysMore
<1>4. ListTypes' /\ AskedInv'
  BY <1>1, <1>2 DEF TranscriptInv, ListTypes, AskedInv
<1>5. OwedInv'
  BY <1>1, <1>3 DEF TranscriptInv, OwedInv, Boxed
<1>6. ControlTypes' /\ BatchInv' /\ LatchInv'
  BY <1>1 DEF TranscriptInv, ControlTypes, BatchInv, LatchInv
<1> QED
  BY <1>4, <1>5, <1>6 DEF TranscriptInv, Grows

LEMMA TranscriptKept ==
  ASSUME TranscriptInv, [TranscriptNext]_transcriptVars
  PROVE  TranscriptInv' /\ [Grows]_transcriptVars
<1>1. ASSUME NEW text \in {"brief", "pasted"}, Ask(text) PROVE TranscriptInv' /\ Grows
  BY <1>1, AskStep
<1>2. CASE Nudge
  BY <1>2, NudgeStep
<1>3. CASE LeaveTurn
  BY <1>3, LeaveTurnStep
<1>4. ASSUME NEW next \in {"idle", "step"}, Answer(next) PROVE TranscriptInv' /\ Grows
  BY <1>4, AnswerStep
<1>5. ASSUME NEW calls \in Batches, AskTools(calls) PROVE TranscriptInv' /\ Grows
  BY <1>5, AskToolsStep
<1>6. ASSUME NEW text \in Sizes, AddResult(text) PROVE TranscriptInv' /\ Grows
  BY <1>6, AddResultStep
<1>7. CASE MaybeCompact
  BY <1>7, MaybeCompactStep
<1>8. CASE CompactNow
  BY <1>8, CompactNowStep
<1>9. ASSUME NEW b \in bounds, SummarizeFrom(b) \/ SummarizeUpTo(b) PROVE TranscriptInv' /\ Grows
  BY <1>9, SummarizeFromStep, SummarizeUpToStep
<1>10. CASE Save
  BY <1>10, SaveStep
<1>11. CASE Restart
  BY <1>11, RestartStep
<1>12. CASE UNCHANGED transcriptVars
  <2>1. UNCHANGED <<list, phase, then, latch, archive, row, bounds, marks, disk, diskPast, added, past, clean>>
    BY <1>12 DEF transcriptVars, foldVars, diskVars
  <2>2. ListTypes' /\ OwedInv' /\ AskedInv'
    BY <2>1 DEF TranscriptInv, ListTypes, OwedInv, AskedInv, Boxed
  <2>3. ControlTypes' /\ BatchInv' /\ LatchInv'
    BY <2>1 DEF TranscriptInv, ControlTypes, BatchInv, LatchInv, OpenBatch
  <2> QED
    BY <1>12, <2>2, <2>3 DEF TranscriptInv
<1> QED
  BY <1>1, <1>2, <1>3, <1>4, <1>5, <1>6, <1>7, <1>8, <1>9, <1>10, <1>11, <1>12, Zenon DEF TranscriptNext

-----------------------------------------------------------------------------
(* The theorems.                                                           *)

LEMMA TranscriptInvHolds == TranscriptSpec => []TranscriptInv
<1>1. TranscriptInit => TranscriptInv
  BY TypedInit
<1>2. TranscriptInv /\ [TranscriptNext]_transcriptVars => TranscriptInv'
  BY TranscriptKept
<1> QED
  BY <1>1, <1>2, PTL DEF TranscriptSpec

(* The variables keep their types, and the loop waits for results only     *)
(* right after a call that is short of some.                               *)
THEOREM TranscriptTypeCorrect == TranscriptSpec => []TranscriptTypes
<1>1. TranscriptInv => TranscriptTypes
  <2> SUFFICES ASSUME TranscriptInv PROVE TranscriptTypes
    OBVIOUS
  <2>1. ASSUME NEW ms \in History, NEW m \in Range(ms)
        PROVE  /\ m.role \in Roles /\ m.text \in Texts /\ m.n \in -MaxOld..MaxMessages
               /\ m.calls # <<>> => m.role = "assistant"
               /\ m.text \in {"long", "huge", "trimmed", "elided"} => IsTool(m)
    <3>1. ms \in Seq(Messages)
      BY DEF History, TranscriptInv, ListTypes
    <3>2. m \in Messages
      BY <3>1, RangeOfSeq
    <3> QED
      BY <3>2 DEF Messages, Labels
  <2>2. phase = "tools" => \E i \in DOMAIN list : /\ Asks(list[i]) /\ RunEnd(list, i) = Len(list)
                                                  /\ Len(list) - i < Len(list[i].calls)
    BY DEF TranscriptInv, BatchInv, OpenBatch
  <2>3. /\ phase \in {"idle", "step", "tools", "review"} /\ then \in {"idle", "step"}
        /\ bounds \subseteq marks /\ marks \subseteq Nat /\ added \in 0..MaxMessages
    BY DEF TranscriptInv, ControlTypes, ListTypes
  <2>4. row \in Nat
    BY DEF TranscriptInv, LatchInv
  <2> QED
    BY <2>1, <2>2, <2>3, <2>4 DEF TranscriptTypes
<1> QED
  BY <1>1, TranscriptInvHolds, PTL

(* Maintenance that does not help stops, whatever the prompts, the tail    *)
(* and the folds are worth: the latch counts the folds of the row.         *)
THEOREM FoldingStopsForGood == TranscriptSpec => []FoldingStops
<1>1. TranscriptInv => FoldingStops
  BY DEF TranscriptInv, LatchInv, FoldingStops
<1> QED
  BY <1>1, TranscriptInvHolds, PTL

(* Whatever the list, and wherever a fold cuts it, what was said is found  *)
(* again, the words of the user stay as they are and in their order, and   *)
(* what one summary tells the next one tells.                              *)
THEOREM FoldsLoseNothing == TranscriptSpec => FoldsKeepAll
<1>1. TranscriptInv => NothingLost /\ UserTurnsKept
  <2> SUFFICES ASSUME TranscriptInv PROVE NothingLost /\ UserTurnsKept
    OBVIOUS
  <2>1. Firm(list) \subseteq Numbers(list) \cup Told(list)
    BY DEF Firm, Told
  <2> QED
    BY <2>1 DEF TranscriptInv, OwedInv, AskedInv, Boxed, NothingLost, UserTurnsKept
<1>2. TranscriptInv /\ [TranscriptNext]_transcriptVars
        => [Restart \/ Told(list) \subseteq Told(list') \/ Summary({}) \in Range(list')]_transcriptVars
  BY TranscriptKept DEF Grows
<1>3. TranscriptSpec => [](NothingLost /\ UserTurnsKept)
  BY <1>1, TranscriptInvHolds, PTL
<1>4. TranscriptSpec => SummariesGrow
  BY <1>2, TranscriptInvHolds, PTL DEF TranscriptSpec, SummariesGrow
<1> QED
  BY <1>3, <1>4 DEF FoldsKeepAll

-----------------------------------------------------------------------------
(* A list cut before a message that is no result: what the repair makes of *)
(* it is what it makes of the two parts.                                   *)
Opens(b) == b = <<>> \/ ~IsTool(b[1])

LEMMA ConcatIs ==
  ASSUME NEW T, NEW s \in Seq(T), NEW b \in Seq(T)
  PROVE  /\ s \o b \in Seq(T) /\ Len(s \o b) = Len(s) + Len(b) /\ Len(s) \in Nat /\ Len(b) \in Nat
         /\ DOMAIN s = 1..Len(s) /\ DOMAIN b = 1..Len(b) /\ DOMAIN (s \o b) = 1..(Len(s) + Len(b))
         /\ \A i \in 1..Len(s) : (s \o b)[i] = s[i]
         /\ \A i \in 1..Len(b) : (s \o b)[Len(s) + i] = b[i]
<1>1. /\ s \o b \in Seq(T) /\ Len(s \o b) = Len(s) + Len(b)
      /\ \A i \in 1..(Len(s) + Len(b)) : (s \o b)[i] = IF i <= Len(s) THEN s[i] ELSE b[i - Len(s)]
  BY ConcatProperties
<1>2. Len(s) \in Nat /\ Len(b) \in Nat /\ DOMAIN s = 1..Len(s) /\ DOMAIN b = 1..Len(b)
  OBVIOUS
<1> DEFINE c == s \o b
<1> HIDE DEF c
<1>3. c \in Seq(T) /\ Len(c) = Len(s) + Len(b) /\ DOMAIN c = 1..(Len(s) + Len(b))
  BY <1>1, <1>2 DEF c
<1>4. \A i \in 1..(Len(s) + Len(b)) : c[i] = IF i <= Len(s) THEN s[i] ELSE b[i - Len(s)]
  BY <1>1 DEF c
<1>5. \A i \in 1..Len(s) : c[i] = s[i]
  BY <1>2, <1>4
<1>6. ASSUME NEW i \in 1..Len(b) PROVE c[Len(s) + i] = b[i]
  <2>1. Len(s) + i \in 1..(Len(s) + Len(b)) /\ ~(Len(s) + i <= Len(s)) /\ (Len(s) + i) - Len(s) = i
    BY <1>2
  <2> QED
    BY <1>4, <2>1
<1> QED
  BY <1>2, <1>3, <1>5, <1>6 DEF c

LEMMA RunEndCut ==
  ASSUME NEW T, NEW s \in Seq(T), NEW b \in Seq(T), Opens(b)
  PROVE  /\ \A i \in 1..Len(s) : RunEnd(s \o b, i) = RunEnd(s, i)
         /\ \A i \in 1..Len(b) : RunEnd(s \o b, Len(s) + i) = Len(s) + RunEnd(b, i)
<1> DEFINE c == s \o b
<1>1. /\ c \in Seq(T) /\ Len(c) = Len(s) + Len(b) /\ Len(s) \in Nat /\ Len(b) \in Nat
      /\ DOMAIN s = 1..Len(s) /\ DOMAIN b = 1..Len(b) /\ DOMAIN c = 1..(Len(s) + Len(b))
      /\ \A i \in 1..Len(s) : c[i] = s[i]
      /\ \A i \in 1..Len(b) : c[Len(s) + i] = b[i]
  BY ConcatIs
<1> HIDE DEF c
<1>2. ASSUME NEW i \in 1..Len(s) PROVE RunEnd(c, i) = RunEnd(s, i)
  <2> DEFINE e == RunEnd(s, i)
  <2>1. IsRunEnd(s, i, e)
    BY <1>1, RunEndIs
  <2> HIDE DEF e
  <2>2. e \in i..Len(s) /\ (\A k \in (i + 1)..e : IsTool(s[k])) /\ (e = Len(s) \/ ~IsTool(s[e + 1]))
    BY <2>1 DEF IsRunEnd
  <2>0. Len(c) = Len(s) + Len(b) /\ Len(s) \in Nat /\ Len(b) \in Nat /\ i \in Nat /\ 1 <= i /\ e \in i..Len(s)
    <3>1. Len(c) = Len(s) + Len(b) /\ Len(s) \in Nat /\ Len(b) \in Nat
      BY <1>1
    <3>2. e \in i..Len(s)
      BY <2>2
    <3> QED
      BY <3>1, <3>2
  <2>3. e \in i..Len(c) /\ e \in Nat
    BY <2>0
  <2>4. ASSUME NEW k \in (i + 1)..e PROVE IsTool(c[k])
    <3>1. k \in 1..Len(s)
      BY <2>0
    <3> QED
      BY <1>1, <2>2, <3>1
  <2>5. e = Len(c) \/ ~IsTool(c[e + 1])
    <3>1. CASE e < Len(s)
      <4>1. e + 1 \in 1..Len(s) /\ e # Len(s)
        BY <2>0, <3>1
      <4> QED
        BY <1>1, <2>2, <4>1
    <3>2. CASE e = Len(s) /\ b # <<>>
      <4>1. 1 \in 1..Len(b)
        BY <1>1, <3>2
      <4>2. c[e + 1] = b[1]
        BY <1>1, <3>2, <4>1
      <4> QED
        BY <3>2, <4>2 DEF Opens
    <3>3. CASE e = Len(s) /\ b = <<>>
      <4>1. Len(b) = 0
        BY <3>3
      <4> QED
        BY <2>0, <3>3, <4>1
    <3>4. e < Len(s) \/ e = Len(s)
      BY <2>0
    <3> QED
      BY <3>1, <3>2, <3>3, <3>4
  <2>6. IsRunEnd(c, i, e)
    BY <2>3, <2>4, <2>5 DEF IsRunEnd
  <2>7. i \in DOMAIN c
    BY <1>1
  <2> QED
    BY <1>1, <2>6, <2>7, OneRunEnd DEF e
<1>3. ASSUME NEW i \in 1..Len(b) PROVE RunEnd(c, Len(s) + i) = Len(s) + RunEnd(b, i)
  <2> DEFINE e == RunEnd(b, i)
  <2>1. IsRunEnd(b, i, e)
    BY <1>1, RunEndIs
  <2> HIDE DEF e
  <2>2. e \in i..Len(b) /\ (\A k \in (i + 1)..e : IsTool(b[k])) /\ (e = Len(b) \/ ~IsTool(b[e + 1]))
    BY <2>1 DEF IsRunEnd
  <2>0. Len(c) = Len(s) + Len(b) /\ Len(s) \in Nat /\ Len(b) \in Nat /\ i \in Nat /\ 1 <= i /\ e \in i..Len(b)
    <3>1. Len(c) = Len(s) + Len(b) /\ Len(s) \in Nat /\ Len(b) \in Nat
      BY <1>1
    <3>2. e \in i..Len(b)
      BY <2>2
    <3> QED
      BY <3>1, <3>2
  <2>3. Len(s) + e \in (Len(s) + i)..Len(c)
    BY <2>0
  <2>4. ASSUME NEW k \in ((Len(s) + i) + 1)..(Len(s) + e) PROVE IsTool(c[k])
    <3>1. k - Len(s) \in (i + 1)..e /\ k - Len(s) \in 1..Len(b) /\ Len(s) + (k - Len(s)) = k
      BY <2>0
    <3>2. c[k] = b[k - Len(s)]
      BY <1>1, <3>1
    <3> QED
      BY <2>2, <3>1, <3>2
  <2>5. Len(s) + e = Len(c) \/ ~IsTool(c[(Len(s) + e) + 1])
    <3>1. CASE e = Len(b)
      BY <1>1, <3>1
    <3>2. CASE e # Len(b)
      <4>1. e + 1 \in 1..Len(b) /\ (Len(s) + e) + 1 = Len(s) + (e + 1)
        <5> PICK n \in Nat, l \in Nat : n = Len(b) /\ l = Len(s)
          BY <1>1
        <5>1. e \in 1..n /\ e # n
          BY <2>0, <3>2
        <5>2. e + 1 \in 1..n
          BY <5>1
        <5>3. (l + e) + 1 = l + (e + 1)
          BY <5>1
        <5> QED
          BY <5>2, <5>3
      <4>2. c[(Len(s) + e) + 1] = b[e + 1]
        BY <1>1, <4>1
      <4> QED
        BY <2>2, <3>2, <4>2
    <3> QED
      BY <3>1, <3>2
  <2>6. IsRunEnd(c, Len(s) + i, Len(s) + e)
    BY <2>3, <2>4, <2>5 DEF IsRunEnd
  <2>7. Len(s) + i \in DOMAIN c
    BY <1>1
  <2> QED
    BY <1>1, <2>6, <2>7, OneRunEnd DEF e
<1> QED
  BY <1>2, <1>3 DEF c

LEMMA ResultsCut ==
  ASSUME NEW T, NEW s \in Seq(T), NEW b \in Seq(T), Opens(b)
  PROVE  /\ \A i \in 1..Len(s) : Results(s \o b, i) = Results(s, i)
         /\ \A i \in 1..Len(b) : Results(s \o b, Len(s) + i) = Results(b, i)
<1> DEFINE c == s \o b
<1>1. /\ c \in Seq(T) /\ Len(c) = Len(s) + Len(b) /\ Len(s) \in Nat /\ Len(b) \in Nat
      /\ DOMAIN s = 1..Len(s) /\ DOMAIN b = 1..Len(b) /\ DOMAIN c = 1..(Len(s) + Len(b))
      /\ \A i \in 1..Len(s) : c[i] = s[i]
      /\ \A i \in 1..Len(b) : c[Len(s) + i] = b[i]
  BY ConcatIs
<1>2. /\ \A i \in 1..Len(s) : RunEnd(c, i) = RunEnd(s, i)
      /\ \A i \in 1..Len(b) : RunEnd(c, Len(s) + i) = Len(s) + RunEnd(b, i)
  BY RunEndCut
<1> HIDE DEF c
<1>3. ASSUME NEW i \in 1..Len(s) PROVE Results(c, i) = Results(s, i)
  <2> DEFINE p == Results(c, i)
             q == Results(s, i)
  <2>1. i \in DOMAIN c /\ i \in DOMAIN s /\ RunEnd(s, i) \in i..Len(s)
    BY <1>1, RunEndIs DEF IsRunEnd
  <2>2. /\ p \in Seq(T) /\ Len(p) = RunEnd(s, i) - i /\ \A k \in DOMAIN p : p[k] = c[i + k]
        /\ q \in Seq(T) /\ Len(q) = RunEnd(s, i) - i /\ \A k \in DOMAIN q : q[k] = s[i + k]
    <3>1. p \in Seq(T) /\ Len(p) = RunEnd(c, i) - i /\ \A k \in DOMAIN p : p[k] = c[i + k]
      BY <1>1, <2>1, ResultsAre
    <3>2. q \in Seq(T) /\ Len(q) = RunEnd(s, i) - i /\ \A k \in DOMAIN q : q[k] = s[i + k]
      BY <2>1, ResultsAre
    <3> HIDE DEF p, q
    <3> QED
      BY <1>2, <3>1, <3>2
  <2> HIDE DEF p, q
  <2>3. DOMAIN p = 1..Len(p) /\ DOMAIN q = 1..Len(p) /\ Len(p) = Len(q)
    BY <2>2
  <2>4. ASSUME NEW k \in 1..Len(p) PROVE p[k] = q[k]
    <3>1. i + k \in 1..Len(s)
      BY <1>1, <2>1, <2>2
    <3> QED
      BY <1>1, <2>2, <2>3, <3>1
  <2> QED
    BY <2>2, <2>3, <2>4, SeqEqual DEF p, q
<1>4. ASSUME NEW i \in 1..Len(b) PROVE Results(c, Len(s) + i) = Results(b, i)
  <2> DEFINE p == Results(c, Len(s) + i)
             q == Results(b, i)
  <2>1. Len(s) + i \in DOMAIN c /\ i \in DOMAIN b /\ RunEnd(b, i) \in i..Len(b)
    BY <1>1, RunEndIs DEF IsRunEnd
  <2>2. /\ p \in Seq(T) /\ Len(p) = (Len(s) + RunEnd(b, i)) - (Len(s) + i)
        /\ \A k \in DOMAIN p : p[k] = c[(Len(s) + i) + k]
        /\ q \in Seq(T) /\ Len(q) = RunEnd(b, i) - i /\ \A k \in DOMAIN q : q[k] = b[i + k]
    <3>1. /\ p \in Seq(T) /\ Len(p) = RunEnd(c, Len(s) + i) - (Len(s) + i)
          /\ \A k \in DOMAIN p : p[k] = c[(Len(s) + i) + k]
      BY <1>1, <2>1, ResultsAre
    <3>2. q \in Seq(T) /\ Len(q) = RunEnd(b, i) - i /\ \A k \in DOMAIN q : q[k] = b[i + k]
      BY <2>1, ResultsAre
    <3> HIDE DEF p, q
    <3> QED
      BY <1>2, <3>1, <3>2
  <2> HIDE DEF p, q
  <2>3. Len(p) = RunEnd(b, i) - i
    BY <1>1, <2>1, <2>2
  <2>4. DOMAIN p = 1..Len(p) /\ DOMAIN q = 1..Len(p) /\ Len(p) = Len(q)
    BY <2>2, <2>3
  <2>5. ASSUME NEW k \in 1..Len(p) PROVE p[k] = q[k]
    <3>1. i + k \in 1..Len(b) /\ (Len(s) + i) + k = Len(s) + (i + k)
      BY <1>1, <2>1, <2>3
    <3>2. c[(Len(s) + i) + k] = b[i + k]
      BY <1>1, <3>1
    <3> QED
      BY <2>2, <2>4, <3>2
  <2> QED
    BY <2>2, <2>4, <2>5, SeqEqual DEF p, q
<1> QED
  BY <1>3, <1>4 DEF c

LEMMA ClaimedCut ==
  ASSUME NEW T, NEW s \in Seq(T), NEW b \in Seq(T), Opens(b)
  PROVE  /\ \A i \in 1..Len(s) : Claimed(s \o b, i) <=> Claimed(s, i)
         /\ \A i \in 1..Len(b) : Claimed(s \o b, Len(s) + i) <=> Claimed(b, i)
<1> DEFINE c == s \o b
<1>1. /\ c \in Seq(T) /\ Len(c) = Len(s) + Len(b) /\ Len(s) \in Nat /\ Len(b) \in Nat
      /\ DOMAIN s = 1..Len(s) /\ DOMAIN b = 1..Len(b) /\ DOMAIN c = 1..(Len(s) + Len(b))
      /\ \A i \in 1..Len(s) : c[i] = s[i]
      /\ \A i \in 1..Len(b) : c[Len(s) + i] = b[i]
  BY ConcatIs
<1>2. /\ \A i \in 1..Len(s) : RunEnd(c, i) = RunEnd(s, i)
      /\ \A i \in 1..Len(b) : RunEnd(c, Len(s) + i) = Len(s) + RunEnd(b, i)
  BY RunEndCut
<1> HIDE DEF c
<1>3. ASSUME NEW i \in 1..Len(s) PROVE Claimed(c, i) <=> Claimed(s, i)
  <2>1. \A a \in 1..(i - 1) : a \in 1..Len(s)
    BY <1>1
  <2> QED
    BY <1>1, <1>2, <2>1 DEF Claimed
<1>4. ASSUME NEW i \in 1..Len(b) PROVE Claimed(c, Len(s) + i) <=> Claimed(b, i)
  <2>1. ASSUME Claimed(c, Len(s) + i) PROVE Claimed(b, i)
    <3>1. PICK a \in 1..((Len(s) + i) - 1) : Asks(c[a]) /\ Len(s) + i <= RunEnd(c, a)
      BY <2>1 DEF Claimed
    <3>2. a \notin 1..Len(s)
      <4> SUFFICES ASSUME a \in 1..Len(s) PROVE FALSE
        OBVIOUS
      <4>1. RunEnd(s, a) \in a..Len(s)
        BY <1>1, RunEndIs DEF IsRunEnd
      <4> QED
        BY <1>1, <1>2, <3>1, <4>1
    <3>3. PICK k \in 1..(i - 1) : a = Len(s) + k
      <4>1. a - Len(s) \in 1..(i - 1) /\ a = Len(s) + (a - Len(s))
        BY <1>1, <3>2
      <4> QED
        BY <4>1
    <3>4. k \in 1..Len(b)
      BY <1>1
    <3>5. RunEnd(b, k) \in k..Len(b)
      BY <1>1, <3>4, RunEndIs DEF IsRunEnd
    <3>6. Asks(b[k]) /\ RunEnd(c, a) = Len(s) + RunEnd(b, k)
      BY <1>1, <1>2, <3>1, <3>3, <3>4
    <3>7. i <= RunEnd(b, k)
      BY <1>1, <3>1, <3>5, <3>6
    <3> QED
      BY <3>6, <3>7 DEF Claimed
  <2>2. ASSUME Claimed(b, i) PROVE Claimed(c, Len(s) + i)
    <3>1. PICK k \in 1..(i - 1) : Asks(b[k]) /\ i <= RunEnd(b, k)
      BY <2>2 DEF Claimed
    <3>2. k \in 1..Len(b) /\ Len(s) + k \in 1..((Len(s) + i) - 1)
      BY <1>1
    <3>3. RunEnd(b, k) \in k..Len(b)
      BY <1>1, <3>2, RunEndIs DEF IsRunEnd
    <3>4. Asks(c[Len(s) + k]) /\ Len(s) + i <= RunEnd(c, Len(s) + k)
      BY <1>1, <1>2, <3>1, <3>2, <3>3
    <3> QED
      BY <3>2, <3>4 DEF Claimed
  <2> QED
    BY <2>1, <2>2
<1> QED
  BY <1>3, <1>4 DEF c

-----------------------------------------------------------------------------
(* The results of a repaired turn.                                         *)
LEMMA LastAnswer ==
  ASSUME NEW T, NEW avail \in Seq(T), NEW c, Answers(avail, c) # {}
  PROVE  LET i == CHOOSE x \in Answers(avail, c) : \A j \in Answers(avail, c) : j <= x
         IN /\ i \in 1..Len(avail) /\ avail[i].to = c.id
            /\ \A j \in Answers(avail, c) : j <= i
<1> DEFINE S == Answers(avail, c)
<1>1. S \subseteq 0..Len(avail) /\ Len(avail) \in Nat /\ S # {}
  BY DEF Answers
<1>2. \A x \in S : x \in 1..Len(avail) /\ avail[x].to = c.id
  BY DEF Answers
<1> HIDE DEF S
<1>3. \E x \in S : \A j \in S : j <= x
  BY <1>1, MaxMin
<1> DEFINE i == CHOOSE x \in S : \A j \in S : j <= x
<1>4. i \in S /\ \A j \in S : j <= i
  BY <1>3
<1> QED
  BY <1>2, <1>4 DEF S

\* Where the k-th result comes from.
From(calls, avail, k, j) ==
  j \in 1..Len(avail) /\ IF IdDistinct(calls) THEN avail[j].to = calls[k].id ELSE j = k

LEMMA PairedIs ==
  ASSUME NEW calls \in Seq(CallsMade), NEW avail \in Seq(Messages), \A m \in Range(avail) : IsTool(m)
  PROVE  LET rs == PairToolResults(calls, avail)
         IN /\ rs \in Seq(Messages) /\ Len(rs) = Len(calls)
            /\ \A k \in 1..Len(calls) :
                 /\ IsTool(rs[k]) /\ rs[k].to = calls[k].id /\ rs[k].calls = <<>>
                 /\ rs[k].n = 0 \/ \E j : From(calls, avail, k, j) /\ rs[k].n = avail[j].n
<1> DEFINE rs == PairToolResults(calls, avail)
<1>1. DOMAIN calls = 1..Len(calls) /\ Len(calls) \in Nat /\ DOMAIN avail = 1..Len(avail) /\ Len(avail) \in Nat
  OBVIOUS
<1>2. \A j \in 1..Len(avail) : avail[j] \in Messages /\ IsTool(avail[j])
  BY DEF Range
<1>3. \A m \in Messages : IsTool(m) => m.calls = <<>>
  BY DEF Messages, IsTool
<1>4. ASSUME NEW k \in 1..Len(calls)
      PROVE  /\ calls[k] \in CallsMade /\ Placeholder(calls[k]) \in Messages /\ IsTool(Placeholder(calls[k]))
             /\ Placeholder(calls[k]).n = 0 /\ Placeholder(calls[k]).to = calls[k].id
  BY PlaceholderIs
<1>5. CASE IdDistinct(calls)
  <2> DEFINE r(k) == IF Answers(avail, calls[k]) = {} THEN Placeholder(calls[k])
                     ELSE avail[CHOOSE i \in Answers(avail, calls[k]) : \A j \in Answers(avail, calls[k]) : j <= i]
  <2>1. rs = [k \in 1..Len(calls) |-> r(k)]
    BY <1>1, <1>5 DEF PairToolResults, PairById
  <2>2. ASSUME NEW k \in 1..Len(calls)
        PROVE  /\ r(k) \in Messages /\ IsTool(r(k)) /\ r(k).to = calls[k].id
               /\ r(k).n = 0 \/ \E j : From(calls, avail, k, j) /\ r(k).n = avail[j].n
    <3>1. CASE Answers(avail, calls[k]) = {}
      BY <1>4, <3>1
    <3>2. CASE Answers(avail, calls[k]) # {}
      <4>1. PICK i : i = CHOOSE x \in Answers(avail, calls[k]) : \A j \in Answers(avail, calls[k]) : j <= x
        OBVIOUS
      <4>2. i \in 1..Len(avail) /\ avail[i].to = calls[k].id
        BY <3>2, <4>1, LastAnswer
      <4>3. r(k) = avail[i]
        BY <3>2, <4>1
      <4>4. From(calls, avail, k, i)
        BY <1>5, <4>2 DEF From
      <4> QED
        BY <1>2, <4>2, <4>3, <4>4
    <3> QED
      BY <3>1, <3>2
  <2> HIDE DEF r
  <2>3. rs \in Seq(Messages) /\ Len(rs) = Len(calls) /\ \A k \in 1..Len(calls) : rs[k] = r(k)
    <3>1. rs \in [1..Len(calls) -> Messages]
      BY <2>1, <2>2
    <3> QED
      BY <1>1, <2>1, <3>1, FunctionIsSeq
  <2> HIDE DEF rs
  <2> QED
    BY <1>3, <2>2, <2>3 DEF rs
<1>6. CASE ~IdDistinct(calls)
  <2> DEFINE r(k) == IF k <= Len(avail) THEN [avail[k] EXCEPT !.to = calls[k].id] ELSE Placeholder(calls[k])
  <2>1. rs = [k \in 1..Len(calls) |-> r(k)]
    BY <1>1, <1>6 DEF PairToolResults, PairByPlace
  <2>2. ASSUME NEW k \in 1..Len(calls)
        PROVE  /\ r(k) \in Messages /\ IsTool(r(k)) /\ r(k).to = calls[k].id
               /\ r(k).n = 0 \/ \E j : From(calls, avail, k, j) /\ r(k).n = avail[j].n
    <3>1. CASE k > Len(avail)
      <4>1. r(k) = Placeholder(calls[k])
        BY <1>1, <3>1
      <4> QED
        BY <1>4, <4>1
    <3>2. CASE k <= Len(avail)
      <4>1. k \in 1..Len(avail) /\ r(k) = [avail[k] EXCEPT !.to = calls[k].id]
        BY <1>1, <3>2
      <4>2. avail[k] \in Messages /\ IsTool(avail[k]) /\ calls[k].id \in Ids
        BY <1>2, <1>4, <4>1 DEF CallsMade
      <4>3. From(calls, avail, k, k)
        BY <1>6, <4>1 DEF From
      <4>4. r(k) \in Messages /\ IsTool(r(k)) /\ r(k).to = calls[k].id /\ r(k).n = avail[k].n
        <5> DEFINE m == avail[k]
                   id == calls[k].id
        <5> HIDE DEF m, id
        <5>1. m \in Messages /\ IsTool(m) /\ id \in Ids
          BY <4>2 DEF m, id
        <5>2. [m EXCEPT !.to = id] \in Messages /\ IsTool([m EXCEPT !.to = id])
              /\ [m EXCEPT !.to = id].to = id /\ [m EXCEPT !.to = id].n = m.n
          BY <5>1 DEF Messages, IsTool
        <5> HIDE DEF r
        <5> QED
          BY <4>1, <5>2 DEF m, id
      <4> QED
        BY <4>3, <4>4
    <3> QED
      BY <1>1, <3>1, <3>2
  <2> HIDE DEF r
  <2>3. rs \in Seq(Messages) /\ Len(rs) = Len(calls) /\ \A k \in 1..Len(calls) : rs[k] = r(k)
    <3>1. rs \in [1..Len(calls) -> Messages]
      BY <2>1, <2>2
    <3> QED
      BY <1>1, <2>1, <3>1, FunctionIsSeq
  <2> HIDE DEF rs
  <2> QED
    BY <1>3, <2>2, <2>3 DEF rs
<1> QED
  BY <1>5, <1>6

\* The calls of a repaired turn, and the results it is given.
MendedCalls(m, rs) == RepairToolCallArgs(BackfillToolCallNames(m.calls, rs))
Mended(m, rs) == [m EXCEPT !.calls = MendedCalls(m, rs)]
Given(m, rs, drop) ==
  IF drop THEN PairToolResults(MendedCalls(m, rs), rs) ELSE SessionToolResults(MendedCalls(m, rs), rs)

LEMMA MendedIs ==
  ASSUME NEW m \in Messages, Asks(m), NEW rs \in Seq(Messages), \A r \in Range(rs) : IsTool(r), NEW drop \in BOOLEAN
  PROVE  /\ Mended(m, rs) \in Messages /\ Asks(Mended(m, rs)) /\ Mended(m, rs).n = m.n
         /\ MendedCalls(m, rs) \in Seq(CallsMade) /\ Len(MendedCalls(m, rs)) = Len(m.calls)
         /\ \A k \in 1..Len(m.calls) : /\ MendedCalls(m, rs)[k].id = m.calls[k].id
                                       /\ MendedCalls(m, rs)[k].cut = FALSE
         /\ Mended(m, rs).calls = MendedCalls(m, rs)
         /\ Given(m, rs, drop) \in Seq(Messages) /\ \A r \in Range(Given(m, rs, drop)) : IsTool(r)
<1> DEFINE cs == MendedCalls(m, rs)
<1>1. m.calls \in Seq(CallsMade) /\ m.calls # <<>> /\ m.role = "assistant"
  BY DEF Messages, Asks
<1>2. /\ cs \in Seq(CallsMade) /\ Len(cs) = Len(m.calls)
      /\ \A k \in DOMAIN m.calls : cs[k].id = m.calls[k].id /\ cs[k].cut = FALSE
  BY <1>1, CallsRepaired DEF MendedCalls
<1> HIDE DEF cs
<1>3. DOMAIN m.calls = 1..Len(m.calls) /\ cs # <<>>
  BY <1>1, <1>2
<1>4. [m EXCEPT !.calls = cs] \in Messages /\ Asks([m EXCEPT !.calls = cs])
      /\ [m EXCEPT !.calls = cs].n = m.n /\ [m EXCEPT !.calls = cs].calls = cs
  BY <1>1, <1>2, <1>3 DEF Messages, Asks, IsTool
<1>5. Given(m, rs, drop) \in Seq(Messages) /\ \A r \in Range(Given(m, rs, drop)) : IsTool(r)
  <2>1. CASE drop
    <3>1. /\ PairToolResults(cs, rs) \in Seq(Messages) /\ Len(PairToolResults(cs, rs)) = Len(cs)
          /\ \A k \in 1..Len(cs) : IsTool(PairToolResults(cs, rs)[k])
      BY <1>2, PairedIs
    <3>2. \A r \in Range(PairToolResults(cs, rs)) : IsTool(r)
      BY <3>1 DEF Range
    <3> QED
      BY <2>1, <3>1, <3>2 DEF Given, cs
  <2>2. CASE ~drop
    BY <1>2, <2>2, KeptResultsAre DEF Given, cs
  <2> QED
    BY <2>1, <2>2
<1> QED
  BY <1>2, <1>3, <1>4, <1>5 DEF Mended, cs

LEMMA RepairedIsMended ==
  ASSUME NEW ms, NEW i, Asks(ms[i]), NEW drop \in BOOLEAN
  PROVE  Repaired(ms, i, drop) = <<Mended(ms[i], Results(ms, i))>> \o Given(ms[i], Results(ms, i), drop)
BY DEF Repaired, RepairedTurn, Mended, Given, MendedCalls

LEMMA ResultsAreTools ==
  ASSUME NEW T, NEW ms \in Seq(T), NEW i \in DOMAIN ms
  PROVE  Results(ms, i) \in Seq(T) /\ \A r \in Range(Results(ms, i)) : IsTool(r)
<1>1. /\ Results(ms, i) \in Seq(T)
      /\ \A k \in DOMAIN Results(ms, i) : Results(ms, i)[k] = ms[i + k] /\ IsTool(ms[i + k])
  BY ResultsAre
<1>2. \A k \in DOMAIN Results(ms, i) : IsTool(Results(ms, i)[k])
  BY <1>1
<1> QED
  BY <1>1, <1>2 DEF Range

LEMMA RepairedType ==
  ASSUME NEW ms \in Seq(Messages), NEW i \in 1..Len(ms), NEW drop \in BOOLEAN
  PROVE  Repaired(ms, i, drop) \in Seq(Messages)
<1>1. ms[i] \in Messages /\ i \in DOMAIN ms
  OBVIOUS
<1>2. CASE Asks(ms[i])
  <2> DEFINE m == Mended(ms[i], Results(ms, i))
             g == Given(ms[i], Results(ms, i), drop)
  <2>1. Results(ms, i) \in Seq(Messages) /\ \A r \in Range(Results(ms, i)) : IsTool(r)
    BY <1>1, ResultsAreTools
  <2>2. m \in Messages /\ g \in Seq(Messages)
    BY <1>1, <1>2, <2>1, MendedIs
  <2>3. Repaired(ms, i, drop) = <<m>> \o g
    BY <1>2, RepairedIsMended
  <2> HIDE DEF m, g
  <2> QED
    BY <2>2, <2>3
<1>3. CASE ~Asks(ms[i])
  BY <1>1, <1>3 DEF Repaired
<1> QED
  BY <1>2, <1>3

Slices(ms, drop) == [i \in DOMAIN ms |-> Repaired(ms, i, drop)]

LEMMA SlowType ==
  ASSUME NEW ms \in Seq(Messages), NEW drop \in BOOLEAN
  PROVE  /\ Slices(ms, drop) \in Seq(Seq(Messages)) /\ Len(Slices(ms, drop)) = Len(ms)
         /\ SlowPath(ms, drop) = FlattenSeq(Slices(ms, drop)) /\ SlowPath(ms, drop) \in Seq(Messages)
<1>1. DOMAIN ms = 1..Len(ms) /\ Len(ms) \in Nat
  OBVIOUS
<1>2. Slices(ms, drop) \in [1..Len(ms) -> Seq(Messages)]
  BY <1>1, RepairedType DEF Slices
<1>3. Slices(ms, drop) \in Seq(Seq(Messages)) /\ Len(Slices(ms, drop)) = Len(ms)
  BY <1>1, <1>2, FunctionIsSeq
<1>4. SlowPath(ms, drop) = FlattenSeq(Slices(ms, drop))
  BY DEF SlowPath, Slices
<1> QED
  BY <1>3, <1>4, FlattenType

LEMMA SlowCut ==
  ASSUME NEW s \in Seq(Messages), NEW b \in Seq(Messages), Opens(b), NEW drop \in BOOLEAN
  PROVE  SlowPath(s \o b, drop) = SlowPath(s, drop) \o SlowPath(b, drop)
<1> DEFINE c == s \o b
           x == Slices(c, drop)
           y == Slices(s, drop)
           z == Slices(b, drop)
<1>1. /\ c \in Seq(Messages) /\ Len(c) = Len(s) + Len(b) /\ Len(s) \in Nat /\ Len(b) \in Nat
      /\ DOMAIN s = 1..Len(s) /\ DOMAIN b = 1..Len(b) /\ DOMAIN c = 1..(Len(s) + Len(b))
      /\ \A i \in 1..Len(s) : c[i] = s[i]
      /\ \A i \in 1..Len(b) : c[Len(s) + i] = b[i]
  BY ConcatIs
<1>2. /\ \A i \in 1..Len(s) : Results(c, i) = Results(s, i)
      /\ \A i \in 1..Len(b) : Results(c, Len(s) + i) = Results(b, i)
      /\ \A i \in 1..Len(s) : Claimed(c, i) <=> Claimed(s, i)
      /\ \A i \in 1..Len(b) : Claimed(c, Len(s) + i) <=> Claimed(b, i)
  BY ResultsCut, ClaimedCut
<1> HIDE DEF c
<1>3. ASSUME NEW i \in 1..Len(s) PROVE Repaired(c, i, drop) = Repaired(s, i, drop)
  BY <1>1, <1>2 DEF Repaired, RepairedTurn
<1>4. ASSUME NEW i \in 1..Len(b) PROVE Repaired(c, Len(s) + i, drop) = Repaired(b, i, drop)
  BY <1>1, <1>2 DEF Repaired, RepairedTurn
<1>5. /\ x \in Seq(Seq(Messages)) /\ Len(x) = Len(s) + Len(b) /\ y \in Seq(Seq(Messages)) /\ Len(y) = Len(s)
      /\ z \in Seq(Seq(Messages)) /\ Len(z) = Len(b)
      /\ SlowPath(c, drop) = FlattenSeq(x) /\ SlowPath(s, drop) = FlattenSeq(y) /\ SlowPath(b, drop) = FlattenSeq(z)
  BY <1>1, SlowType
<1>6. /\ \A i \in 1..Len(s) : x[i] = Repaired(s, i, drop) /\ y[i] = Repaired(s, i, drop)
      /\ \A i \in 1..Len(b) : x[Len(s) + i] = Repaired(b, i, drop) /\ z[i] = Repaired(b, i, drop)
  <2>1. /\ \A i \in 1..(Len(s) + Len(b)) : x[i] = Repaired(c, i, drop)
        /\ \A i \in 1..Len(s) : y[i] = Repaired(s, i, drop)
        /\ \A i \in 1..Len(b) : z[i] = Repaired(b, i, drop)
    BY <1>1 DEF Slices
  <2>2. \A i \in 1..Len(s) : i \in 1..(Len(s) + Len(b))
    BY <1>1
  <2>3. \A i \in 1..Len(b) : Len(s) + i \in 1..(Len(s) + Len(b))
    BY <1>1
  <2> HIDE DEF x, y, z
  <2> QED
    BY <1>3, <1>4, <2>1, <2>2, <2>3
<1> HIDE DEF x, y, z
<1>7. x = y \o z
  <2> DEFINE w == y \o z
  <2>1. /\ w \in Seq(Seq(Messages)) /\ Len(w) = Len(s) + Len(b)
        /\ \A i \in 1..Len(s) : w[i] = y[i]
        /\ \A i \in 1..Len(b) : w[Len(s) + i] = z[i]
    <3>1. y \in Seq(Seq(Messages)) /\ z \in Seq(Seq(Messages))
      BY <1>5
    <3>2. Len(y) = Len(s) /\ Len(z) = Len(b)
      BY <1>5
    <3>3. /\ w \in Seq(Seq(Messages)) /\ Len(w) = Len(y) + Len(z)
          /\ \A i \in 1..Len(y) : w[i] = y[i]
          /\ \A i \in 1..Len(z) : w[Len(y) + i] = z[i]
      BY <3>1, ConcatIs
    <3> HIDE DEF w
    <3> QED
      BY <3>2, <3>3
  <2> HIDE DEF w
  <2>2. ASSUME NEW i \in 1..Len(x) PROVE x[i] = w[i]
    <3>1. CASE i \in 1..Len(s)
      BY <1>6, <2>1, <3>1
    <3>2. CASE i \notin 1..Len(s)
      <4>1. PICK k \in 1..Len(b) : i = Len(s) + k
        <5>1. i - Len(s) \in 1..Len(b) /\ i = Len(s) + (i - Len(s))
          BY <1>1, <1>5, <3>2
        <5> QED
          BY <5>1
      <4> QED
        BY <1>6, <2>1, <4>1
    <3> QED
      BY <3>1, <3>2
  <2> QED
    BY <1>5, <2>1, <2>2, SeqEqual DEF w
<1> QED
  BY <1>5, <1>7, FlattenConcat DEF c

LEMMA IndexOfConcat ==
  ASSUME NEW m \in Nat, NEW n \in Nat, NEW i \in 1..(m + n)
  PROVE  i \in 1..m \/ \E k \in 1..n : i = m + k
<1>1. CASE i <= m
  BY <1>1
<1>2. CASE i > m
  <2>1. i - m \in 1..n /\ i = m + (i - m)
    BY <1>2
  <2> QED
    BY <2>1
<1> QED
  BY <1>1, <1>2

\* What the fast path, and what a provider, asks of each message.
FineAt(ms, i, drop) ==
  /\ Asks(ms[i]) => /\ ToolTurnWellFormed(ms[i].calls, Results(ms, i))
                    /\ \A c \in Range(ms[i].calls) : ~c.cut
  /\ IsTool(ms[i]) /\ drop => Claimed(ms, i)
WholeAt(ms, i) ==
  /\ Asks(ms[i]) =>
       /\ Len(Results(ms, i)) = Len(ms[i].calls)
       /\ \A k \in DOMAIN ms[i].calls : Results(ms, i)[k].to = ms[i].calls[k].id
  /\ IsTool(ms[i]) => Claimed(ms, i)

LEMMA FastAt == \A ms, drop : FastPath(ms, drop) <=> \A i \in DOMAIN ms : FineAt(ms, i, drop)
BY DEF FastPath, FineAt

LEMMA WholeIs == \A ms : Whole(ms) <=> \A i \in DOMAIN ms : WholeAt(ms, i)
BY DEF Whole, WholeAt

LEMMA FastCut ==
  ASSUME NEW T, NEW s \in Seq(T), NEW b \in Seq(T), Opens(b), NEW drop \in BOOLEAN
  PROVE  FastPath(s \o b, drop) <=> FastPath(s, drop) /\ FastPath(b, drop)
<1> DEFINE c == s \o b
<1>1. /\ Len(s) \in Nat /\ Len(b) \in Nat
      /\ DOMAIN s = 1..Len(s) /\ DOMAIN b = 1..Len(b) /\ DOMAIN c = 1..(Len(s) + Len(b))
      /\ \A i \in 1..Len(s) : c[i] = s[i]
      /\ \A i \in 1..Len(b) : c[Len(s) + i] = b[i]
  BY ConcatIs
<1>2. /\ \A i \in 1..Len(s) : Results(c, i) = Results(s, i)
      /\ \A i \in 1..Len(b) : Results(c, Len(s) + i) = Results(b, i)
      /\ \A i \in 1..Len(s) : Claimed(c, i) <=> Claimed(s, i)
      /\ \A i \in 1..Len(b) : Claimed(c, Len(s) + i) <=> Claimed(b, i)
  BY ResultsCut, ClaimedCut
<1> HIDE DEF c
<1>3. \A i \in 1..Len(s) : FineAt(c, i, drop) <=> FineAt(s, i, drop)
  BY <1>1, <1>2 DEF FineAt
<1>4. \A i \in 1..Len(b) : FineAt(c, Len(s) + i, drop) <=> FineAt(b, i, drop)
  BY <1>1, <1>2 DEF FineAt
<1>5. /\ \A i \in 1..Len(s) : i \in 1..(Len(s) + Len(b))
      /\ \A i \in 1..Len(b) : Len(s) + i \in 1..(Len(s) + Len(b))
  BY <1>1
<1>6. \A i \in 1..(Len(s) + Len(b)) : i \in 1..Len(s) \/ \E k \in 1..Len(b) : i = Len(s) + k
  BY <1>1, IndexOfConcat
<1>7. (\A i \in DOMAIN c : FineAt(c, i, drop))
        <=> (\A i \in DOMAIN s : FineAt(s, i, drop)) /\ (\A i \in DOMAIN b : FineAt(b, i, drop))
  <2>1. ASSUME \A i \in DOMAIN c : FineAt(c, i, drop)
        PROVE  (\A i \in DOMAIN s : FineAt(s, i, drop)) /\ (\A i \in DOMAIN b : FineAt(b, i, drop))
    BY <1>1, <1>3, <1>4, <1>5, <2>1
  <2>2. ASSUME \A i \in DOMAIN s : FineAt(s, i, drop), \A i \in DOMAIN b : FineAt(b, i, drop),
               NEW i \in 1..(Len(s) + Len(b))
        PROVE  FineAt(c, i, drop)
    <3>1. CASE i \in 1..Len(s)
      BY <1>1, <1>3, <2>2, <3>1
    <3>2. ASSUME NEW k \in 1..Len(b), i = Len(s) + k PROVE FineAt(c, i, drop)
      BY <1>1, <1>4, <2>2, <3>2
    <3> QED
      BY <1>6, <3>1, <3>2
  <2> QED
    BY <1>1, <2>1, <2>2
<1> QED
  BY <1>7, FastAt DEF c

LEMMA WholeCut ==
  ASSUME NEW T, NEW s \in Seq(T), NEW b \in Seq(T), Opens(b)
  PROVE  Whole(s \o b) <=> Whole(s) /\ Whole(b)
<1> DEFINE c == s \o b
<1>1. /\ Len(s) \in Nat /\ Len(b) \in Nat
      /\ DOMAIN s = 1..Len(s) /\ DOMAIN b = 1..Len(b) /\ DOMAIN c = 1..(Len(s) + Len(b))
      /\ \A i \in 1..Len(s) : c[i] = s[i]
      /\ \A i \in 1..Len(b) : c[Len(s) + i] = b[i]
  BY ConcatIs
<1>2. /\ \A i \in 1..Len(s) : Results(c, i) = Results(s, i)
      /\ \A i \in 1..Len(b) : Results(c, Len(s) + i) = Results(b, i)
      /\ \A i \in 1..Len(s) : Claimed(c, i) <=> Claimed(s, i)
      /\ \A i \in 1..Len(b) : Claimed(c, Len(s) + i) <=> Claimed(b, i)
  BY ResultsCut, ClaimedCut
<1> HIDE DEF c
<1>3. \A i \in 1..Len(s) : WholeAt(c, i) <=> WholeAt(s, i)
  BY <1>1, <1>2 DEF WholeAt
<1>4. \A i \in 1..Len(b) : WholeAt(c, Len(s) + i) <=> WholeAt(b, i)
  BY <1>1, <1>2 DEF WholeAt
<1>5. /\ \A i \in 1..Len(s) : i \in 1..(Len(s) + Len(b))
      /\ \A i \in 1..Len(b) : Len(s) + i \in 1..(Len(s) + Len(b))
  BY <1>1
<1>6. \A i \in 1..(Len(s) + Len(b)) : i \in 1..Len(s) \/ \E k \in 1..Len(b) : i = Len(s) + k
  BY <1>1, IndexOfConcat
<1>7. (\A i \in DOMAIN c : WholeAt(c, i))
        <=> (\A i \in DOMAIN s : WholeAt(s, i)) /\ (\A i \in DOMAIN b : WholeAt(b, i))
  BY <1>1, <1>3, <1>4, <1>5, <1>6
<1> QED
  BY <1>7, WholeIs DEF c

-----------------------------------------------------------------------------
(* A list begins with results that nothing asked for; then come segments,  *)
(* each a message that is no result with the results that follow it.       *)
AllTools(ts) == \A t \in Range(ts) : IsTool(t)
Segment(m, ts) == <<m>> \o ts

LEMMA SegmentIs ==
  ASSUME NEW T, NEW m \in T, NEW ts \in Seq(T), AllTools(ts), ~IsTool(m)
  PROVE  /\ Segment(m, ts) \in Seq(T) /\ Len(Segment(m, ts)) = Len(ts) + 1 /\ Len(ts) \in Nat
         /\ DOMAIN Segment(m, ts) = 1..(Len(ts) + 1) /\ Range(Segment(m, ts)) = {m} \cup Range(ts)
         /\ Segment(m, ts)[1] = m /\ Opens(Segment(m, ts))
         /\ \A i \in 1..Len(ts) : Segment(m, ts)[1 + i] = ts[i] /\ IsTool(ts[i])
         /\ RunEnd(Segment(m, ts), 1) = Len(ts) + 1 /\ Results(Segment(m, ts), 1) = ts
         /\ \A i \in 1..Len(ts) : Claimed(Segment(m, ts), 1 + i) <=> Asks(m)
<1> DEFINE f == <<m>>
           c == f \o ts
<1>1. f \in Seq(T) /\ Len(f) = 1 /\ f[1] = m /\ Range(f) = {m}
  BY DEF Range
<1>2. c = Segment(m, ts)
  BY DEF Segment
<1> HIDE DEF f
<1>3. /\ c \in Seq(T) /\ Len(c) = 1 + Len(ts) /\ Len(ts) \in Nat /\ DOMAIN c = 1..(1 + Len(ts))
      /\ c[1] = m /\ \A i \in 1..Len(ts) : c[1 + i] = ts[i]
  <2>1. /\ c \in Seq(T) /\ Len(c) = Len(f) + Len(ts) /\ Len(ts) \in Nat /\ DOMAIN c = 1..(Len(f) + Len(ts))
        /\ \A i \in 1..Len(f) : c[i] = f[i]
        /\ \A i \in 1..Len(ts) : c[Len(f) + i] = ts[i]
    <3>1. f \in Seq(T) /\ ts \in Seq(T)
      BY <1>1
    <3> QED
      BY <3>1, ConcatIs
  <2>2. 1 \in 1..Len(f)
    BY <1>1
  <2> HIDE DEF c
  <2> QED
    BY <1>1, <2>1, <2>2
<1>4. Range(c) = {m} \cup Range(ts)
  BY <1>1, RangeConcatenation
<1> HIDE DEF c
<1>5. \A i \in 1..Len(ts) : IsTool(ts[i])
  BY DEF AllTools, Range
<1>6. ASSUME NEW k \in 2..(1 + Len(ts)) PROVE IsTool(c[k])
  <2>1. k - 1 \in 1..Len(ts) /\ k = 1 + (k - 1)
    BY <1>3
  <2>2. c[k] = ts[k - 1]
    BY <1>3, <2>1
  <2> QED
    BY <1>5, <2>1, <2>2
<1>7. RunEnd(c, 1) = Len(ts) + 1
  <2>1. IsRunEnd(c, 1, 1 + Len(ts))
    BY <1>3, <1>6 DEF IsRunEnd
  <2>2. 1 \in DOMAIN c
    BY <1>3
  <2> QED
    BY <1>3, <2>1, <2>2, OneRunEnd
<1>8. Results(c, 1) = ts
  <2> DEFINE r == Results(c, 1)
  <2>1. 1 \in DOMAIN c
    BY <1>3
  <2>2. r \in Seq(T) /\ Len(r) = RunEnd(c, 1) - 1 /\ \A k \in DOMAIN r : r[k] = c[1 + k]
    BY <1>3, <2>1, ResultsAre
  <2> HIDE DEF r
  <2>3. Len(r) = Len(ts) /\ DOMAIN r = 1..Len(ts)
    BY <1>3, <1>7, <2>2
  <2>4. \A k \in 1..Len(r) : r[k] = ts[k]
    BY <1>3, <2>2, <2>3
  <2> QED
    BY <2>2, <2>3, <2>4, SeqEqual DEF r
<1>9. ASSUME NEW i \in 1..Len(ts) PROVE Claimed(c, 1 + i) <=> Asks(m)
  <2>1. ASSUME NEW a \in 1..((1 + i) - 1), Asks(c[a]) PROVE a = 1
    <3> SUFFICES ASSUME a # 1 PROVE FALSE
      OBVIOUS
    <3>1. a \in 2..(1 + Len(ts))
      BY <1>3
    <3> QED
      BY <1>6, <2>1, <3>1 DEF Asks, IsTool
  <2>2. 1 \in 1..((1 + i) - 1) /\ 1 + i <= RunEnd(c, 1)
    BY <1>3, <1>7
  <2> QED
    BY <1>3, <2>1, <2>2 DEF Claimed
<1>10. Opens(c)
  BY <1>3 DEF Opens
<1>11. Len(c) = Len(ts) + 1 /\ DOMAIN c = 1..(Len(ts) + 1)
  BY <1>3
<1> QED
  BY <1>2, <1>3, <1>4, <1>5, <1>7, <1>8, <1>9, <1>10, <1>11

LEMMA CutAround ==
  ASSUME NEW T, NEW r \in Seq(T), NEW i \in DOMAIN r
  PROVE  r = SubSeq(r, 1, i - 1) \o Segment(r[i], SubSeq(r, i + 1, Len(r)))
<1> DEFINE f  == <<r[i]>>
           s  == SubSeq(r, 1, i - 1)
           ts == SubSeq(r, i + 1, Len(r))
<1>1. s \in Seq(T) /\ ts \in Seq(T) /\ f \in Seq(T) /\ r = (s \o f) \o ts
  BY RemoveAtIs
<1>2. ts \in Seq(T) /\ Segment(r[i], ts) = f \o ts
  BY <1>1 DEF Segment
<1> HIDE DEF f, s, ts
<1>3. (s \o f) \o ts = s \o (f \o ts)
  <2>1. s \in Seq(T) /\ f \in Seq(T) /\ ts \in Seq(T)
    BY <1>1
  <2> QED
    BY <2>1, ConcatAssociative
<1> QED
  BY <1>1, <1>2, <1>3 DEF s, ts

LEMMA LastSegment ==
  ASSUME NEW T, NEW r \in Seq(T), ~AllTools(r)
  PROVE  \E s \in Seq(T), m \in T, ts \in Seq(T) :
           ~IsTool(m) /\ AllTools(ts) /\ r = s \o Segment(m, ts) /\ Len(s) < Len(r)
<1> DEFINE S == {i \in 1..Len(r) : ~IsTool(r[i])}
<1>6. S # {} /\ S \subseteq 0..Len(r) /\ Len(r) \in Nat
  <2>1. DOMAIN r = 1..Len(r) /\ Len(r) \in Nat
    OBVIOUS
  <2> QED
    BY <2>1 DEF AllTools, Range
<1>7. PICK i \in S : \A j \in S : j <= i
  <2> HIDE DEF S
  <2> QED
    BY <1>6, MaxMin
<1> DEFINE s  == SubSeq(r, 1, i - 1)
           ts == SubSeq(r, i + 1, Len(r))
<1>8. /\ s \in Seq(T) /\ ts \in Seq(T) /\ r[i] \in T /\ ~IsTool(r[i])
      /\ r = (s \o <<r[i]>>) \o ts
  <2>1. i \in DOMAIN r /\ i \in 1..Len(r) /\ ~IsTool(r[i])
    OBVIOUS
  <2>2. r[i] \in T
    BY <2>1
  <2>3. s \in Seq(T) /\ ts \in Seq(T)
    BY <2>1, RemoveAtIs
  <2>4. r = (s \o <<r[i]>>) \o ts
    BY <2>1, RemoveAtIs
  <2> QED
    BY <2>1, <2>2, <2>3, <2>4
<1>9. Len(s) < Len(r)
  <2>1. \A j \in 1..(i - 1) : r[j] \in T
    BY <1>6
  <2>2. Len(s) = IF 1 <= i - 1 THEN i - 1 - 1 + 1 ELSE 0
    BY <1>6, <2>1, SubSeqProperties
  <2> HIDE DEF s
  <2> QED
    BY <1>6, <2>2
<1>10. AllTools(ts)
  <2>1. \A j \in (i + 1)..Len(r) : r[j] \in T /\ IsTool(r[j])
    BY <1>6, <1>7
  <2>2. Len(ts) = (IF i + 1 <= Len(r) THEN Len(r) - (i + 1) + 1 ELSE 0)
        /\ \A j \in 1..(Len(r) - (i + 1) + 1) : ts[j] = r[(i + 1) + j - 1]
    <3>1. i + 1 \in Int /\ Len(r) \in Int /\ \A j \in (i + 1)..Len(r) : r[j] \in T
      BY <1>6, <2>1
    <3> QED
      BY <3>1, SubSeqProperties
  <2>3. DOMAIN ts = 1..Len(ts)
    BY <1>8
  <2> HIDE DEF ts
  <2>4. ASSUME NEW j \in DOMAIN ts PROVE IsTool(ts[j])
    <3>1. j \in 1..(Len(r) - (i + 1) + 1) /\ (i + 1) + j - 1 \in (i + 1)..Len(r)
      BY <1>6, <2>2, <2>3
    <3> QED
      BY <2>1, <2>2, <3>1
  <2> QED
    BY <2>4 DEF AllTools, Range
<1>11. r = s \o Segment(r[i], ts)
  <2>1. i \in DOMAIN r
    OBVIOUS
  <2> QED
    BY <2>1, CutAround
<1> HIDE DEF s, ts, S
<1> QED
  BY <1>8, <1>9, <1>10, <1>11

LEMMA SegmentInduction ==
  ASSUME NEW T, NEW G,
         \A ts \in Seq(T) : AllTools(ts) => ts \in G,
         \A s \in Seq(T), m \in T, ts \in Seq(T) :
            s \in G /\ ~IsTool(m) /\ AllTools(ts) => s \o Segment(m, ts) \in G
  PROVE  \A s \in Seq(T) : s \in G
<1> DEFINE Bad == {n \in Nat : \E s \in Seq(T) : Len(s) = n /\ s \notin G}
<1> SUFFICES ASSUME NEW q \in Seq(T), q \notin G PROVE FALSE
  OBVIOUS
<1>1. Bad # {} /\ Bad \subseteq Nat
  OBVIOUS
<1>2. PICK n \in Bad : \A m \in Bad : n <= m
  BY <1>1, LeastNumber
<1>3. PICK r \in Seq(T) : Len(r) = n /\ r \notin G
  BY <1>2
<1>4. \A s \in Seq(T) : Len(s) < Len(r) => s \in G
  <2> SUFFICES ASSUME NEW s \in Seq(T), Len(s) < Len(r), s \notin G PROVE FALSE
    OBVIOUS
  <2>1. Len(s) \in Bad /\ Len(s) \in Nat /\ n \in Nat
    OBVIOUS
  <2> QED
    BY <1>2, <1>3, <2>1
<1> HIDE DEF Bad
<1>5. PICK s \in Seq(T), m \in T, ts \in Seq(T) :
        ~IsTool(m) /\ AllTools(ts) /\ r = s \o Segment(m, ts) /\ Len(s) < Len(r)
  BY <1>3, LastSegment
<1> QED
  BY <1>3, <1>4, <1>5

-----------------------------------------------------------------------------
(* What the repair makes of each.                                          *)
LEMMA OnlyAppend ==
  ASSUME NEW T, NEW s \in Seq(T), NEW e \in T, NEW S
  PROVE  Only(Append(s, e), S) = IF e \in S THEN Append(Only(s, S), e) ELSE Only(s, S)
<1> DEFINE f == <<e>>
<1>1. f \in Seq(T) /\ Append(s, e) = s \o f
  BY AppendIsConcat
<1>2. Only(f, S) = IF e \in S THEN f ELSE <<>>
  BY OnlyOne
<1> HIDE DEF f
<1>3. Only(s \o f, S) = Only(s, S) \o Only(f, S)
  BY <1>1, OnlyConcat
<1>4. Only(s, S) \in Seq(T)
  BY PiecesType
<1>5. CASE e \in S
  <2>1. Only(s, S) \o f = Append(Only(s, S), e)
    BY <1>4, AppendIsConcat DEF f
  <2> QED
    BY <1>1, <1>2, <1>3, <1>5, <2>1
<1>6. CASE e \notin S
  <2>1. Only(s, S) \o <<>> = Only(s, S)
    BY <1>4, ConcatEmptySeq
  <2> QED
    BY <1>1, <1>2, <1>3, <1>6, <2>1
<1> QED
  BY <1>5, <1>6

LEMMA OnlyAll ==
  ASSUME NEW T, NEW s \in Seq(T), NEW S, Range(s) \subseteq S
  PROVE  Only(s, S) = s
<1> DEFINE G == {r \in Seq(T) : Only(r, T) = r}
<1>1. <<>> \in G
  <2>1. <<>> \in Seq(T)
    OBVIOUS
  <2> QED
    BY <2>1, OnlyEmpty
<1>2. \A r \in Seq(T), e \in T : r \in G => Append(r, e) \in G
  <2> SUFFICES ASSUME NEW r \in Seq(T), NEW e \in T, Only(r, T) = r
               PROVE  Append(r, e) \in Seq(T) /\ Only(Append(r, e), T) = Append(r, e)
    OBVIOUS
  <2>1. Append(r, e) \in Seq(T)
    OBVIOUS
  <2> QED
    BY <2>1, OnlyAppend
<1> HIDE DEF G
<1>3. s \in G
  BY <1>1, <1>2, ListInduction
<1>4. Only(s, T) = s
  BY <1>3 DEF G
<1>5. Range(s) \cap S = Range(s) \cap T
  BY RangeOfSeq
<1> QED
  BY <1>4, <1>5, OnlySame

LEMMA FlattenOne ==
  ASSUME NEW T, NEW s \in Seq(T) PROVE FlattenSeq(<<s>>) = s /\ <<s>> \in Seq(Seq(T))
<1>1. <<>> \in Seq(Seq(T)) /\ Append(<<>>, s) = <<s>>
  OBVIOUS
<1>2. FlattenSeq(Append(<<>>, s)) = FlattenSeq(<<>>) \o s
  BY <1>1, FlattenAppend
<1>3. <<>> \o s = s
  BY ConcatEmptySeq
<1> QED
  BY <1>1, <1>2, <1>3, FlattenEmpty

LEMMA SlowTools ==
  ASSUME NEW ts \in Seq(Messages), AllTools(ts), NEW drop \in BOOLEAN
  PROVE  SlowPath(ts, drop) = IF drop THEN <<>> ELSE ts
<1> DEFINE S == IF drop THEN {} ELSE Range(ts)
<1>1. DOMAIN ts = 1..Len(ts) /\ Len(ts) \in Nat
  OBVIOUS
<1>2. \A i \in 1..Len(ts) : IsTool(ts[i]) /\ ~Asks(ts[i]) /\ ts[i] \in Range(ts)
  BY <1>1 DEF AllTools, Range, Asks, IsTool
<1>3. \A i \in 1..Len(ts) : ~Claimed(ts, i)
  <2> SUFFICES ASSUME NEW i \in 1..Len(ts), NEW a \in 1..(i - 1), Asks(ts[a]) PROVE FALSE
    BY DEF Claimed
  <2>1. a \in 1..Len(ts)
    BY <1>1
  <2> QED
    BY <1>2, <2>1
<1>4. \A i \in 1..Len(ts) : Repaired(ts, i, drop) = IF ts[i] \in S THEN <<ts[i]>> ELSE <<>>
  BY <1>2, <1>3 DEF Repaired
<1>5. SlowPath(ts, drop) = Only(ts, S)
  BY <1>1, <1>4 DEF SlowPath, Only
<1>6. CASE drop
  <2>1. Only(ts, {}) = <<>>
    BY OnlyNone
  <2> QED
    BY <1>5, <1>6, <2>1
<1>7. CASE ~drop
  <2>1. Only(ts, Range(ts)) = ts
    BY OnlyAll
  <2> QED
    BY <1>5, <1>7, <2>1
<1> QED
  BY <1>6, <1>7

LEMMA SlowSegment ==
  ASSUME NEW m \in Messages, ~IsTool(m), NEW ts \in Seq(Messages), AllTools(ts), NEW drop \in BOOLEAN
  PROVE  SlowPath(Segment(m, ts), drop) =
           IF Asks(m) THEN Segment(Mended(m, ts), Given(m, ts, drop))
           ELSE Segment(m, IF drop THEN <<>> ELSE ts)
<1> DEFINE c == Segment(m, ts)
           S == IF Asks(m) \/ drop THEN {} ELSE Range(ts)
           P == IF Asks(m) THEN Segment(Mended(m, ts), Given(m, ts, drop)) ELSE <<m>>
           x == Slices(c, drop)
           y == Pieces(ts, S)
           f == <<P>>
<1>1. /\ c \in Seq(Messages) /\ Len(c) = Len(ts) + 1 /\ Len(ts) \in Nat
      /\ DOMAIN c = 1..(Len(ts) + 1) /\ c[1] = m
      /\ \A i \in 1..Len(ts) : c[1 + i] = ts[i] /\ IsTool(ts[i])
      /\ Results(c, 1) = ts
      /\ \A i \in 1..Len(ts) : Claimed(c, 1 + i) <=> Asks(m)
  BY SegmentIs
<1>2. Repaired(c, 1, drop) = P
  <2> HIDE DEF c
  <2>1. CASE Asks(m)
    <3>1. Asks(c[1])
      BY <1>1, <2>1
    <3> QED
      BY <1>1, <2>1, <3>1, RepairedIsMended DEF Segment
  <2>2. CASE ~Asks(m)
    BY <1>1, <2>2 DEF Repaired
  <2> QED
    BY <2>1, <2>2
<1> HIDE DEF c
<1>3. ASSUME NEW i \in 1..Len(ts) PROVE Repaired(c, 1 + i, drop) = IF ts[i] \in S THEN <<ts[i]>> ELSE <<>>
  <2>1. ts[i] \in Range(ts)
    BY DEF Range
  <2>2. ~Asks(ts[i])
    BY <1>1 DEF Asks, IsTool
  <2> QED
    BY <1>1, <2>1, <2>2 DEF Repaired
<1>4. /\ x \in Seq(Seq(Messages)) /\ Len(x) = Len(ts) + 1
      /\ SlowPath(c, drop) = FlattenSeq(x)
  BY <1>1, SlowType
<1>5. y \in Seq(Seq(Messages)) /\ Only(ts, S) = FlattenSeq(y)
  BY PiecesType
<1>6. P \in Seq(Messages)
  <2>1. 1 \in 1..Len(c)
    BY <1>1
  <2> QED
    BY <1>1, <1>2, <2>1, RepairedType
<1>7. x[1] = P /\ \A i \in 1..Len(ts) : x[1 + i] = y[i]
  <2>1. \A i \in 1..(Len(ts) + 1) : x[i] = Repaired(c, i, drop)
    BY <1>1 DEF Slices
  <2>2. 1 \in 1..(Len(ts) + 1) /\ \A i \in 1..Len(ts) : 1 + i \in 1..(Len(ts) + 1)
    BY <1>1
  <2>3. \A i \in 1..Len(ts) : y[i] = IF ts[i] \in S THEN <<ts[i]>> ELSE <<>>
    BY DEF Pieces
  <2> HIDE DEF x, y, S, P
  <2> QED
    BY <1>2, <1>3, <2>1, <2>2, <2>3
<1>8. Len(y) = Len(ts)
  BY <1>1, <1>5 DEF Pieces
<1> HIDE DEF x, y, S, P
<1>9. FlattenSeq(f) = P /\ f \in Seq(Seq(Messages)) /\ Len(f) = 1 /\ f[1] = P
  BY <1>6, FlattenOne
<1> HIDE DEF f
<1>10. x = f \o y
  <2> DEFINE w == f \o y
  <2>1. /\ w \in Seq(Seq(Messages)) /\ Len(w) = Len(f) + Len(y)
        /\ \A i \in 1..Len(f) : w[i] = f[i]
        /\ \A i \in 1..Len(y) : w[Len(f) + i] = y[i]
    <3>1. f \in Seq(Seq(Messages)) /\ y \in Seq(Seq(Messages))
      BY <1>5, <1>9
    <3> QED
      BY <3>1, ConcatIs
  <2> HIDE DEF w
  <2>2. ASSUME NEW i \in 1..Len(x) PROVE x[i] = w[i]
    <3>1. CASE i = 1
      <4>1. 1 \in 1..Len(f)
        BY <1>9
      <4> QED
        BY <1>7, <1>9, <2>1, <3>1, <4>1
    <3>2. CASE i # 1
      <4>1. i - 1 \in 1..Len(ts) /\ 1 + (i - 1) = i
        BY <1>1, <1>4, <3>2
      <4>2. w[1 + (i - 1)] = y[i - 1]
        BY <1>8, <1>9, <2>1, <4>1
      <4> QED
        BY <1>7, <4>1, <4>2
    <3> QED
      BY <3>1, <3>2
  <2>3. Len(x) = Len(w)
    BY <1>1, <1>4, <1>8, <1>9, <2>1
  <2> QED
    BY <1>4, <2>1, <2>2, <2>3, SeqEqual DEF w
<1>11. SlowPath(c, drop) = P \o Only(ts, S)
  <2>1. FlattenSeq(f \o y) = FlattenSeq(f) \o FlattenSeq(y)
    BY <1>5, <1>9, FlattenConcat
  <2> QED
    BY <1>4, <1>5, <1>9, <1>10, <2>1
<1>12. CASE Asks(m) \/ drop
  <2>1. Only(ts, S) = <<>>
    BY <1>12, OnlyNone DEF S
  <2>2. P \o <<>> = P
    BY <1>6, ConcatEmptySeq
  <2>3. SlowPath(c, drop) = P
    BY <1>11, <2>1, <2>2
  <2>4. Segment(m, <<>>) = <<m>>
    <3> DEFINE g == <<m>>
    <3>1. g \in Seq(Messages)
      OBVIOUS
    <3> HIDE DEF g
    <3>2. g \o <<>> = g
      BY <3>1, ConcatEmptySeq
    <3> QED
      BY <3>2 DEF g, Segment
  <2> QED
    BY <1>12, <2>3, <2>4 DEF P, c
<1>13. CASE ~Asks(m) /\ ~drop
  <2>1. Only(ts, S) = ts
    BY <1>13, OnlyAll DEF S
  <2>2. P = <<m>>
    BY <1>13 DEF P
  <2> QED
    BY <1>11, <1>13, <2>1, <2>2 DEF c, Segment
<1> QED
  BY <1>12, <1>13

(* What a provider, and the fast path, ask of each.                        *)
InPlace(calls, rs) == Len(rs) = Len(calls) /\ \A k \in 1..Len(calls) : rs[k].to = calls[k].id

LEMMA WholeTools ==
  ASSUME NEW T, NEW ts \in Seq(T), AllTools(ts)
  PROVE  /\ Whole(ts) <=> ts = <<>>
         /\ FastPath(ts, TRUE) <=> ts = <<>>
         /\ FastPath(ts, FALSE)
<1>1. DOMAIN ts = 1..Len(ts) /\ Len(ts) \in Nat
  OBVIOUS
<1>2. \A i \in 1..Len(ts) : IsTool(ts[i]) /\ ~Asks(ts[i])
  BY <1>1 DEF AllTools, Range, Asks, IsTool
<1>3. \A i \in 1..Len(ts) : ~Claimed(ts, i)
  <2> SUFFICES ASSUME NEW i \in 1..Len(ts), NEW a \in 1..(i - 1), Asks(ts[a]) PROVE FALSE
    BY DEF Claimed
  <2>1. a \in 1..Len(ts)
    BY <1>1
  <2> QED
    BY <1>2, <2>1
<1>4. ts # <<>> => 1 \in 1..Len(ts)
  BY <1>1
<1>5. ts = <<>> => DOMAIN ts = {}
  BY <1>1
<1>6. Whole(ts) <=> ts = <<>>
  BY <1>1, <1>2, <1>3, <1>4, <1>5, WholeIs DEF WholeAt
<1>7. FastPath(ts, TRUE) <=> ts = <<>>
  BY <1>1, <1>2, <1>3, <1>4, <1>5, FastAt DEF FineAt
<1>8. FastPath(ts, FALSE)
  BY <1>1, <1>2, FastAt DEF FineAt
<1> QED
  BY <1>6, <1>7, <1>8

LEMMA WholeSegment ==
  ASSUME NEW m \in Messages, ~IsTool(m), NEW ts \in Seq(Messages), AllTools(ts)
  PROVE  Whole(Segment(m, ts)) <=> IF Asks(m) THEN InPlace(m.calls, ts) ELSE ts = <<>>
<1> DEFINE c == Segment(m, ts)
<1>1. /\ Len(ts) \in Nat /\ DOMAIN c = 1..(Len(ts) + 1) /\ c[1] = m
      /\ \A i \in 1..Len(ts) : c[1 + i] = ts[i] /\ IsTool(ts[i])
      /\ Results(c, 1) = ts
      /\ \A i \in 1..Len(ts) : Claimed(c, 1 + i) <=> Asks(m)
  BY SegmentIs
<1> HIDE DEF c
<1>2. m.calls \in Seq(CallsMade) /\ DOMAIN m.calls = 1..Len(m.calls)
  BY DEF Messages
<1>3. WholeAt(c, 1) <=> (Asks(m) => InPlace(m.calls, ts))
  BY <1>1, <1>2 DEF WholeAt, InPlace
<1>4. \A i \in 1..Len(ts) : WholeAt(c, 1 + i) <=> Asks(m)
  BY <1>1 DEF WholeAt, Asks, IsTool
<1>5. Whole(c) <=> WholeAt(c, 1) /\ \A i \in 1..Len(ts) : WholeAt(c, 1 + i)
  <2>1. 1 \in DOMAIN c /\ \A i \in 1..Len(ts) : 1 + i \in DOMAIN c
    BY <1>1
  <2>2. \A i \in DOMAIN c : i = 1 \/ \E k \in 1..Len(ts) : i = 1 + k
    <3> SUFFICES ASSUME NEW i \in 1..(Len(ts) + 1), i # 1 PROVE \E k \in 1..Len(ts) : i = 1 + k
      BY <1>1
    <3>1. i - 1 \in 1..Len(ts) /\ i = 1 + (i - 1)
      BY <1>1
    <3> QED
      BY <3>1
  <2> QED
    BY <2>1, <2>2, WholeIs
<1>6. ts = <<>> <=> Len(ts) = 0
  OBVIOUS
<1>7. ts # <<>> => 1 \in 1..Len(ts)
  BY <1>1
<1>8. ts = <<>> => 1..Len(ts) = {}
  BY <1>6
<1> QED
  BY <1>3, <1>4, <1>5, <1>7, <1>8 DEF c

LEMMA FastSegment ==
  ASSUME NEW m \in Messages, ~IsTool(m), NEW ts \in Seq(Messages), AllTools(ts), NEW drop \in BOOLEAN
  PROVE  FastPath(Segment(m, ts), drop)
           <=> IF Asks(m) THEN /\ InPlace(m.calls, ts)
                               /\ \A k \in 1..Len(m.calls) : m.calls[k].named /\ ~m.calls[k].cut
               ELSE drop => ts = <<>>
<1> DEFINE c == Segment(m, ts)
<1>1. /\ Len(ts) \in Nat /\ DOMAIN c = 1..(Len(ts) + 1) /\ c[1] = m
      /\ \A i \in 1..Len(ts) : c[1 + i] = ts[i] /\ IsTool(ts[i])
      /\ Results(c, 1) = ts
      /\ \A i \in 1..Len(ts) : Claimed(c, 1 + i) <=> Asks(m)
  BY SegmentIs
<1> HIDE DEF c
<1>2. m.calls \in Seq(CallsMade) /\ DOMAIN m.calls = 1..Len(m.calls)
  BY DEF Messages
<1>0. ToolTurnWellFormed(m.calls, ts) /\ (\A q \in Range(m.calls) : ~q.cut)
        <=> InPlace(m.calls, ts) /\ \A k \in 1..Len(m.calls) : m.calls[k].named /\ ~m.calls[k].cut
  BY <1>2 DEF ToolTurnWellFormed, InPlace, Range
<1>3. FineAt(c, 1, drop) <=> (Asks(m) => /\ InPlace(m.calls, ts)
                                         /\ \A k \in 1..Len(m.calls) : m.calls[k].named /\ ~m.calls[k].cut)
  BY <1>0, <1>1 DEF FineAt
<1>4. \A i \in 1..Len(ts) : FineAt(c, 1 + i, drop) <=> (drop => Asks(m))
  BY <1>1 DEF FineAt, Asks, IsTool
<1>5. FastPath(c, drop) <=> FineAt(c, 1, drop) /\ \A i \in 1..Len(ts) : FineAt(c, 1 + i, drop)
  <2>1. 1 \in DOMAIN c /\ \A i \in 1..Len(ts) : 1 + i \in DOMAIN c
    BY <1>1
  <2>2. \A i \in DOMAIN c : i = 1 \/ \E k \in 1..Len(ts) : i = 1 + k
    <3> SUFFICES ASSUME NEW i \in 1..(Len(ts) + 1), i # 1 PROVE \E k \in 1..Len(ts) : i = 1 + k
      BY <1>1
    <3>1. i - 1 \in 1..Len(ts) /\ i = 1 + (i - 1)
      BY <1>1
    <3> QED
      BY <3>1
  <2> QED
    BY <2>1, <2>2, FastAt
<1>7. ts # <<>> => 1 \in 1..Len(ts)
  BY <1>1
<1>8. ts = <<>> => 1..Len(ts) = {}
  OBVIOUS
<1> QED
  BY <1>3, <1>4, <1>5, <1>7, <1>8 DEF c

-----------------------------------------------------------------------------
(* A repaired turn needs no repair: its names are those that are known.    *)
LEMMA Backfilled ==
  ASSUME NEW calls \in Seq(CallsMade), NEW rs
  PROVE  LET cs == RepairToolCallArgs(BackfillToolCallNames(calls, rs))
         IN /\ IdDistinct(cs) <=> IdDistinct(calls)
            /\ \A k \in 1..Len(calls) : NameKnown(cs, rs, k) => cs[k].named
<1> DEFINE bs == BackfillToolCallNames(calls, rs)
           cs == RepairToolCallArgs(bs)
<1>1. DOMAIN calls = 1..Len(calls) /\ Len(calls) \in Nat
  OBVIOUS
<1>2. cs \in Seq(CallsMade) /\ Len(cs) = Len(calls) /\ \A k \in 1..Len(calls) : cs[k].id = calls[k].id
  BY <1>1, CallsRepaired
<1>3. \A k \in 1..Len(calls) : calls[k] \in CallsMade
  BY <1>1
<1>4. \A k \in 1..Len(calls) : bs[k] = [calls[k] EXCEPT !.named = NameKnown(calls, rs, k)]
  BY <1>1 DEF BackfillToolCallNames
<1>5. DOMAIN bs = 1..Len(calls)
  BY <1>1 DEF BackfillToolCallNames
<1> HIDE DEF bs
<1>6. \A k \in 1..Len(calls) : cs[k] = [bs[k] EXCEPT !.cut = FALSE]
  BY <1>5 DEF RepairToolCallArgs
<1> HIDE DEF cs
<1>7. ASSUME NEW k \in 1..Len(calls) PROVE cs[k].named = NameKnown(calls, rs, k)
  <2> DEFINE b == NameKnown(calls, rs, k)
  <2> HIDE DEF b
  <2>1. bs[k] = [calls[k] EXCEPT !.named = b] /\ cs[k] = [bs[k] EXCEPT !.cut = FALSE] /\ calls[k] \in CallsMade
    BY <1>3, <1>4, <1>6 DEF b
  <2>2. cs[k].named = b
    BY <2>1 DEF CallsMade
  <2> QED
    BY <2>2 DEF b
<1>8. IdDistinct(cs) <=> IdDistinct(calls)
  <2>1. DOMAIN cs = 1..Len(calls)
    BY <1>2
  <2> QED
    BY <1>1, <1>2, <2>1 DEF IdDistinct
<1>9. ASSUME NEW k \in 1..Len(calls), NameKnown(cs, rs, k) PROVE cs[k].named
  <2>1. cs[k].id = calls[k].id
    BY <1>2
  <2>2. NameKnown(calls, rs, k) \/ cs[k].named
    BY <1>8, <1>9, <2>1, Zenon DEF NameKnown
  <2> QED
    BY <1>7, <2>2
<1> QED
  BY <1>8, <1>9 DEF cs, bs

LEMMA MendedTwice ==
  ASSUME NEW cs \in Seq(CallsMade), NEW rs, \A k \in 1..Len(cs) : cs[k].cut = FALSE,
         \A k \in 1..Len(cs) : NameKnown(cs, rs, k) => cs[k].named
  PROVE  RepairToolCallArgs(BackfillToolCallNames(cs, rs)) = cs
<1> DEFINE bs == BackfillToolCallNames(cs, rs)
<1>1. DOMAIN cs = 1..Len(cs) /\ Len(cs) \in Nat /\ \A k \in 1..Len(cs) : cs[k] \in CallsMade
  OBVIOUS
<1>2. ASSUME NEW k \in 1..Len(cs) PROVE [cs[k] EXCEPT !.named = NameKnown(cs, rs, k)] = cs[k]
  <2>1. cs[k].named \in BOOLEAN
    BY <1>1 DEF CallsMade
  <2>2. NameKnown(cs, rs, k) \in BOOLEAN
    BY Zenon DEF NameKnown
  <2>3. cs[k].named => NameKnown(cs, rs, k)
    BY Zenon DEF NameKnown
  <2> DEFINE b == NameKnown(cs, rs, k)
  <2>4. b = cs[k].named
    BY <2>1, <2>2, <2>3
  <2> HIDE DEF b
  <2>5. [cs[k] EXCEPT !.named = b] = cs[k]
    BY <1>1, <2>4 DEF CallsMade
  <2> QED
    BY <2>5 DEF b
<1>3. bs = [k \in 1..Len(cs) |-> cs[k]]
  BY <1>1, <1>2 DEF BackfillToolCallNames
<1>4. bs = cs
  BY <1>1, <1>3
<1> HIDE DEF bs
<1>5. \A k \in 1..Len(cs) : [cs[k] EXCEPT !.cut = FALSE] = cs[k]
  BY <1>1 DEF CallsMade
<1>6. RepairToolCallArgs(cs) = [k \in 1..Len(cs) |-> cs[k]]
  BY <1>1, <1>5 DEF RepairToolCallArgs
<1>7. RepairToolCallArgs(cs) = cs
  BY <1>1, <1>6
<1> QED
  BY <1>4, <1>7 DEF bs

(* Results in their place are left there, and nothing is made up.          *)
LEMMA PairInPlace ==
  ASSUME NEW cs \in Seq(CallsMade), NEW rs \in Seq(Messages), InPlace(cs, rs)
  PROVE  PairToolResults(cs, rs) = rs
<1>1. /\ DOMAIN cs = 1..Len(cs) /\ Len(cs) \in Nat /\ DOMAIN rs = 1..Len(cs) /\ Len(rs) = Len(cs)
      /\ \A k \in 1..Len(cs) : rs[k].to = cs[k].id /\ rs[k] \in Messages
  BY DEF InPlace
<1>2. CASE IdDistinct(cs)
  <2>1. ASSUME NEW k \in 1..Len(cs) PROVE Answers(rs, cs[k]) = {k}
    <3>1. \A l \in 1..Len(cs) : cs[l].id = cs[k].id <=> l = k
      BY <1>1, <1>2 DEF IdDistinct
    <3> QED
      BY <1>1, <3>1 DEF Answers
  <2>2. ASSUME NEW k \in 1..Len(cs) PROVE (CHOOSE i \in {k} : \A j \in {k} : j <= i) = k
    OBVIOUS
  <2>3. PairById(cs, rs) = [k \in 1..Len(cs) |-> rs[k]]
    <3> DEFINE S(k) == Answers(rs, cs[k])
               r(k) == IF S(k) = {} THEN Placeholder(cs[k]) ELSE rs[CHOOSE i \in S(k) : \A j \in S(k) : j <= i]
    <3>1. ASSUME NEW k \in 1..Len(cs) PROVE r(k) = rs[k]
      <4>1. S(k) = {k}
        BY <2>1
      <4>2. S(k) # {} /\ (CHOOSE i \in S(k) : \A j \in S(k) : j <= i) = k
        BY <2>2, <4>1
      <4> HIDE DEF S
      <4> QED
        BY <4>2
    <3>2. PairById(cs, rs) = [k \in 1..Len(cs) |-> r(k)]
      BY <1>1 DEF PairById
    <3> HIDE DEF r
    <3> QED
      BY <3>1, <3>2
  <2>4. rs = [k \in 1..Len(cs) |-> rs[k]]
    BY <1>1
  <2> QED
    BY <1>2, <2>3, <2>4 DEF PairToolResults
<1>3. CASE ~IdDistinct(cs)
  <2>1. \A k \in 1..Len(cs) : [rs[k] EXCEPT !.to = cs[k].id] = rs[k]
    BY <1>1 DEF Messages
  <2>2. PairByPlace(cs, rs) = [k \in 1..Len(cs) |-> rs[k]]
    BY <1>1, <2>1 DEF PairByPlace
  <2>3. rs = [k \in 1..Len(cs) |-> rs[k]]
    BY <1>1
  <2> QED
    BY <1>3, <2>2, <2>3 DEF PairToolResults
<1> QED
  BY <1>2, <1>3

LEMMA NothingOpen ==
  ASSUME NEW cs \in Seq(CallsMade), NEW rs \in Seq(Messages),
         IF IdDistinct(cs) THEN \A k \in 1..Len(cs) : Answers(rs, cs[k]) # {} ELSE Len(cs) <= Len(rs)
  PROVE  Unanswered(cs, rs) = <<>> /\ SessionToolResults(cs, rs) = rs
<1>1. DOMAIN cs = 1..Len(cs) /\ Len(cs) \in Nat /\ Len(rs) \in Nat
  OBVIOUS
<1>2. ASSUME IdDistinct(cs) PROVE Unanswered(cs, rs) = <<>>
  <2>1. Range(cs) \cap {c \in Range(cs) : Answers(rs, c) = {}} = {}
    BY <1>1, <1>2 DEF Range
  <2>2. Only(cs, {c \in Range(cs) : Answers(rs, c) = {}}) = <<>>
    BY <2>1, OnlyNone
  <2> QED
    BY <1>2, <2>2 DEF Unanswered
<1>3. ASSUME ~IdDistinct(cs) PROVE Unanswered(cs, rs) = <<>>
  <2>1. Len(rs) + 1 > Len(cs)
    BY <1>1, <1>3
  <2>2. SubSeq(cs, Len(rs) + 1, Len(cs)) = <<>>
    BY <1>1, <2>1, SubSeqProperties
  <2> QED
    BY <1>3, <2>2 DEF Unanswered
<1>4. Unanswered(cs, rs) = <<>>
  BY <1>2, <1>3
<1>5. [k \in DOMAIN <<>> |-> Placeholder((<<>>)[k])] = <<>>
  OBVIOUS
<1>6. SessionToolResults(cs, rs) = rs \o [k \in DOMAIN <<>> |-> Placeholder((<<>>)[k])]
  BY <1>4 DEF SessionToolResults
<1>7. rs \o <<>> = rs
  BY ConcatEmptySeq
<1> QED
  BY <1>4, <1>5, <1>6, <1>7

LEMMA KeptInPlace ==
  ASSUME NEW cs \in Seq(CallsMade), NEW rs \in Seq(Messages), InPlace(cs, rs)
  PROVE  SessionToolResults(cs, rs) = rs
<1>1. \A k \in 1..Len(cs) : k \in DOMAIN rs /\ rs[k].to = cs[k].id
  BY DEF InPlace
<1>2. \A k \in 1..Len(cs) : k \in Answers(rs, cs[k])
  BY <1>1 DEF Answers
<1>3. Len(cs) <= Len(rs)
  BY DEF InPlace
<1> QED
  BY <1>2, <1>3, NothingOpen

-----------------------------------------------------------------------------
(* The results a repair has paired are paired by the next as they are, and *)
(* name the calls they named.                                              *)
LastOf(S) == CHOOSE i \in S : \A j \in S : j <= i

\* The k-th result.
Picked(cs, avail, k) ==
  IF IdDistinct(cs)
  THEN IF Answers(avail, cs[k]) = {} THEN Placeholder(cs[k]) ELSE avail[LastOf(Answers(avail, cs[k]))]
  ELSE IF k <= Len(avail) THEN [avail[k] EXCEPT !.to = cs[k].id] ELSE Placeholder(cs[k])

LEMMA PairedPicked ==
  ASSUME NEW cs \in Seq(CallsMade), NEW avail
  PROVE  PairToolResults(cs, avail) = [k \in 1..Len(cs) |-> Picked(cs, avail, k)]
<1>1. DOMAIN cs = 1..Len(cs)
  OBVIOUS
<1>2. CASE IdDistinct(cs)
  <2> DEFINE r(k) == IF Answers(avail, cs[k]) = {} THEN Placeholder(cs[k])
                     ELSE avail[LastOf(Answers(avail, cs[k]))]
  <2>1. PairById(cs, avail) = [k \in 1..Len(cs) |-> r(k)]
    BY <1>1 DEF PairById, LastOf
  <2>2. \A k \in 1..Len(cs) : Picked(cs, avail, k) = r(k)
    BY <1>2 DEF Picked
  <2> HIDE DEF r
  <2>3. PairToolResults(cs, avail) = PairById(cs, avail)
    BY <1>2 DEF PairToolResults
  <2> QED
    BY <2>1, <2>2, <2>3
<1>3. CASE ~IdDistinct(cs)
  BY <1>1, <1>3, Zenon DEF PairToolResults, PairByPlace, Picked
<1> QED
  BY <1>2, <1>3

\* A result that is there, for the call it is given to.
GivenTo(r, c) == [r EXCEPT !.to = c.id]

LEMMA PickedFrom ==
  ASSUME NEW cs \in Seq(CallsMade), NEW avail \in Seq(Messages), NEW k \in 1..Len(cs)
  PROVE  Picked(cs, avail, k) = Placeholder(cs[k])
         \/ \E j : From(cs, avail, k, j) /\ Picked(cs, avail, k) = GivenTo(avail[j], cs[k])
<1>1. CASE IdDistinct(cs)
  <2> DEFINE i == LastOf(Answers(avail, cs[k]))
  <2>1. ASSUME Answers(avail, cs[k]) # {}
        PROVE  From(cs, avail, k, i) /\ Picked(cs, avail, k) = GivenTo(avail[i], cs[k])
    <3>1. i \in 1..Len(avail) /\ avail[i].to = cs[k].id
      BY <2>1, LastAnswer DEF LastOf
    <3>2. Picked(cs, avail, k) = avail[i]
      BY <1>1, <2>1 DEF Picked
    <3> HIDE DEF i
    <3>3. avail[i] \in Messages
      BY <3>1
    <3>4. GivenTo(avail[i], cs[k]) = avail[i]
      BY <3>1, <3>3 DEF GivenTo, Messages
    <3> QED
      BY <1>1, <3>1, <3>2, <3>4 DEF From
  <2>2. Answers(avail, cs[k]) = {} => Picked(cs, avail, k) = Placeholder(cs[k])
    BY <1>1 DEF Picked
  <2> HIDE DEF i
  <2> QED
    BY <2>1, <2>2
<1>2. CASE ~IdDistinct(cs)
  <2>1. Len(avail) \in Nat /\ k \in Nat /\ k >= 1
    OBVIOUS
  <2>2. k <= Len(avail) => From(cs, avail, k, k) /\ Picked(cs, avail, k) = GivenTo(avail[k], cs[k])
    BY <1>2, <2>1 DEF From, Picked, GivenTo
  <2>3. ~(k <= Len(avail)) => Picked(cs, avail, k) = Placeholder(cs[k])
    BY <1>2 DEF Picked
  <2> QED
    BY <2>2, <2>3
<1> QED
  BY <1>1, <1>2

LEMMA PairedNames ==
  ASSUME NEW cs \in Seq(CallsMade), NEW ts \in Seq(Messages), AllTools(ts), NEW k \in 1..Len(cs),
         NameKnown(cs, PairToolResults(cs, ts), k)
  PROVE  cs[k].named \/ NameKnown(cs, ts, k)
<1> DEFINE P == PairToolResults(cs, ts)
<1>1. P \in Seq(Messages) /\ Len(P) = Len(cs) /\ \A l \in 1..Len(cs) : P[l].to = cs[l].id
  BY PairedIs DEF AllTools
<1>2. \A l \in 1..Len(cs) : P[l] = Picked(cs, ts, l)
  BY PairedPicked
<1> HIDE DEF P
<1>3. DOMAIN P = 1..Len(cs) /\ DOMAIN cs = 1..Len(cs) /\ DOMAIN ts = 1..Len(ts)
  BY <1>1
<1>4. ASSUME P[k].named PROVE cs[k].named \/ \E j : From(cs, ts, k, j) /\ ts[j].named
  <2>1. CASE P[k] = Placeholder(cs[k])
    <3>1. Placeholder(cs[k]).named = cs[k].named
      BY DEF Placeholder, Result, Message
    <3> QED
      BY <1>4, <2>1, <3>1
  <2>2. ASSUME NEW j, From(cs, ts, k, j), P[k] = GivenTo(ts[j], cs[k]) PROVE ts[j].named
    <3>1. ts[j] \in Messages
      BY <1>3, <2>2 DEF From
    <3>2. GivenTo(ts[j], cs[k]).named = ts[j].named
      BY <3>1 DEF GivenTo, Messages
    <3> QED
      BY <1>4, <2>2, <3>2
  <2> QED
    BY <1>2, <2>1, <2>2, PickedFrom
<1>5. ASSUME P[k].named PROVE cs[k].named \/ NameKnown(cs, ts, k)
  <2>1. CASE cs[k].named
    BY <2>1
  <2>2. ASSUME NEW j, From(cs, ts, k, j), ts[j].named PROVE NameKnown(cs, ts, k)
    <3>1. j \in 1..Len(ts) /\ ts[j] \in Range(ts) /\ Len(ts) \in Nat
      BY <1>3, <2>2 DEF From, Range
    <3>2. CASE IdDistinct(cs)
      BY <2>2, <3>1, <3>2 DEF From, NameKnown
    <3>3. CASE ~IdDistinct(cs)
      <4>1. j = k /\ k <= Len(ts)
        BY <2>2, <3>1, <3>3 DEF From
      <4> QED
        BY <2>2, <3>3, <4>1 DEF NameKnown
    <3> QED
      BY <3>2, <3>3
  <2> QED
    BY <1>4, <1>5, <2>1, <2>2
<1>6. CASE IdDistinct(cs) /\ ~cs[k].named
  <2>1. PICK r \in Range(P) : r.to = cs[k].id /\ r.named
    BY <1>6 DEF NameKnown, P
  <2>2. PICK l \in 1..Len(cs) : r = P[l]
    BY <1>3, <2>1 DEF Range
  <2>3. l = k
    BY <1>1, <1>3, <1>6, <2>1, <2>2 DEF IdDistinct
  <2> QED
    BY <1>5, <2>1, <2>2, <2>3
<1>7. CASE ~IdDistinct(cs) /\ ~cs[k].named
  <2>1. P[k].named
    BY <1>7 DEF NameKnown, P
  <2> QED
    BY <1>5, <2>1
<1> QED
  BY <1>6, <1>7

\* What a load adds.
Fill(cs, ts) == [k \in DOMAIN Unanswered(cs, ts) |-> Placeholder(Unanswered(cs, ts)[k])]

LEMMA FillIs ==
  ASSUME NEW cs \in Seq(CallsMade), NEW ts \in Seq(Messages)
  PROVE  /\ Fill(cs, ts) \in Seq(Messages) /\ SessionToolResults(cs, ts) = ts \o Fill(cs, ts)
         /\ \A r \in Range(Fill(cs, ts)) : IsTool(r) /\ r.n = 0
         /\ IdDistinct(cs) => /\ \A j \in 1..Len(Fill(cs, ts)) : \E k \in 1..Len(cs) :
                                   Answers(ts, cs[k]) = {} /\ Fill(cs, ts)[j] = Placeholder(cs[k])
                              /\ \A k \in 1..Len(cs) : Answers(ts, cs[k]) = {} =>
                                   \E j \in 1..Len(Fill(cs, ts)) : Fill(cs, ts)[j] = Placeholder(cs[k])
         /\ ~IdDistinct(cs) => /\ Len(cs) <= Len(ts) + Len(Fill(cs, ts))
                               /\ \A j \in 1..Len(Fill(cs, ts)) :
                                    Len(ts) + j <= Len(cs) /\ Fill(cs, ts)[j] = Placeholder(cs[Len(ts) + j])
<1> DEFINE un == Unanswered(cs, ts)
           f == Fill(cs, ts)
<1>1. DOMAIN cs = 1..Len(cs) /\ Len(cs) \in Nat /\ Len(ts) \in Nat
  OBVIOUS
<1>2. ASSUME IdDistinct(cs) PROVE un \in Seq(CallsMade) /\ Range(un) = {c \in Range(cs) : Answers(ts, c) = {}}
  <2> DEFINE S == {c \in Range(cs) : Answers(ts, c) = {}}
  <2>1. un = Only(cs, S)
    BY <1>2 DEF Unanswered
  <2>2. S = Range(cs) \cap S
    OBVIOUS
  <2> HIDE DEF S, un
  <2>3. un \in Seq(CallsMade) /\ Range(un) = S
    BY <2>1, <2>2, PiecesType, OnlyRange
  <2> QED
    BY <2>3 DEF S
<1>3. ASSUME ~IdDistinct(cs)
      PROVE  /\ un \in Seq(CallsMade)
             /\ Len(un) = IF Len(ts) + 1 <= Len(cs) THEN Len(cs) - Len(ts) ELSE 0
             /\ \A j \in 1..(Len(cs) - Len(ts)) : un[j] = cs[Len(ts) + j]
  <2>1. un = SubSeq(cs, Len(ts) + 1, Len(cs))
    BY <1>3 DEF Unanswered
  <2>2. \A j \in (Len(ts) + 1)..Len(cs) : cs[j] \in CallsMade
    BY <1>1
  <2> HIDE DEF un
  <2> DEFINE m == Len(ts) + 1
             n == Len(cs)
             v == SubSeq(cs, m, n)
  <2>3. m \in Int /\ n \in Int /\ \A j \in m..n : cs[j] \in CallsMade
    BY <1>1, <2>2
  <2>4. /\ v \in Seq(CallsMade) /\ Len(v) = (IF m <= n THEN n - m + 1 ELSE 0)
        /\ \A j \in 1..(n - m + 1) : v[j] = cs[m + j - 1]
    <3> HIDE DEF m, n
    <3> QED
      BY <2>3, SubSeqProperties
  <2> HIDE DEF v
  <2>5. \A j \in 1..(Len(cs) - Len(ts)) : m + j - 1 = Len(ts) + j /\ j \in 1..(n - m + 1)
    BY <1>1
  <2>6. v = un
    BY <2>1 DEF v
  <2>7. (IF m <= n THEN n - m + 1 ELSE 0) = IF Len(ts) + 1 <= Len(cs) THEN Len(cs) - Len(ts) ELSE 0
    BY <1>1
  <2>8. \A j \in 1..(Len(cs) - Len(ts)) : v[j] = cs[Len(ts) + j]
    <3> SUFFICES ASSUME NEW j \in 1..(Len(cs) - Len(ts)) PROVE v[j] = cs[Len(ts) + j]
      OBVIOUS
    <3>1. m + j - 1 = Len(ts) + j /\ j \in 1..(n - m + 1)
      BY <2>5
    <3> HIDE DEF m, n
    <3> QED
      BY <2>4, <3>1
  <2> HIDE DEF m, n
  <2> QED
    BY <2>4, <2>6, <2>7, <2>8
<1>4. un \in Seq(CallsMade)
  BY <1>2, <1>3
<1>5. f = [k \in DOMAIN un |-> Placeholder(un[k])]
  BY DEF Fill
<1> HIDE DEF un, f
<1>6. DOMAIN un = 1..Len(un) /\ Len(un) \in Nat /\ \A k \in 1..Len(un) : un[k] \in CallsMade
  BY <1>4
<1>7. f \in Seq(Messages) /\ Len(f) = Len(un) /\ \A k \in 1..Len(un) : f[k] = Placeholder(un[k])
  <2>1. f \in [1..Len(un) -> Messages]
    BY <1>5, <1>6, PlaceholderIs
  <2> QED
    BY <1>5, <1>6, <2>1, FunctionIsSeq
<1>8. SessionToolResults(cs, ts) = ts \o f
  BY DEF SessionToolResults, f, Fill
<1>9. \A r \in Range(f) : IsTool(r) /\ r.n = 0
  <2>1. DOMAIN f = 1..Len(un)
    BY <1>6, <1>7
  <2> QED
    BY <1>6, <1>7, <2>1, PlaceholderIs DEF Range
<1>10. ASSUME IdDistinct(cs)
       PROVE  /\ \A j \in 1..Len(f) : \E k \in 1..Len(cs) : Answers(ts, cs[k]) = {} /\ f[j] = Placeholder(cs[k])
              /\ \A k \in 1..Len(cs) : Answers(ts, cs[k]) = {} => \E j \in 1..Len(f) : f[j] = Placeholder(cs[k])
  <2>1. ASSUME NEW j \in 1..Len(f)
        PROVE  \E k \in 1..Len(cs) : Answers(ts, cs[k]) = {} /\ f[j] = Placeholder(cs[k])
    <3>1. un[j] \in Range(un) /\ f[j] = Placeholder(un[j])
      BY <1>6, <1>7 DEF Range
    <3>2. un[j] \in Range(cs) /\ Answers(ts, un[j]) = {}
      BY <1>2, <1>10, <3>1
    <3>3. PICK k \in 1..Len(cs) : un[j] = cs[k]
      BY <1>1, <3>2 DEF Range
    <3> QED
      BY <3>1, <3>2, <3>3
  <2>2. ASSUME NEW k \in 1..Len(cs), Answers(ts, cs[k]) = {} PROVE \E j \in 1..Len(f) : f[j] = Placeholder(cs[k])
    <3>1. cs[k] \in Range(cs)
      BY <1>1 DEF Range
    <3>2. cs[k] \in Range(un)
      BY <1>2, <1>10, <2>2, <3>1
    <3>3. PICK j \in 1..Len(un) : cs[k] = un[j]
      BY <1>6, <3>2 DEF Range
    <3> QED
      BY <1>7, <3>3
  <2> QED
    BY <2>1, <2>2
<1>11. ASSUME ~IdDistinct(cs)
       PROVE  /\ Len(cs) <= Len(ts) + Len(f)
              /\ \A j \in 1..Len(f) : Len(ts) + j <= Len(cs) /\ f[j] = Placeholder(cs[Len(ts) + j])
  <2>1. Len(f) = IF Len(ts) + 1 <= Len(cs) THEN Len(cs) - Len(ts) ELSE 0
    BY <1>3, <1>7, <1>11
  <2>0. \A a, b, c \in Nat : a = (IF b + 1 <= c THEN c - b ELSE 0)
           => c <= b + a /\ \A j \in 1..a : b + j <= c /\ j \in 1..(c - b)
    OBVIOUS
  <2>4. Len(f) \in Nat /\ Len(ts) \in Nat /\ Len(cs) \in Nat
    BY <1>6, <1>7
  <2>5. /\ Len(cs) <= Len(ts) + Len(f)
        /\ \A j \in 1..Len(f) : Len(ts) + j <= Len(cs) /\ j \in 1..(Len(cs) - Len(ts))
    BY <2>0, <2>1, <2>4
  <2>2. Len(cs) <= Len(ts) + Len(f)
    BY <2>5
  <2>3. ASSUME NEW j \in 1..Len(f) PROVE Len(ts) + j <= Len(cs) /\ f[j] = Placeholder(cs[Len(ts) + j])
    <3>1. Len(ts) + j <= Len(cs) /\ j \in 1..(Len(cs) - Len(ts)) /\ j \in 1..Len(un)
      BY <1>7, <2>5
    <3> QED
      BY <1>3, <1>7, <1>11, <3>1
  <2> QED
    BY <2>2, <2>3
<1> QED
  BY <1>7, <1>8, <1>9, <1>10, <1>11 DEF f

LEMMA PlaceholderSays ==
  ASSUME NEW c PROVE Placeholder(c).named = c.named /\ Placeholder(c).to = c.id /\ GivenTo(Placeholder(c), c) = Placeholder(c)
BY DEF Placeholder, Result, Message, GivenTo

LEMMA KeptNames ==
  ASSUME NEW cs \in Seq(CallsMade), NEW ts \in Seq(Messages), NEW k \in 1..Len(cs),
         NameKnown(cs, SessionToolResults(cs, ts), k)
  PROVE  cs[k].named \/ NameKnown(cs, ts, k)
<1> DEFINE f == Fill(cs, ts)
           S == ts \o f
<1>1. f \in Seq(Messages) /\ SessionToolResults(cs, ts) = S
  BY FillIs
<1>2. IdDistinct(cs) => \A j \in 1..Len(f) : \E l \in 1..Len(cs) : f[j] = Placeholder(cs[l])
  BY FillIs
<1>3. ~IdDistinct(cs) => \A j \in 1..Len(f) : Len(ts) + j <= Len(cs) /\ f[j] = Placeholder(cs[Len(ts) + j])
  BY FillIs
<1> HIDE DEF f
<1>4. /\ S \in Seq(Messages) /\ Len(S) = Len(ts) + Len(f) /\ Len(ts) \in Nat /\ Len(f) \in Nat
      /\ DOMAIN ts = 1..Len(ts) /\ DOMAIN f = 1..Len(f) /\ DOMAIN S = 1..(Len(ts) + Len(f))
      /\ \A i \in 1..Len(ts) : S[i] = ts[i]
      /\ \A i \in 1..Len(f) : S[Len(ts) + i] = f[i]
  BY <1>1, ConcatIs
<1>5. Range(S) = Range(ts) \cup Range(f)
  BY <1>1, RangeConcatenation
<1> HIDE DEF S
<1>6. DOMAIN cs = 1..Len(cs) /\ NameKnown(cs, S, k)
  BY <1>1
<1>7. CASE IdDistinct(cs) /\ ~cs[k].named
  <2>1. PICK r \in Range(S) : r.to = cs[k].id /\ r.named
    BY <1>6, <1>7 DEF NameKnown
  <2>2. CASE r \in Range(ts)
    BY <1>7, <2>1, <2>2 DEF NameKnown
  <2>3. CASE r \in Range(f)
    <3>1. PICK j \in 1..Len(f) : r = f[j]
      BY <1>4, <2>3 DEF Range
    <3>2. PICK l \in 1..Len(cs) : f[j] = Placeholder(cs[l])
      BY <1>2, <1>7
    <3>3. r.to = cs[l].id /\ r.named = cs[l].named
      BY <3>1, <3>2, PlaceholderSays
    <3>4. l = k
      BY <1>6, <1>7, <2>1, <3>3 DEF IdDistinct
    <3> QED
      BY <2>1, <3>3, <3>4
  <2> QED
    BY <1>5, <2>2, <2>3
<1>8. CASE ~IdDistinct(cs) /\ ~cs[k].named
  <2>1. k <= Len(S) /\ S[k].named
    BY <1>6, <1>8 DEF NameKnown
  <2>2. CASE k <= Len(ts)
    <3>1. k \in 1..Len(ts)
      BY <2>2
    <3> QED
      BY <1>4, <1>8, <2>1, <2>2, <3>1 DEF NameKnown
  <2>3. CASE k > Len(ts)
    <3>1. k - Len(ts) \in 1..Len(f) /\ Len(ts) + (k - Len(ts)) = k
      BY <1>4, <2>1, <2>3
    <3>2. S[k] = Placeholder(cs[k])
      BY <1>3, <1>4, <1>8, <3>1
    <3> QED
      BY <2>1, <3>2, PlaceholderSays
  <2> QED
    BY <1>4, <2>2, <2>3
<1> QED
  BY <1>7, <1>8

LEMMA KeptTwice ==
  ASSUME NEW cs \in Seq(CallsMade), NEW ts \in Seq(Messages)
  PROVE  SessionToolResults(cs, SessionToolResults(cs, ts)) = SessionToolResults(cs, ts)
<1> DEFINE f == Fill(cs, ts)
           S == ts \o f
<1>1. f \in Seq(Messages) /\ SessionToolResults(cs, ts) = S
  BY FillIs
<1>2. IdDistinct(cs) => \A k \in 1..Len(cs) : Answers(ts, cs[k]) = {} => \E j \in 1..Len(f) : f[j] = Placeholder(cs[k])
  BY FillIs
<1>3. ~IdDistinct(cs) => Len(cs) <= Len(ts) + Len(f)
  BY FillIs
<1> HIDE DEF f
<1>4. /\ S \in Seq(Messages) /\ Len(S) = Len(ts) + Len(f) /\ Len(ts) \in Nat /\ Len(f) \in Nat
      /\ DOMAIN ts = 1..Len(ts) /\ DOMAIN f = 1..Len(f) /\ DOMAIN S = 1..(Len(ts) + Len(f))
      /\ \A i \in 1..Len(ts) : S[i] = ts[i]
      /\ \A i \in 1..Len(f) : S[Len(ts) + i] = f[i]
  BY <1>1, ConcatIs
<1> HIDE DEF S
<1>5. ASSUME IdDistinct(cs), NEW k \in 1..Len(cs) PROVE Answers(S, cs[k]) # {}
  <2>1. ASSUME NEW i \in Answers(ts, cs[k]) PROVE Answers(S, cs[k]) # {}
    <3>1. i \in 1..Len(ts) /\ ts[i].to = cs[k].id
      BY <1>4 DEF Answers
    <3>2. i \in 1..(Len(ts) + Len(f))
      BY <1>4, <3>1
    <3>3. i \in Answers(S, cs[k])
      BY <1>4, <3>1, <3>2 DEF Answers
    <3> QED
      BY <3>3
  <2>2. ASSUME NEW j \in 1..Len(f), f[j] = Placeholder(cs[k]) PROVE Answers(S, cs[k]) # {}
    <3>1. Len(ts) + j \in 1..(Len(ts) + Len(f)) /\ S[Len(ts) + j] = f[j]
      BY <1>4
    <3>2. Len(ts) + j \in Answers(S, cs[k])
      BY <1>4, <2>2, <3>1, PlaceholderSays DEF Answers
    <3> QED
      BY <3>2
  <2> QED
    BY <1>2, <1>5, <2>1, <2>2
<1>6. SessionToolResults(cs, S) = S
  <2>1. IF IdDistinct(cs) THEN \A k \in 1..Len(cs) : Answers(S, cs[k]) # {} ELSE Len(cs) <= Len(S)
    BY <1>3, <1>4, <1>5
  <2> QED
    BY <1>4, <2>1, NothingOpen
<1> QED
  BY <1>1, <1>6

LEMMA PairedKept ==
  ASSUME NEW cs \in Seq(CallsMade), NEW ts \in Seq(Messages)
  PROVE  PairToolResults(cs, SessionToolResults(cs, ts)) = PairToolResults(cs, ts)
<1> DEFINE f == Fill(cs, ts)
           S == ts \o f
<1>1. f \in Seq(Messages) /\ SessionToolResults(cs, ts) = S
  BY FillIs
<1>2. IdDistinct(cs) => /\ \A j \in 1..Len(f) : \E k \in 1..Len(cs) :
                             Answers(ts, cs[k]) = {} /\ f[j] = Placeholder(cs[k])
                        /\ \A k \in 1..Len(cs) : Answers(ts, cs[k]) = {} =>
                             \E j \in 1..Len(f) : f[j] = Placeholder(cs[k])
  BY FillIs
<1>3. ~IdDistinct(cs) => /\ Len(cs) <= Len(ts) + Len(f)
                         /\ \A j \in 1..Len(f) : Len(ts) + j <= Len(cs) /\ f[j] = Placeholder(cs[Len(ts) + j])
  BY FillIs
<1> HIDE DEF f
<1>4. /\ S \in Seq(Messages) /\ Len(S) = Len(ts) + Len(f) /\ Len(ts) \in Nat /\ Len(f) \in Nat
      /\ DOMAIN ts = 1..Len(ts) /\ DOMAIN f = 1..Len(f) /\ DOMAIN S = 1..(Len(ts) + Len(f))
      /\ \A i \in 1..Len(ts) : S[i] = ts[i]
      /\ \A i \in 1..Len(f) : S[Len(ts) + i] = f[i]
  BY <1>1, ConcatIs
<1> HIDE DEF S
<1>0. DOMAIN cs = 1..Len(cs)
  OBVIOUS
<1>7. \A i \in 1..(Len(ts) + Len(f)) : i \in 1..Len(ts) \/ \E j \in 1..Len(f) : i = Len(ts) + j
  BY <1>4, IndexOfConcat
<1>5. ASSUME NEW k \in 1..Len(cs) PROVE Picked(cs, S, k) = Picked(cs, ts, k)
  <2>1. CASE IdDistinct(cs) /\ Answers(ts, cs[k]) # {}
    <3>1. ASSUME NEW j \in 1..Len(f) PROVE f[j].to # cs[k].id
      <4>1. PICK l \in 1..Len(cs) : Answers(ts, cs[l]) = {} /\ f[j] = Placeholder(cs[l])
        BY <1>2, <2>1
      <4>2. l # k /\ f[j].to = cs[l].id
        BY <2>1, <4>1, PlaceholderSays
      <4> QED
        BY <1>0, <2>1, <4>2 DEF IdDistinct
    <3>2. ASSUME NEW i \in DOMAIN S PROVE S[i].to = cs[k].id <=> i \in DOMAIN ts /\ ts[i].to = cs[k].id
      <4>1. CASE i \in 1..Len(ts)
        BY <1>4, <4>1
      <4>2. ASSUME NEW j \in 1..Len(f), i = Len(ts) + j
            PROVE  S[i].to = cs[k].id <=> i \in DOMAIN ts /\ ts[i].to = cs[k].id
        <5>1. i \notin DOMAIN ts
          BY <1>4, <4>2
        <5> QED
          BY <1>4, <3>1, <4>2, <5>1
      <4> QED
        BY <1>4, <1>7, <4>1, <4>2
    <3>3. DOMAIN ts \subseteq DOMAIN S
      BY <1>4
    <3>4. Answers(S, cs[k]) = Answers(ts, cs[k])
      BY <3>2, <3>3 DEF Answers
    <3>5. LastOf(Answers(ts, cs[k])) \in 1..Len(ts)
      BY <2>1, LastAnswer DEF LastOf
    <3>6. S[LastOf(Answers(ts, cs[k]))] = ts[LastOf(Answers(ts, cs[k]))]
      BY <1>4, <3>5
    <3> QED
      BY <2>1, <3>4, <3>6 DEF Picked
  <2>2. CASE IdDistinct(cs) /\ Answers(ts, cs[k]) = {}
    <3>1. Picked(cs, ts, k) = Placeholder(cs[k])
      BY <2>2 DEF Picked
    <3>2. CASE Answers(S, cs[k]) = {}
      BY <2>2, <3>1, <3>2 DEF Picked
    <3>3. CASE Answers(S, cs[k]) # {}
      <4>1. PICK i : i = LastOf(Answers(S, cs[k]))
        OBVIOUS
      <4>2. i \in 1..Len(S) /\ S[i].to = cs[k].id
        BY <1>4, <3>3, <4>1, LastAnswer DEF LastOf
      <4>3. i \notin 1..Len(ts)
        BY <1>4, <2>2, <4>2 DEF Answers
      <4>4. PICK j \in 1..Len(f) : i = Len(ts) + j
        BY <1>4, <1>7, <4>2, <4>3
      <4>5. PICK l \in 1..Len(cs) : f[j] = Placeholder(cs[l])
        BY <1>2, <2>2
      <4>6. S[i] = Placeholder(cs[l]) /\ cs[l].id = cs[k].id
        BY <1>4, <4>2, <4>4, <4>5, PlaceholderSays
      <4>7. l = k
        BY <1>0, <2>2, <4>6 DEF IdDistinct
      <4>8. Picked(cs, S, k) = S[i]
        BY <2>2, <3>3, <4>1 DEF Picked
      <4> QED
        BY <3>1, <4>6, <4>7, <4>8
    <3> QED
      BY <3>2, <3>3
  <2>3. CASE ~IdDistinct(cs) /\ k <= Len(ts)
    <3>1. k \in 1..Len(ts) /\ k <= Len(S)
      BY <1>4, <2>3
    <3> QED
      BY <1>4, <2>3, <3>1 DEF Picked
  <2>4. CASE ~IdDistinct(cs) /\ ~(k <= Len(ts))
    <3>1. k <= Len(S) /\ k - Len(ts) \in 1..Len(f) /\ Len(ts) + (k - Len(ts)) = k
      <4>1. k \in Nat /\ k <= Len(cs) /\ Len(cs) \in Nat /\ Len(cs) <= Len(ts) + Len(f)
        BY <1>3, <2>4
      <4> QED
        BY <1>4, <2>4, <4>1
    <3>2. S[k] = Placeholder(cs[k])
      BY <1>3, <1>4, <2>4, <3>1
    <3>3. Picked(cs, S, k) = GivenTo(S[k], cs[k]) /\ Picked(cs, ts, k) = Placeholder(cs[k])
      BY <2>4, <3>1 DEF Picked, GivenTo
    <3> QED
      BY <3>2, <3>3, PlaceholderSays
  <2> QED
    BY <2>1, <2>2, <2>3, <2>4
<1>6. PairToolResults(cs, S) = PairToolResults(cs, ts)
  BY <1>5, PairedPicked
<1> QED
  BY <1>1, <1>6

-----------------------------------------------------------------------------
(* A second repair, of a turn, of a segment and of the list.               *)
LEMMA MendedAgain ==
  ASSUME NEW m \in Messages, Asks(m), NEW ts \in Seq(Messages), AllTools(ts), NEW drop \in BOOLEAN
  PROVE  /\ Mended(Mended(m, ts), Given(m, ts, drop)) = Mended(m, ts)
         /\ Given(Mended(m, ts), Given(m, ts, drop), drop) = Given(m, ts, drop)
         /\ ~drop => Given(Mended(m, ts), Given(m, ts, drop), TRUE) = Given(m, ts, TRUE)
<1> DEFINE cs == MendedCalls(m, ts)
           M == Mended(m, ts)
           G == Given(m, ts, drop)
<1>1. /\ M \in Messages /\ M.calls = cs /\ cs \in Seq(CallsMade) /\ Len(cs) = Len(m.calls)
      /\ \A k \in 1..Len(cs) : cs[k].cut = FALSE
      /\ G \in Seq(Messages)
  <2>1. \A r \in Range(ts) : IsTool(r)
    BY DEF AllTools
  <2>2. /\ M \in Messages /\ M.calls = cs /\ cs \in Seq(CallsMade) /\ Len(cs) = Len(m.calls)
        /\ \A k \in 1..Len(m.calls) : cs[k].cut = FALSE
    BY <2>1, MendedIs
  <2>3. G \in Seq(Messages)
    BY <2>1, MendedIs
  <2> HIDE DEF cs, M, G
  <2> QED
    BY <2>2, <2>3
<1>2. \A k \in 1..Len(cs) : NameKnown(cs, ts, k) => cs[k].named
  <2>1. m.calls \in Seq(CallsMade)
    BY DEF Messages
  <2>2. \A k \in 1..Len(m.calls) : NameKnown(cs, ts, k) => cs[k].named
    BY <2>1, Backfilled DEF MendedCalls
  <2> QED
    BY <1>1, <2>2
<1>3. G = IF drop THEN PairToolResults(cs, ts) ELSE SessionToolResults(cs, ts)
  BY DEF Given
<1>4. Given(m, ts, TRUE) = PairToolResults(cs, ts)
  BY DEF Given
<1>5. \A rs, d : MendedCalls(M, rs) = RepairToolCallArgs(BackfillToolCallNames(cs, rs))
                 /\ Given(M, rs, d) = IF d THEN PairToolResults(MendedCalls(M, rs), rs)
                                      ELSE SessionToolResults(MendedCalls(M, rs), rs)
  BY <1>1 DEF MendedCalls, Given
<1>6. \A rs : Mended(M, rs) = [M EXCEPT !.calls = MendedCalls(M, rs)]
  BY DEF Mended
<1> HIDE DEF cs, M, G
<1>7. ASSUME NEW k \in 1..Len(cs), NameKnown(cs, G, k) PROVE cs[k].named
  <2>1. CASE drop
    BY <1>1, <1>2, <1>3, <1>7, <2>1, PairedNames
  <2>2. CASE ~drop
    BY <1>1, <1>2, <1>3, <1>7, <2>2, KeptNames
  <2> QED
    BY <2>1, <2>2
<1>8. MendedCalls(M, G) = cs
  <2>1. RepairToolCallArgs(BackfillToolCallNames(cs, G)) = cs
    BY <1>1, <1>7, MendedTwice
  <2> QED
    BY <1>5, <2>1
<1>9. Mended(M, G) = M
  BY <1>1, <1>6, <1>8 DEF Messages
<1>10. Given(M, G, drop) = G
  <2>1. CASE drop
    <3>1. InPlace(cs, G)
      <4>1. PairToolResults(cs, ts) \in Seq(Messages) /\ Len(PairToolResults(cs, ts)) = Len(cs)
            /\ \A k \in 1..Len(cs) : PairToolResults(cs, ts)[k].to = cs[k].id
        BY <1>1, PairedIs DEF AllTools
      <4> QED
        BY <1>3, <2>1, <4>1 DEF InPlace
    <3>2. PairToolResults(cs, G) = G
      BY <1>1, <3>1, PairInPlace
    <3> QED
      BY <1>5, <1>8, <2>1, <3>2
  <2>2. CASE ~drop
    <3>1. SessionToolResults(cs, G) = G
      BY <1>1, <1>3, <2>2, KeptTwice
    <3> QED
      BY <1>5, <1>8, <2>2, <3>1
  <2> QED
    BY <2>1, <2>2
<1>11. ~drop => Given(M, G, TRUE) = Given(m, ts, TRUE)
  <2>1. PairToolResults(cs, SessionToolResults(cs, ts)) = PairToolResults(cs, ts)
    BY <1>1, PairedKept
  <2>2. Given(M, G, TRUE) = PairToolResults(cs, G)
    BY <1>5, <1>8
  <2> QED
    BY <1>3, <1>4, <2>1, <2>2
<1> QED
  BY <1>9, <1>10, <1>11 DEF M, G

LEMMA FineIsMended ==
  ASSUME NEW m \in Messages, Asks(m), NEW ts \in Seq(Messages), NEW drop \in BOOLEAN,
         InPlace(m.calls, ts), \A k \in 1..Len(m.calls) : m.calls[k].named /\ ~m.calls[k].cut
  PROVE  Mended(m, ts) = m /\ Given(m, ts, drop) = ts
<1>1. m.calls \in Seq(CallsMade) /\ DOMAIN m.calls = 1..Len(m.calls)
  BY DEF Messages
<1>2. \A k \in 1..Len(m.calls) : m.calls[k].cut = FALSE
  BY <1>1 DEF CallsMade
<1>3. MendedCalls(m, ts) = m.calls
  BY <1>1, <1>2, MendedTwice DEF MendedCalls
<1>4. Mended(m, ts) = m
  BY <1>3 DEF Mended, Messages
<1>5. PairToolResults(m.calls, ts) = ts /\ SessionToolResults(m.calls, ts) = ts
  BY <1>1, PairInPlace, KeptInPlace
<1> QED
  BY <1>3, <1>4, <1>5 DEF Given

\* What the repair makes of a segment is one.
LEMMA SlowSegmentIs ==
  ASSUME NEW m \in Messages, ~IsTool(m), NEW ts \in Seq(Messages), AllTools(ts), NEW drop \in BOOLEAN
  PROVE  \E w \in Messages, rs \in Seq(Messages) :
            /\ SlowPath(Segment(m, ts), drop) = Segment(w, rs) /\ AllTools(rs) /\ ~IsTool(w)
            /\ IF Asks(m) THEN w = Mended(m, ts) /\ rs = Given(m, ts, drop)
               ELSE w = m /\ rs = IF drop THEN <<>> ELSE ts
<1>1. CASE Asks(m)
  <2>1. /\ Mended(m, ts) \in Messages /\ Asks(Mended(m, ts))
        /\ Given(m, ts, drop) \in Seq(Messages) /\ AllTools(Given(m, ts, drop))
    BY <1>1, MendedIs DEF AllTools
  <2>2. ~IsTool(Mended(m, ts))
    BY <2>1 DEF Asks, IsTool
  <2>3. SlowPath(Segment(m, ts), drop) = Segment(Mended(m, ts), Given(m, ts, drop))
    BY <1>1, SlowSegment
  <2> QED
    BY <1>1, <2>1, <2>2, <2>3
<1>2. CASE ~Asks(m)
  <2>1. SlowPath(Segment(m, ts), drop) = Segment(m, IF drop THEN <<>> ELSE ts)
    BY <1>2, SlowSegment
  <2>2. <<>> \in Seq(Messages) /\ AllTools(<<>>)
    BY DEF AllTools, Range
  <2> QED
    BY <1>2, <2>1, <2>2
<1> QED
  BY <1>1, <1>2

LEMMA SegmentTwice ==
  ASSUME NEW m \in Messages, ~IsTool(m), NEW ts \in Seq(Messages), AllTools(ts), NEW drop \in BOOLEAN
  PROVE  LET x == SlowPath(Segment(m, ts), drop)
         IN SlowPath(x, drop) = x /\ (~drop => SlowPath(x, TRUE) = SlowPath(Segment(m, ts), TRUE))
<1> DEFINE x == SlowPath(Segment(m, ts), drop)
<1>1. PICK w \in Messages, rs \in Seq(Messages) :
            /\ x = Segment(w, rs) /\ AllTools(rs) /\ ~IsTool(w)
            /\ IF Asks(m) THEN w = Mended(m, ts) /\ rs = Given(m, ts, drop)
               ELSE w = m /\ rs = IF drop THEN <<>> ELSE ts
  BY SlowSegmentIs
<1> HIDE DEF x
<1>2. ASSUME NEW d \in BOOLEAN
      PROVE SlowPath(Segment(w, rs), d) = IF Asks(w) THEN Segment(Mended(w, rs), Given(w, rs, d))
                                          ELSE Segment(w, IF d THEN <<>> ELSE rs)
  BY <1>1, SlowSegment
<1>3. SlowPath(Segment(m, ts), TRUE) = IF Asks(m) THEN Segment(Mended(m, ts), Given(m, ts, TRUE))
                                       ELSE Segment(m, <<>>)
  BY SlowSegment
<1>4. CASE Asks(m)
  <2>1. w = Mended(m, ts) /\ rs = Given(m, ts, drop)
    BY <1>1, <1>4
  <2>2. Asks(w)
    BY <1>4, <2>1, MendedIs DEF AllTools
  <2>3. Mended(w, rs) = w /\ Given(w, rs, drop) = rs /\ (~drop => Given(w, rs, TRUE) = Given(m, ts, TRUE))
    BY <1>4, <2>1, MendedAgain
  <2>4. SlowPath(Segment(w, rs), drop) = Segment(w, rs)
    BY <1>2, <2>2, <2>3
  <2>5. ~drop => SlowPath(Segment(w, rs), TRUE) = Segment(w, Given(m, ts, TRUE))
    BY <1>2, <2>2, <2>3
  <2> QED
    BY <1>1, <1>3, <1>4, <2>1, <2>4, <2>5 DEF x
<1>5. CASE ~Asks(m)
  <2>1. w = m /\ rs = IF drop THEN <<>> ELSE ts
    BY <1>1, <1>5
  <2>2. SlowPath(Segment(w, rs), drop) = Segment(w, rs)
    BY <1>2, <1>5, <2>1
  <2>3. ~drop => SlowPath(Segment(w, rs), TRUE) = Segment(w, <<>>)
    BY <1>2, <1>5, <2>1
  <2> QED
    BY <1>1, <1>3, <1>5, <2>1, <2>2, <2>3 DEF x
<1> QED
  BY <1>4, <1>5

LEMMA ToolsTwice ==
  ASSUME NEW ts \in Seq(Messages), AllTools(ts), NEW drop \in BOOLEAN
  PROVE  LET x == SlowPath(ts, drop)
         IN SlowPath(x, drop) = x /\ (~drop => SlowPath(x, TRUE) = SlowPath(ts, TRUE))
<1>1. SlowPath(ts, drop) = IF drop THEN <<>> ELSE ts
  BY SlowTools
<1>2. <<>> \in Seq(Messages) /\ AllTools(<<>>)
  BY DEF AllTools, Range
<1>3. SlowPath(<<>>, TRUE) = <<>> /\ SlowPath(ts, FALSE) = ts
  BY <1>2, SlowTools
<1> QED
  BY <1>1, <1>3

LEMMA SlowTwice ==
  ASSUME NEW ms \in Seq(Messages), NEW drop \in BOOLEAN
  PROVE  LET x == SlowPath(ms, drop)
         IN SlowPath(x, drop) = x /\ (~drop => SlowPath(x, TRUE) = SlowPath(ms, TRUE))
<1> DEFINE x(s) == SlowPath(s, drop)
           G == {s \in Seq(Messages) : x(x(s)) = x(s) /\ (~drop => SlowPath(x(s), TRUE) = SlowPath(s, TRUE))}
<1>1. \A ts \in Seq(Messages) : AllTools(ts) => ts \in G
  BY ToolsTwice
<1>2. ASSUME NEW s \in Seq(Messages), NEW m \in Messages, NEW ts \in Seq(Messages),
             s \in G, ~IsTool(m), AllTools(ts)
      PROVE  s \o Segment(m, ts) \in G
  <2> DEFINE g == Segment(m, ts)
             c == s \o g
  <2>1. g \in Seq(Messages) /\ Opens(g) /\ c \in Seq(Messages)
    <3>1. g \in Seq(Messages) /\ Opens(g)
      BY <1>2, SegmentIs
    <3> HIDE DEF g
    <3> QED
      BY <3>1
  <2>2. Opens(x(g)) /\ x(g) \in Seq(Messages) /\ x(s) \in Seq(Messages)
    <3>1. PICK w \in Messages, rs \in Seq(Messages) : x(g) = Segment(w, rs) /\ AllTools(rs) /\ ~IsTool(w)
      BY <1>2, SlowSegmentIs
    <3> HIDE DEF g, x
    <3>2. Opens(x(g)) /\ x(g) \in Seq(Messages)
      BY <3>1, SegmentIs
    <3> QED
      BY <3>2, SlowType DEF x
  <2>3. /\ SlowPath(x(g), drop) = x(g)
        /\ ~drop => SlowPath(x(g), TRUE) = SlowPath(g, TRUE)
    BY <1>2, SegmentTwice
  <2>4. /\ SlowPath(x(s), drop) = x(s)
        /\ ~drop => SlowPath(x(s), TRUE) = SlowPath(s, TRUE)
    BY <1>2
  <2> HIDE DEF g, G
  <2>5. \A d \in BOOLEAN : SlowPath(c, d) = SlowPath(s, d) \o SlowPath(g, d)
    BY <2>1, SlowCut
  <2>6. \A d \in BOOLEAN : SlowPath(x(s) \o x(g), d) = SlowPath(x(s), d) \o SlowPath(x(g), d)
    BY <2>2, SlowCut
  <2>7. x(c) = x(s) \o x(g)
    BY <2>5
  <2> HIDE DEF c
  <2>8. SlowPath(x(c), drop) = x(c)
    BY <2>3, <2>4, <2>6, <2>7
  <2>9. ~drop => SlowPath(x(c), TRUE) = SlowPath(c, TRUE)
    BY <2>3, <2>4, <2>5, <2>6, <2>7
  <2> QED
    BY <2>1, <2>8, <2>9 DEF G, c, g
<1> HIDE DEF G
<1>3. ms \in G
  BY <1>1, <1>2, SegmentInduction
<1> QED
  BY <1>3 DEF G

(* The fast path is taken only where there is nothing to repair.           *)
LEMMA FastIsSlow ==
  ASSUME NEW ms \in Seq(Messages), NEW drop \in BOOLEAN, FastPath(ms, drop)
  PROVE  SlowPath(ms, drop) = ms
<1> DEFINE G == {s \in Seq(Messages) : FastPath(s, drop) => SlowPath(s, drop) = s}
<1>1. ASSUME NEW ts \in Seq(Messages), AllTools(ts) PROVE ts \in G
  <2>1. SlowPath(ts, drop) = IF drop THEN <<>> ELSE ts
    BY <1>1, SlowTools
  <2>2. FastPath(ts, TRUE) => ts = <<>>
    BY <1>1, WholeTools
  <2> QED
    BY <2>1, <2>2
<1>2. ASSUME NEW s \in Seq(Messages), NEW m \in Messages, NEW ts \in Seq(Messages),
             s \in G, ~IsTool(m), AllTools(ts)
      PROVE  s \o Segment(m, ts) \in G
  <2> DEFINE g == Segment(m, ts)
             c == s \o g
  <2>1. g \in Seq(Messages) /\ Opens(g) /\ c \in Seq(Messages)
    <3>1. g \in Seq(Messages) /\ Opens(g)
      BY <1>2, SegmentIs
    <3> HIDE DEF g
    <3> QED
      BY <3>1
  <2>2. ASSUME FastPath(g, drop) PROVE SlowPath(g, drop) = g
    <3>1. IF Asks(m) THEN InPlace(m.calls, ts) /\ \A k \in 1..Len(m.calls) : m.calls[k].named /\ ~m.calls[k].cut
          ELSE drop => ts = <<>>
      BY <1>2, <2>2, FastSegment
    <3>2. SlowPath(g, drop) = IF Asks(m) THEN Segment(Mended(m, ts), Given(m, ts, drop))
                              ELSE Segment(m, IF drop THEN <<>> ELSE ts)
      BY <1>2, SlowSegment
    <3>3. CASE Asks(m)
      <4>1. Mended(m, ts) = m /\ Given(m, ts, drop) = ts
        BY <3>1, <3>3, FineIsMended
      <4> QED
        BY <3>2, <3>3, <4>1
    <3>4. CASE ~Asks(m)
      BY <3>1, <3>2, <3>4
    <3> QED
      BY <3>3, <3>4
  <2> HIDE DEF g
  <2>3. FastPath(c, drop) <=> FastPath(s, drop) /\ FastPath(g, drop)
    BY <2>1, FastCut
  <2>4. SlowPath(c, drop) = SlowPath(s, drop) \o SlowPath(g, drop)
    BY <2>1, SlowCut
  <2>5. FastPath(c, drop) => SlowPath(c, drop) = c
    BY <1>2, <2>2, <2>3, <2>4
  <2> HIDE DEF c
  <2> QED
    BY <2>1, <2>5 DEF c, g
<1> HIDE DEF G
<1>3. ms \in G
  BY <1>1, <1>2, SegmentInduction
<1> QED
  BY <1>3 DEF G

LEMMA NormalizeIs ==
  ASSUME NEW ms \in Seq(Messages), NEW drop \in BOOLEAN
  PROVE  Normalize(ms, drop) = SlowPath(ms, drop)
BY FastIsSlow DEF Normalize

LEMMA AlwaysStable ==
  ASSUME disk \in Seq(Messages) PROVE RepairIsStable
<1>1. Wire(disk) = SlowPath(disk, TRUE) /\ Stored(disk) = SlowPath(disk, FALSE)
  BY NormalizeIs DEF Wire, Stored
<1>2. SlowPath(disk, TRUE) \in Seq(Messages) /\ SlowPath(disk, FALSE) \in Seq(Messages)
  BY SlowType
<1>3. /\ Wire(SlowPath(disk, TRUE)) = SlowPath(SlowPath(disk, TRUE), TRUE)
      /\ Wire(SlowPath(disk, FALSE)) = SlowPath(SlowPath(disk, FALSE), TRUE)
      /\ Stored(SlowPath(disk, FALSE)) = SlowPath(SlowPath(disk, FALSE), FALSE)
  BY <1>2, NormalizeIs DEF Wire, Stored
<1>4. /\ SlowPath(SlowPath(disk, TRUE), TRUE) = SlowPath(disk, TRUE)
      /\ SlowPath(SlowPath(disk, FALSE), FALSE) = SlowPath(disk, FALSE)
      /\ SlowPath(SlowPath(disk, FALSE), TRUE) = SlowPath(disk, TRUE)
  BY SlowTwice
<1>5. \A drop \in BOOLEAN : FastPath(disk, drop) => SlowPath(disk, drop) = disk
  BY FastIsSlow
<1> QED
  BY <1>1, <1>3, <1>4, <1>5 DEF RepairIsStable

-----------------------------------------------------------------------------
(* The messages that say something, and their numbers.                     *)
Real == {m \in Messages : m.n # 0}
RealNumbers(ms) == NumbersOf(Only(ms, Real))

LEMMA RealIs ==
  ASSUME NEW ms \in Seq(Messages)
  PROVE  /\ NumbersOf(Only(ms, {m \in Range(ms) : m.n # 0})) = RealNumbers(ms)
         /\ RealNumbers(ms) \in Seq(Labels)
<1>1. Range(ms) \subseteq Messages
  BY RangeOfSeq
<1>2. Range(ms) \cap {m \in Range(ms) : m.n # 0} = Range(ms) \cap Real
  BY <1>1 DEF Real
<1>3. Only(ms, {m \in Range(ms) : m.n # 0}) = Only(ms, Real)
  BY <1>2, OnlySame
<1>4. Only(ms, Real) \in Seq(Messages)
  BY PiecesType
<1>5. NumbersOf(Only(ms, Real)) \in Seq(Labels)
  BY <1>4, NumbersOfIs
<1> QED
  BY <1>3, <1>5 DEF RealNumbers

LEMMA NumbersOfConcat ==
  ASSUME NEW s \in Seq(Messages), NEW b \in Seq(Messages)
  PROVE  NumbersOf(s \o b) = NumbersOf(s) \o NumbersOf(b)
<1> DEFINE c == s \o b
           p == NumbersOf(c)
           q == NumbersOf(s)
           r == NumbersOf(b)
           w == q \o r
<1>1. /\ c \in Seq(Messages) /\ Len(c) = Len(s) + Len(b) /\ Len(s) \in Nat /\ Len(b) \in Nat
      /\ DOMAIN s = 1..Len(s) /\ DOMAIN b = 1..Len(b) /\ DOMAIN c = 1..(Len(s) + Len(b))
      /\ \A i \in 1..Len(s) : c[i] = s[i]
      /\ \A i \in 1..Len(b) : c[Len(s) + i] = b[i]
  BY ConcatIs
<1> HIDE DEF c
<1>2. p \in Seq(Labels) /\ Len(p) = Len(s) + Len(b) /\ \A i \in 1..(Len(s) + Len(b)) : p[i] = c[i].n
  <2>1. p \in Seq(Labels) /\ Len(p) = Len(c)
    BY <1>1, NumbersOfIs
  <2> QED
    BY <1>1, <2>1 DEF NumbersOf
<1>3. q \in Seq(Labels) /\ Len(q) = Len(s) /\ \A i \in 1..Len(s) : q[i] = s[i].n
  <2>1. q \in Seq(Labels) /\ Len(q) = Len(s)
    BY NumbersOfIs
  <2> QED
    BY <1>1, <2>1 DEF NumbersOf
<1>4. r \in Seq(Labels) /\ Len(r) = Len(b) /\ \A i \in 1..Len(b) : r[i] = b[i].n
  <2>1. r \in Seq(Labels) /\ Len(r) = Len(b)
    BY NumbersOfIs
  <2> QED
    BY <1>1, <2>1 DEF NumbersOf
<1> HIDE DEF p, q, r
<1>5. /\ w \in Seq(Labels) /\ Len(w) = Len(s) + Len(b)
      /\ \A i \in 1..Len(s) : w[i] = q[i]
      /\ \A i \in 1..Len(b) : w[Len(s) + i] = r[i]
  <2>1. q \in Seq(Labels) /\ r \in Seq(Labels) /\ Len(q) = Len(s) /\ Len(r) = Len(b)
    BY <1>3, <1>4
  <2>2. /\ w \in Seq(Labels) /\ Len(w) = Len(q) + Len(r)
        /\ \A i \in 1..Len(q) : w[i] = q[i]
        /\ \A i \in 1..Len(r) : w[Len(q) + i] = r[i]
    <3>1. q \in Seq(Labels) /\ r \in Seq(Labels)
      BY <2>1
    <3> QED
      BY <3>1, ConcatIs
  <2> HIDE DEF w
  <2> QED
    BY <2>1, <2>2
<1> HIDE DEF w
<1>6. ASSUME NEW i \in 1..Len(p) PROVE p[i] = w[i]
  <2>1. i \in 1..(Len(s) + Len(b))
    BY <1>2
  <2>2. i \in 1..Len(s) \/ \E k \in 1..Len(b) : i = Len(s) + k
    <3>1. Len(s) \in Nat /\ Len(b) \in Nat
      BY <1>1
    <3> QED
      BY <2>1, <3>1, IndexOfConcat
  <2>3. CASE i \in 1..Len(s)
    BY <1>1, <1>2, <1>3, <1>5, <2>1, <2>3
  <2>4. ASSUME NEW k \in 1..Len(b), i = Len(s) + k PROVE p[i] = w[i]
    BY <1>1, <1>2, <1>4, <1>5, <2>1, <2>4
  <2> QED
    BY <2>2, <2>3, <2>4
<1>7. Len(p) = Len(w)
  BY <1>2, <1>5
<1>8. p = w
  BY <1>2, <1>5, <1>6, <1>7, SeqEqual
<1> QED
  BY <1>8 DEF p, w, q, r, c

LEMMA RealConcat ==
  ASSUME NEW s \in Seq(Messages), NEW b \in Seq(Messages)
  PROVE  RealNumbers(s \o b) = RealNumbers(s) \o RealNumbers(b)
<1>1. Only(s \o b, Real) = Only(s, Real) \o Only(b, Real)
  BY OnlyConcat
<1>2. Only(s, Real) \in Seq(Messages) /\ Only(b, Real) \in Seq(Messages)
  BY PiecesType
<1> QED
  BY <1>1, <1>2, NumbersOfConcat DEF RealNumbers

LEMMA RealOne ==
  ASSUME NEW m \in Messages
  PROVE  RealNumbers(<<m>>) = IF m.n # 0 THEN <<m.n>> ELSE <<>>
<1>1. Only(<<m>>, Real) = IF m \in Real THEN <<m>> ELSE <<>>
  BY OnlyOne
<1>2. NumbersOf(<<m>>) = <<m.n>> /\ NumbersOf(<<>>) = <<>>
  BY DEF NumbersOf
<1>3. m \in Real <=> m.n # 0
  BY DEF Real
<1> QED
  BY <1>1, <1>2, <1>3 DEF RealNumbers

LEMMA RealNone ==
  ASSUME NEW s \in Seq(Messages), \A m \in Range(s) : m.n = 0
  PROVE  RealNumbers(s) = <<>>
<1>1. Range(s) \cap Real = {}
  BY DEF Real
<1>2. Only(s, Real) = <<>>
  BY <1>1, OnlyNone
<1> QED
  BY <1>2 DEF RealNumbers, NumbersOf

LEMMA RealSegment ==
  ASSUME NEW m \in Messages, ~IsTool(m), NEW ts \in Seq(Messages), AllTools(ts)
  PROVE  RealNumbers(SlowPath(Segment(m, ts), FALSE)) = RealNumbers(Segment(m, ts))
<1> DEFINE M == Mended(m, ts)
           S == Given(m, ts, FALSE)
           cs == MendedCalls(m, ts)
           f == Fill(cs, ts)
           o == <<M>>
           p == <<m>>
<1>1. CASE ~Asks(m)
  <2>1. SlowPath(Segment(m, ts), FALSE) = Segment(m, ts)
    BY <1>1, SlowSegment
  <2> QED
    BY <2>1
<1>2. CASE Asks(m)
  <2>1. SlowPath(Segment(m, ts), FALSE) = o \o S /\ Segment(m, ts) = p \o ts
    BY <1>2, SlowSegment DEF Segment
  <2>2. /\ M \in Messages /\ M.n = m.n /\ cs \in Seq(CallsMade) /\ S \in Seq(Messages)
    BY <1>2, MendedIs DEF AllTools
  <2>3. S = SessionToolResults(cs, ts)
    BY DEF Given
  <2> HIDE DEF M, S, cs
  <2>4. S = ts \o f /\ f \in Seq(Messages) /\ \A r \in Range(f) : r.n = 0
    BY <2>2, <2>3, FillIs
  <2>5. RealNumbers(o) = RealNumbers(p)
    BY <2>2, RealOne
  <2>6. o \in Seq(Messages) /\ p \in Seq(Messages)
    BY <2>2
  <2> HIDE DEF o, p, f
  <2>7. RealNumbers(f) = <<>>
    BY <2>4, RealNone
  <2>8. RealNumbers(S) = RealNumbers(ts) \o RealNumbers(f)
    BY <2>4, RealConcat
  <2>9. RealNumbers(ts) \in Seq(Labels)
    BY RealIs
  <2>10. RealNumbers(S) = RealNumbers(ts)
    BY <2>7, <2>8, <2>9, ConcatEmptySeq
  <2>11. RealNumbers(o \o S) = RealNumbers(o) \o RealNumbers(S) /\ RealNumbers(p \o ts) = RealNumbers(p) \o RealNumbers(ts)
    BY <2>2, <2>6, RealConcat
  <2> QED
    BY <2>1, <2>5, <2>10, <2>11
<1> QED
  BY <1>1, <1>2

LEMMA SlowKeepsReal ==
  ASSUME NEW ms \in Seq(Messages)
  PROVE  RealNumbers(SlowPath(ms, FALSE)) = RealNumbers(ms)
<1> DEFINE G == {s \in Seq(Messages) : RealNumbers(SlowPath(s, FALSE)) = RealNumbers(s)}
<1>1. \A ts \in Seq(Messages) : AllTools(ts) => ts \in G
  BY SlowTools
<1>2. ASSUME NEW s \in Seq(Messages), NEW m \in Messages, NEW ts \in Seq(Messages),
             s \in G, ~IsTool(m), AllTools(ts)
      PROVE  s \o Segment(m, ts) \in G
  <2> DEFINE g == Segment(m, ts)
  <2>1. g \in Seq(Messages) /\ Opens(g) /\ RealNumbers(SlowPath(g, FALSE)) = RealNumbers(g)
    BY <1>2, SegmentIs, RealSegment
  <2> HIDE DEF g
  <2>2. SlowPath(s \o g, FALSE) = SlowPath(s, FALSE) \o SlowPath(g, FALSE)
    BY <2>1, SlowCut
  <2>3. SlowPath(s, FALSE) \in Seq(Messages) /\ SlowPath(g, FALSE) \in Seq(Messages)
    BY <2>1, SlowType
  <2>4. RealNumbers(SlowPath(s, FALSE) \o SlowPath(g, FALSE)) = RealNumbers(SlowPath(s, FALSE)) \o RealNumbers(SlowPath(g, FALSE))
    BY <2>3, RealConcat
  <2>5. RealNumbers(s \o g) = RealNumbers(s) \o RealNumbers(g)
    BY <2>1, RealConcat
  <2>6. s \o g \in Seq(Messages)
    BY <2>1
  <2>7. RealNumbers(SlowPath(s, FALSE)) = RealNumbers(s)
    BY <1>2
  <2> HIDE DEF G
  <2>8. RealNumbers(SlowPath(s \o g, FALSE)) = RealNumbers(s \o g)
    BY <2>1, <2>2, <2>4, <2>5, <2>7
  <2> QED
    BY <2>6, <2>8 DEF G, g
<1> HIDE DEF G
<1>3. ms \in G
  BY <1>1, <1>2, SegmentInduction
<1> QED
  BY <1>3 DEF G

LEMMA AlwaysKeepsAll ==
  ASSUME disk \in Seq(Messages) PROVE LoadKeepsAll
<1>1. Stored(disk) = SlowPath(disk, FALSE) /\ SlowPath(disk, FALSE) \in Seq(Messages)
  BY NormalizeIs, SlowType DEF Stored
<1>2. RealNumbers(SlowPath(disk, FALSE)) = RealNumbers(disk)
  BY SlowKeepsReal
<1>3. \A ms \in Seq(Messages) : NumbersOf(Only(ms, {m \in Range(ms) : m.n # 0})) = RealNumbers(ms)
  BY RealIs
<1> QED
  BY <1>1, <1>2, <1>3 DEF LoadKeepsAll

(* A load and a request repair what is broken, once, and a load drops      *)
(* nothing, whatever the file holds.                                       *)
THEOREM RepairsAreSound == TranscriptSpec => []RepairIsSound
<1>1. TranscriptInv => RepairIsSound
  BY AlwaysStable, AlwaysKeepsAll DEF TranscriptInv, ListTypes, RepairIsSound
<1> QED
  BY <1>1, TranscriptInvHolds, PTL

-----------------------------------------------------------------------------
(* What a provider is sent.                                                *)
NothingCut(ms) == \A m \in Range(ms) : \A c \in Range(m.calls) : ~c.cut

LEMMA SentTools ==
  ASSUME NEW ts \in Seq(Messages), AllTools(ts)
  PROVE  Whole(SlowPath(ts, TRUE)) /\ NothingCut(SlowPath(ts, TRUE))
<1>1. SlowPath(ts, TRUE) = <<>>
  BY SlowTools
<1>2. <<>> \in Seq(Messages) /\ AllTools(<<>>)
  BY DEF AllTools, Range
<1>3. Whole(<<>>)
  BY <1>2, WholeTools
<1>4. NothingCut(<<>>)
  BY DEF NothingCut, Range
<1> QED
  BY <1>1, <1>3, <1>4

LEMMA SentSegment ==
  ASSUME NEW m \in Messages, ~IsTool(m), NEW ts \in Seq(Messages), AllTools(ts)
  PROVE  Whole(SlowPath(Segment(m, ts), TRUE)) /\ NothingCut(SlowPath(Segment(m, ts), TRUE))
<1> DEFINE x == SlowPath(Segment(m, ts), TRUE)
<1>1. PICK w \in Messages, rs \in Seq(Messages) :
        /\ x = Segment(w, rs) /\ AllTools(rs) /\ ~IsTool(w)
        /\ IF Asks(m) THEN w = Mended(m, ts) /\ rs = Given(m, ts, TRUE)
           ELSE w = m /\ rs = IF TRUE THEN <<>> ELSE ts
  BY SlowSegmentIs
<1> HIDE DEF x
<1>2. Whole(x) <=> IF Asks(w) THEN InPlace(w.calls, rs) ELSE rs = <<>>
  BY <1>1, WholeSegment
<1>3. Range(x) = {w} \cup Range(rs)
  BY <1>1, SegmentIs
<1>4. \A r \in Range(rs) : r.calls = <<>>
  <2>1. \A r \in Range(rs) : r \in Messages /\ IsTool(r)
    BY <1>1, RangeOfSeq DEF AllTools
  <2> QED
    BY <2>1 DEF Messages, IsTool
<1>5. CASE Asks(m)
  <2> DEFINE cs == MendedCalls(m, ts)
  <2>1. /\ Asks(w) /\ w.calls = cs /\ cs \in Seq(CallsMade) /\ Len(cs) = Len(m.calls)
        /\ \A k \in 1..Len(cs) : cs[k].cut = FALSE
    <3>1. \A r \in Range(ts) : IsTool(r)
      BY DEF AllTools
    <3>2. w = Mended(m, ts)
      BY <1>1, <1>5
    <3>3. /\ Asks(Mended(m, ts)) /\ Mended(m, ts).calls = cs /\ cs \in Seq(CallsMade) /\ Len(cs) = Len(m.calls)
          /\ \A k \in 1..Len(m.calls) : cs[k].cut = FALSE
      BY <1>5, <3>1, MendedIs
    <3> HIDE DEF cs
    <3> QED
      BY <3>2, <3>3
  <2>2. rs = PairToolResults(cs, ts)
    BY <1>1, <1>5 DEF Given
  <2> HIDE DEF cs
  <2>3. Len(rs) = Len(cs) /\ \A k \in 1..Len(cs) : rs[k].to = cs[k].id
    BY <2>1, <2>2, PairedIs DEF AllTools
  <2>4. Whole(x)
    BY <1>2, <2>1, <2>3 DEF InPlace
  <2>5. \A c \in Range(w.calls) : ~c.cut
    BY <2>1 DEF Range
  <2>6. \A c \in Range(<<>>) : ~c.cut
    BY DEF Range
  <2>7. NothingCut(x)
    BY <1>3, <1>4, <2>5, <2>6 DEF NothingCut
  <2> QED
    BY <2>4, <2>7 DEF x
<1>6. CASE ~Asks(m)
  <2>1. w = m /\ rs = <<>> /\ ~Asks(w)
    BY <1>1, <1>6
  <2>2. w.calls = <<>>
    BY <2>1 DEF Messages, Asks
  <2>3. \A c \in Range(<<>>) : ~c.cut
    BY DEF Range
  <2>4. NothingCut(x)
    BY <1>3, <1>4, <2>2, <2>3 DEF NothingCut
  <2> QED
    BY <1>2, <2>1, <2>4 DEF x
<1> QED
  BY <1>5, <1>6

LEMMA SentIs ==
  ASSUME NEW ms \in Seq(Messages)
  PROVE  Whole(SlowPath(ms, TRUE)) /\ NothingCut(SlowPath(ms, TRUE))
<1> DEFINE x(s) == SlowPath(s, TRUE)
           G == {s \in Seq(Messages) : Whole(x(s)) /\ NothingCut(x(s))}
<1>1. \A ts \in Seq(Messages) : AllTools(ts) => ts \in G
  BY SentTools
<1>2. ASSUME NEW s \in Seq(Messages), NEW m \in Messages, NEW ts \in Seq(Messages),
             s \in G, ~IsTool(m), AllTools(ts)
      PROVE  s \o Segment(m, ts) \in G
  <2> DEFINE g == Segment(m, ts)
  <2>1. g \in Seq(Messages) /\ Opens(g)
    BY <1>2, SegmentIs
  <2>2. Opens(x(g)) /\ x(g) \in Seq(Messages) /\ x(s) \in Seq(Messages)
    <3>1. PICK w \in Messages, rs \in Seq(Messages) : x(g) = Segment(w, rs) /\ AllTools(rs) /\ ~IsTool(w)
      BY <1>2, SlowSegmentIs
    <3> HIDE DEF g, x
    <3>2. Opens(x(g)) /\ x(g) \in Seq(Messages)
      BY <3>1, SegmentIs
    <3> QED
      BY <3>2, SlowType DEF x
  <2>3. Whole(x(g)) /\ NothingCut(x(g))
    BY <1>2, SentSegment
  <2>4. Whole(x(s)) /\ NothingCut(x(s))
    BY <1>2
  <2> HIDE DEF g, G
  <2>5. x(s \o g) = x(s) \o x(g)
    BY <2>1, SlowCut
  <2> HIDE DEF x
  <2>6. Whole(x(s) \o x(g))
    BY <2>2, <2>3, <2>4, WholeCut
  <2>7. Range(x(s) \o x(g)) = Range(x(s)) \cup Range(x(g))
    BY <2>2, RangeConcatenation
  <2>8. NothingCut(x(s) \o x(g))
    BY <2>3, <2>4, <2>7 DEF NothingCut
  <2>9. s \o g \in Seq(Messages)
    BY <2>1
  <2> QED
    BY <2>5, <2>6, <2>8, <2>9 DEF G, g
<1> HIDE DEF G
<1>3. ms \in G
  BY <1>1, <1>2, SegmentInduction
<1> QED
  BY <1>3 DEF G

-----------------------------------------------------------------------------
(* No message is there twice.                                              *)
Unique(ms) == \A i, j \in DOMAIN ms : ms[i].n = ms[j].n /\ ms[i].n # 0 => i = j

\* The messages of new are of old, no one more often.
Thins(old, new) == Numbers(new) \subseteq Numbers(old) \cup {0} /\ (Unique(old) => Unique(new))

LEMMA NumbersConcat ==
  ASSUME NEW T, NEW s \in Seq(T), NEW b \in Seq(T)
  PROVE  Numbers(s \o b) = Numbers(s) \cup Numbers(b)
<1>1. Range(s \o b) = Range(s) \cup Range(b)
  BY RangeConcatenation
<1> DEFINE c == s \o b
<1> HIDE DEF c
<1>2. Range(c) = Range(s) \cup Range(b)
  BY <1>1 DEF c
<1>3. Numbers(c) = Numbers(s) \cup Numbers(b)
  BY <1>2 DEF Numbers
<1> QED
  BY <1>3 DEF c

LEMMA NumbersIs ==
  ASSUME NEW T, NEW s \in Seq(T)
  PROVE  /\ \A i \in 1..Len(s) : s[i].n \in Numbers(s)
         /\ \A n \in Numbers(s) : \E i \in 1..Len(s) : n = s[i].n
BY DEF Numbers, Range

LEMMA UniqueConcat ==
  ASSUME NEW T, NEW s \in Seq(T), NEW b \in Seq(T)
  PROVE  Unique(s \o b) <=> Unique(s) /\ Unique(b) /\ Numbers(s) \cap Numbers(b) \subseteq {0}
<1> DEFINE c == s \o b
<1>1. /\ Len(s) \in Nat /\ Len(b) \in Nat
      /\ DOMAIN s = 1..Len(s) /\ DOMAIN b = 1..Len(b) /\ DOMAIN c = 1..(Len(s) + Len(b))
      /\ \A i \in 1..Len(s) : c[i] = s[i]
      /\ \A i \in 1..Len(b) : c[Len(s) + i] = b[i]
  BY ConcatIs
<1> HIDE DEF c
<1>2. \A i \in 1..Len(s) : i \in 1..(Len(s) + Len(b))
  BY <1>1
<1>3. \A i \in 1..Len(b) : Len(s) + i \in 1..(Len(s) + Len(b)) /\ Len(s) + i \notin 1..Len(s)
  BY <1>1
<1>4. \A i, j \in 1..Len(b) : Len(s) + i = Len(s) + j => i = j
  BY <1>1
<1>5. \A i \in 1..(Len(s) + Len(b)) : i \in 1..Len(s) \/ \E k \in 1..Len(b) : i = Len(s) + k
  BY <1>1, IndexOfConcat
<1>6. /\ \A i \in 1..Len(s) : s[i].n \in Numbers(s)
      /\ \A n \in Numbers(s) : \E i \in 1..Len(s) : n = s[i].n
      /\ \A i \in 1..Len(b) : b[i].n \in Numbers(b)
      /\ \A n \in Numbers(b) : \E i \in 1..Len(b) : n = b[i].n
  BY NumbersIs
<1>7. ASSUME Unique(c) PROVE Unique(s) /\ Unique(b) /\ Numbers(s) \cap Numbers(b) \subseteq {0}
  <2>1. \A i, j \in 1..(Len(s) + Len(b)) : c[i].n = c[j].n /\ c[i].n # 0 => i = j
    BY <1>1, <1>7 DEF Unique
  <2>2. Unique(s)
    BY <1>1, <1>2, <2>1 DEF Unique
  <2>3. ASSUME NEW i \in 1..Len(b), NEW j \in 1..Len(b), b[i].n = b[j].n, b[i].n # 0 PROVE i = j
    <3> DEFINE x == Len(s) + i
               y == Len(s) + j
    <3>2. x \in 1..(Len(s) + Len(b)) /\ y \in 1..(Len(s) + Len(b))
      BY <1>3
    <3>3. c[x] = b[i] /\ c[y] = b[j]
      BY <1>1
    <3> HIDE DEF x, y
    <3>4. x = y
      BY <2>1, <2>3, <3>2, <3>3
    <3>1. Len(s) + i = Len(s) + j
      BY <3>4 DEF x, y
    <3> QED
      BY <1>4, <3>1
  <2>4. Unique(b)
    BY <1>1, <2>3 DEF Unique
  <2>5. ASSUME NEW n \in Numbers(s), n \in Numbers(b), n # 0 PROVE FALSE
    <3>1. PICK i \in 1..Len(s) : n = s[i].n
      BY <1>6
    <3>2. PICK j \in 1..Len(b) : n = b[j].n
      BY <1>6, <2>5
    <3>3. i = Len(s) + j
      <4>1. c[i].n = n /\ c[Len(s) + j].n = n
        BY <1>1, <3>1, <3>2
      <4> QED
        BY <1>2, <1>3, <2>1, <2>5, <4>1
    <3> QED
      BY <1>3, <3>3
  <2> QED
    BY <2>2, <2>4, <2>5
<1>8. ASSUME Unique(s), Unique(b), Numbers(s) \cap Numbers(b) \subseteq {0},
             NEW i \in 1..(Len(s) + Len(b)), NEW j \in 1..(Len(s) + Len(b)), c[i].n = c[j].n, c[i].n # 0
      PROVE  i = j
  <2>1. CASE i \in 1..Len(s) /\ j \in 1..Len(s)
    BY <1>1, <1>8, <2>1 DEF Unique
  <2>2. ASSUME NEW k \in 1..Len(b), NEW l \in 1..Len(b), i = Len(s) + k, j = Len(s) + l PROVE i = j
    <3>1. b[k].n = b[l].n /\ b[k].n # 0
      BY <1>1, <1>8, <2>2
    <3>2. k = l
      BY <1>1, <1>8, <3>1 DEF Unique
    <3> QED
      BY <2>2, <3>2
  <2>3. ASSUME NEW k \in 1..Len(s), NEW l \in 1..Len(b), s[k].n = b[l].n, s[k].n # 0 PROVE FALSE
    <3>1. s[k].n \in Numbers(s) /\ s[k].n \in Numbers(b)
      BY <1>6, <2>3
    <3> QED
      BY <1>8, <2>3, <3>1
  <2>4. ASSUME i \in 1..Len(s), NEW l \in 1..Len(b), j = Len(s) + l PROVE FALSE
    BY <1>1, <1>8, <2>3, <2>4
  <2>5. ASSUME j \in 1..Len(s), NEW l \in 1..Len(b), i = Len(s) + l PROVE FALSE
    BY <1>1, <1>8, <2>3, <2>5
  <2> QED
    BY <1>5, <2>1, <2>2, <2>4, <2>5
<1>9. ASSUME Unique(s), Unique(b), Numbers(s) \cap Numbers(b) \subseteq {0} PROVE Unique(c)
  BY <1>1, <1>8, <1>9 DEF Unique
<1> QED
  BY <1>7, <1>9 DEF c

LEMMA ThinsConcat ==
  ASSUME NEW T, NEW a \in Seq(T), NEW b \in Seq(T), NEW s \in Seq(T), NEW t \in Seq(T),
         Thins(a, s), Thins(b, t)
  PROVE  Thins(a \o b, s \o t)
<1>1. /\ Numbers(a \o b) = Numbers(a) \cup Numbers(b)
      /\ Numbers(s \o t) = Numbers(s) \cup Numbers(t)
  BY NumbersConcat
<1>2. /\ Unique(a \o b) <=> Unique(a) /\ Unique(b) /\ Numbers(a) \cap Numbers(b) \subseteq {0}
      /\ Unique(s \o t) <=> Unique(s) /\ Unique(t) /\ Numbers(s) \cap Numbers(t) \subseteq {0}
  BY UniqueConcat
<1> DEFINE p == a \o b
           q == s \o t
<1> HIDE DEF p, q
<1>3. Thins(p, q)
  BY <1>1, <1>2 DEF Thins, p, q
<1> QED
  BY <1>3 DEF p, q

LEMMA ThinsSame == ASSUME NEW a PROVE Thins(a, a)
BY DEF Thins

LEMMA ThinsTwice == ASSUME NEW a, NEW b, NEW c, Thins(a, b), Thins(b, c) PROVE Thins(a, c)
BY DEF Thins

\* Messages that say nothing, and none.
LEMMA ThinsSilent ==
  ASSUME NEW T, NEW a, NEW s \in Seq(T), \A m \in Range(s) : m.n = 0
  PROVE  Thins(a, s)
<1>1. Numbers(s) \subseteq {0}
  BY DEF Numbers
<1>2. Unique(s)
  BY DEF Unique, Range
<1> QED
  BY <1>1, <1>2 DEF Thins

LEMMA ThinsOne ==
  ASSUME NEW m, NEW w, w.n = m.n PROVE Thins(<<m>>, <<w>>)
BY DEF Thins, Numbers, Range, Unique

LEMMA ThinsMore ==
  ASSUME NEW T, NEW a, NEW s \in Seq(T), NEW f \in Seq(T), Thins(a, s), \A m \in Range(f) : m.n = 0
  PROVE  Thins(a, s \o f)
<1>1. Numbers(f) \subseteq {0} /\ Unique(f)
  BY DEF Numbers, Unique, Range
<1>2. /\ Numbers(s \o f) = Numbers(s) \cup Numbers(f)
      /\ Unique(s \o f) <=> Unique(s) /\ Unique(f) /\ Numbers(s) \cap Numbers(f) \subseteq {0}
  BY NumbersConcat, UniqueConcat
<1> DEFINE c == s \o f
<1> HIDE DEF c
<1>3. Thins(a, c)
  BY <1>1, <1>2 DEF Thins, c
<1> QED
  BY <1>3 DEF c

LEMMA ThinsPart ==
  ASSUME NEW T, NEW p \in Seq(T), NEW q \in Seq(T)
  PROVE  Thins(p \o q, p) /\ Thins(p \o q, q)
<1>1. /\ Numbers(p \o q) = Numbers(p) \cup Numbers(q)
      /\ Unique(p \o q) <=> Unique(p) /\ Unique(q) /\ Numbers(p) \cap Numbers(q) \subseteq {0}
  BY NumbersConcat, UniqueConcat
<1> DEFINE c == p \o q
<1> HIDE DEF c
<1>2. Thins(c, p) /\ Thins(c, q)
  BY <1>1 DEF Thins, c
<1> QED
  BY <1>2 DEF c

LEMMA ThinsShape ==
  ASSUME NEW r \in Seq(Messages), NEW s \in Seq(Messages), Len(s) = Len(r), \A i \in 1..Len(r) : s[i].n = r[i].n
  PROVE  Thins(r, s)
<1>1. DOMAIN r = 1..Len(r) /\ DOMAIN s = 1..Len(r)
  OBVIOUS
<1>2. Numbers(s) \subseteq Numbers(r)
  BY <1>1 DEF Numbers, Range
<1>3. Unique(r) => Unique(s)
  BY <1>1 DEF Unique
<1> QED
  BY <1>2, <1>3 DEF Thins

LEMMA ThinsOnly ==
  ASSUME NEW T, NEW s \in Seq(T), NEW S
  PROVE  Thins(s, Only(s, S))
<1> DEFINE G == {r \in Seq(T) : Thins(r, Only(r, S))}
<1>1. <<>> \in G
  <2>1. <<>> \in Seq(T) /\ Only(<<>>, S) = <<>>
    BY OnlyEmpty
  <2> QED
    BY <2>1, ThinsSame
<1>2. ASSUME NEW r \in Seq(T), NEW e \in T, r \in G PROVE Append(r, e) \in G
  <2> DEFINE f == <<e>>
             o == Only(f, S)
  <2>1. f \in Seq(T) /\ Append(r, e) = r \o f /\ Append(r, e) \in Seq(T)
    BY AppendIsConcat
  <2>2. Thins(f, o)
    <3>1. o = IF e \in S THEN f ELSE <<>>
      BY OnlyOne
    <3>2. Thins(f, f)
      BY ThinsSame
    <3>3. Thins(f, <<>>)
      <4>1. <<>> \in Seq(T) /\ Range(<<>>) = {}
        BY DEF Range
      <4> QED
        BY <4>1, ThinsSilent
    <3> QED
      BY <3>1, <3>2, <3>3
  <2> HIDE DEF f
  <2>3. o \in Seq(T) /\ Only(r, S) \in Seq(T)
    BY <2>1, PiecesType
  <2>4. Only(r \o f, S) = Only(r, S) \o o
    BY <2>1, OnlyConcat
  <2> HIDE DEF o
  <2>5. Thins(r, Only(r, S))
    BY <1>2
  <2>6. Thins(r \o f, Only(r, S) \o o)
    BY <2>1, <2>2, <2>3, <2>5, ThinsConcat
  <2> QED
    BY <2>1, <2>4, <2>6
<1> HIDE DEF G
<1>3. s \in G
  BY <1>1, <1>2, ListInduction
<1> QED
  BY <1>3 DEF G

LEMMA ThinsRemoved ==
  ASSUME NEW T, NEW s \in Seq(T), NEW i \in DOMAIN s
  PROVE  Thins(s, RemoveAt(s, i)) /\ RemoveAt(s, i) \in Seq(T)
<1> DEFINE p == SubSeq(s, 1, i - 1)
           q == SubSeq(s, i + 1, Len(s))
           f == <<s[i]>>
<1>1. p \in Seq(T) /\ q \in Seq(T) /\ f \in Seq(T) /\ RemoveAt(s, i) = p \o q /\ s = (p \o f) \o q
  BY RemoveAtIs
<1> HIDE DEF p, q, f
<1>2. Thins(p \o f, p) /\ Thins(q, q) /\ p \o f \in Seq(T)
  BY <1>1, ThinsPart, ThinsSame
<1>3. Thins((p \o f) \o q, p \o q)
  BY <1>1, <1>2, ThinsConcat
<1> QED
  BY <1>1, <1>3

(* A repair brings none in, and none twice.                                *)
LEMMA ThinsPaired ==
  ASSUME NEW cs \in Seq(CallsMade), NEW ts \in Seq(Messages), AllTools(ts)
  PROVE  Thins(ts, PairToolResults(cs, ts))
<1> DEFINE P == PairToolResults(cs, ts)
<1>1. /\ P \in Seq(Messages) /\ Len(P) = Len(cs)
      /\ \A k \in 1..Len(cs) : P[k].n = 0 \/ \E j : From(cs, ts, k, j) /\ P[k].n = ts[j].n
  BY PairedIs DEF AllTools
<1> HIDE DEF P
<1>2. DOMAIN P = 1..Len(cs) /\ DOMAIN cs = 1..Len(cs) /\ DOMAIN ts = 1..Len(ts)
  BY <1>1
<1>3. Numbers(P) \subseteq Numbers(ts) \cup {0}
  BY <1>1, <1>2 DEF Numbers, Range, From
<1>4. ASSUME Unique(ts), NEW k \in 1..Len(cs), NEW l \in 1..Len(cs), P[k].n = P[l].n, P[k].n # 0 PROVE k = l
  <2>1. PICK i : From(cs, ts, k, i) /\ P[k].n = ts[i].n
    BY <1>1, <1>4
  <2>2. PICK j : From(cs, ts, l, j) /\ P[l].n = ts[j].n
    BY <1>1, <1>4
  <2>3. i = j
    BY <1>2, <1>4, <2>1, <2>2 DEF From, Unique
  <2> QED
    BY <1>2, <2>1, <2>2, <2>3 DEF From, IdDistinct
<1>5. Unique(ts) => Unique(P)
  BY <1>2, <1>4 DEF Unique
<1> QED
  BY <1>3, <1>5 DEF Thins, P

LEMMA ThinsSegment ==
  ASSUME NEW m \in Messages, ~IsTool(m), NEW ts \in Seq(Messages), AllTools(ts), NEW drop \in BOOLEAN
  PROVE  Thins(Segment(m, ts), SlowPath(Segment(m, ts), drop))
<1>1. PICK w \in Messages, rs \in Seq(Messages) :
        /\ SlowPath(Segment(m, ts), drop) = Segment(w, rs)
        /\ IF Asks(m) THEN w = Mended(m, ts) /\ rs = Given(m, ts, drop)
           ELSE w = m /\ rs = IF drop THEN <<>> ELSE ts
  BY SlowSegmentIs
<1>2. CASE Asks(m)
  <2> DEFINE cs == MendedCalls(m, ts)
             f == Fill(cs, ts)
  <2>1. w = Mended(m, ts) /\ rs = Given(m, ts, drop)
    BY <1>1, <1>2
  <2>2. w.n = m.n /\ cs \in Seq(CallsMade)
    BY <1>2, <2>1, MendedIs DEF AllTools
  <2>3. rs = IF drop THEN PairToolResults(cs, ts) ELSE SessionToolResults(cs, ts)
    BY <2>1 DEF Given
  <2> HIDE DEF cs
  <2>4. f \in Seq(Messages) /\ SessionToolResults(cs, ts) = ts \o f /\ \A r \in Range(f) : r.n = 0
    BY <2>2, FillIs
  <2> HIDE DEF f
  <2>5. Thins(ts, ts \o f)
    BY <2>4, ThinsSame, ThinsMore
  <2>6. Thins(ts, PairToolResults(cs, ts))
    BY <2>2, ThinsPaired
  <2>7. Thins(ts, rs)
    BY <2>3, <2>4, <2>5, <2>6
  <2> DEFINE o == <<m>>
             p == <<w>>
  <2>8. Thins(o, p) /\ o \in Seq(Messages) /\ p \in Seq(Messages)
    BY <2>2, ThinsOne
  <2>9. Segment(m, ts) = o \o ts /\ Segment(w, rs) = p \o rs
    BY DEF Segment
  <2> HIDE DEF o, p
  <2>10. Thins(o \o ts, p \o rs)
    BY <2>7, <2>8, ThinsConcat
  <2> QED
    BY <1>1, <2>9, <2>10
<1>3. CASE ~Asks(m)
  <2>1. w = m /\ rs = IF drop THEN <<>> ELSE ts
    BY <1>1, <1>3
  <2>2. Thins(ts, rs)
    <3>1. Thins(ts, ts)
      BY ThinsSame
    <3>2. Thins(ts, <<>>)
      <4>1. <<>> \in Seq(Messages) /\ Range(<<>>) = {}
        BY DEF Range
      <4> QED
        BY <4>1, ThinsSilent
    <3> QED
      BY <2>1, <3>1, <3>2
  <2> DEFINE o == <<m>>
  <2>3. Thins(o, o) /\ o \in Seq(Messages)
    BY ThinsSame
  <2>4. Segment(m, ts) = o \o ts /\ Segment(w, rs) = o \o rs
    BY <2>1 DEF Segment
  <2> HIDE DEF o
  <2>5. Thins(o \o ts, o \o rs)
    BY <2>2, <2>3, ThinsConcat
  <2> QED
    BY <1>1, <2>4, <2>5
<1> QED
  BY <1>2, <1>3

LEMMA SlowThins ==
  ASSUME NEW ms \in Seq(Messages), NEW drop \in BOOLEAN
  PROVE  Thins(ms, SlowPath(ms, drop))
<1> DEFINE x(s) == SlowPath(s, drop)
           G == {s \in Seq(Messages) : Thins(s, x(s))}
<1>1. ASSUME NEW ts \in Seq(Messages), AllTools(ts) PROVE ts \in G
  <2>1. x(ts) = IF drop THEN <<>> ELSE ts
    BY <1>1, SlowTools
  <2>2. Thins(ts, ts)
    BY ThinsSame
  <2>3. Thins(ts, <<>>)
    <3>1. <<>> \in Seq(Messages) /\ Range(<<>>) = {}
      BY DEF Range
    <3> QED
      BY <3>1, ThinsSilent
  <2> HIDE DEF x
  <2>4. Thins(ts, x(ts))
    BY <2>1, <2>2, <2>3
  <2> QED
    BY <2>4
<1>2. ASSUME NEW s \in Seq(Messages), NEW m \in Messages, NEW ts \in Seq(Messages),
             s \in G, ~IsTool(m), AllTools(ts)
      PROVE  s \o Segment(m, ts) \in G
  <2> DEFINE g == Segment(m, ts)
  <2>1. g \in Seq(Messages) /\ Opens(g)
    BY <1>2, SegmentIs
  <2>2. Thins(g, x(g))
    BY <1>2, ThinsSegment
  <2>3. Thins(s, x(s))
    BY <1>2
  <2> HIDE DEF g, G
  <2>4. x(s \o g) = x(s) \o x(g)
    BY <2>1, SlowCut
  <2>5. x(s) \in Seq(Messages) /\ x(g) \in Seq(Messages)
    BY <2>1, SlowType
  <2> HIDE DEF x
  <2>6. Thins(s \o g, x(s) \o x(g))
    BY <2>1, <2>2, <2>3, <2>5, ThinsConcat
  <2>7. s \o g \in Seq(Messages)
    BY <2>1
  <2> QED
    BY <2>4, <2>6, <2>7 DEF G, g
<1> HIDE DEF G
<1>3. ms \in G
  BY <1>1, <1>2, SegmentInduction
<1> QED
  BY <1>3 DEF G

(* Folds and trims.                                                        *)
LEMMA TrimThins ==
  ASSUME NEW r \in Seq(Messages)
  PROVE  Thins(r, SoftTrimmed(r)) /\ Thins(r, Pruned(r))
<1>1. SoftTrimmed(r) \in Seq(Messages) /\ Pruned(r) \in Seq(Messages)
  BY TrimmedIs, PrunedIs
<1>2. DOMAIN r = 1..Len(r) /\ Len(r) \in Nat /\ \A i \in 1..Len(r) : r[i] \in Messages
  OBVIOUS
<1>3. Len(SoftTrimmed(r)) = Len(r) /\ Len(Pruned(r)) = Len(r)
  BY <1>2 DEF SoftTrimmed, Pruned
<1>4. \A i \in 1..Len(r) : SoftTrimmed(r)[i].n = r[i].n
  BY <1>2 DEF SoftTrimmed, Messages
<1>5. \A i \in 1..Len(r) : Pruned(r)[i].n = r[i].n
  BY <1>2 DEF Pruned, Messages
<1> QED
  BY <1>1, <1>3, <1>4, <1>5, ThinsShape

LEMMA WithRegionThins ==
  ASSUME NEW ms \in Seq(Messages), NEW region \in Seq(Messages), Thins(Parts(ms).region, region)
  PROVE  Thins(ms, WithRegion(Parts(ms), region))
<1> DEFINE a == Parts(ms).head
           b == Parts(ms).region
           c == Parts(ms).tail
<1>1. a \in Seq(Messages) /\ b \in Seq(Messages) /\ c \in Seq(Messages) /\ ms = (a \o b) \o c
  BY PartsJoin
<1>2. WithRegion(Parts(ms), region) = (a \o region) \o c
  BY DEF WithRegion
<1>3. Thins(b, region)
  OBVIOUS
<1> HIDE DEF a, b, c
<1>4. Thins(a \o b, a \o region) /\ a \o b \in Seq(Messages) /\ a \o region \in Seq(Messages)
  BY <1>1, <1>3, ThinsSame, ThinsConcat
<1>5. Thins((a \o b) \o c, (a \o region) \o c)
  BY <1>1, <1>4, ThinsSame, ThinsConcat
<1> QED
  BY <1>1, <1>2, <1>5

LEMMA FoldThins ==
  ASSUME NEW ms \in Seq(Messages), NEW tells \in Digests(Parts(ms))
  PROVE  Thins(ms, FoldedList(Parts(ms), tells))
<1> DEFINE p == Parts(ms)
           a == p.head
           b == p.region
           c == p.tail
           k == Kept(p)
           z == Pinned(p)
           f == <<Summary(tells)>>
<1>1. a \in Seq(Messages) /\ b \in Seq(Messages) /\ c \in Seq(Messages) /\ ms = (a \o b) \o c
  BY PartsJoin
<1>2. FoldedList(p, tells) = ((z \o k) \o f) \o c
  BY DEF FoldedList, Pinned
<1>3. Thins(a, z) /\ z \in Seq(Messages)
  <2>1. PreviousSummary(p) = 0 \/ PreviousSummary(p) \in DOMAIN a
    BY PreviousIs
  <2>2. CASE PreviousSummary(p) = 0
    BY <1>1, <2>2, ThinsSame DEF Pinned
  <2>3. CASE PreviousSummary(p) # 0
    <3>1. Thins(a, RemoveAt(a, PreviousSummary(p))) /\ RemoveAt(a, PreviousSummary(p)) \in Seq(Messages)
      BY <1>1, <2>1, <2>3, ThinsRemoved
    <3> QED
      BY <2>3, <3>1 DEF Pinned
  <2> QED
    BY <2>2, <2>3
<1>4. Thins(b, k) /\ k \in Seq(Messages)
  BY <1>1, ThinsOnly, PiecesType DEF Kept
<1>5. f \in Seq(Messages) /\ \A m \in Range(f) : m.n = 0
  <2>1. tells \in SUBSET Labels
    BY FoldIs
  <2>2. Summary(tells) \in Messages
    BY <2>1, SummaryIs
  <2>3. Summary(tells).n = 0
    BY DEF Summary, Message
  <2> QED
    BY <2>2, <2>3 DEF Range
<1> HIDE DEF p, a, b, c, k, z, f
<1> DEFINE u == z \o k
           v == u \o f
           d == a \o b
<1>6. Thins(d, u) /\ u \in Seq(Messages) /\ d \in Seq(Messages)
  BY <1>1, <1>3, <1>4, ThinsConcat
<1> HIDE DEF u, d
<1>7. Thins(d, v) /\ v \in Seq(Messages)
  BY <1>5, <1>6, ThinsMore
<1> HIDE DEF v
<1>8. Thins(d \o c, v \o c)
  BY <1>1, <1>6, <1>7, ThinsSame, ThinsConcat
<1> QED
  BY <1>1, <1>2, <1>8 DEF p, u, v, d

LEMMA PassesThin ==
  ASSUME NEW ms \in Seq(Messages)
  PROVE  Thins(ms, TrimmedList(ms)) /\ Thins(ms, PrunedList(ms))
<1> DEFINE r == Parts(ms).region
<1>1. r \in Seq(Messages)
  BY PartsJoin
<1>2. SoftTrimmed(r) \in Seq(Messages) /\ Pruned(r) \in Seq(Messages)
  BY <1>1, TrimmedIs, PrunedIs
<1>3. Thins(r, SoftTrimmed(r)) /\ Thins(r, Pruned(r))
  BY <1>1, TrimThins
<1>4. Thins(ms, WithRegion(Parts(ms), SoftTrimmed(r)))
  BY <1>2, <1>3, WithRegionThins
<1>5. Thins(ms, WithRegion(Parts(ms), Pruned(r)))
  BY <1>2, <1>3, WithRegionThins
<1> QED
  BY <1>4, <1>5 DEF TrimmedList, PrunedList

LEMMA ReviewThins ==
  ASSUME list \in Seq(Messages), NEW force \in BOOLEAN, NEW archives \in BOOLEAN, Review(force, archives)
  PROVE  Thins(list, list')
<1> DEFINE trimmed == TrimmedList(list)
           prunes == Stale(trimmed) # {} /\ archives
           ms == IF prunes THEN PrunedList(trimmed) ELSE trimmed
<1>1. list' = ms \/ \E tells \in Digests(Parts(ms)) : list' = FoldedList(Parts(ms), tells)
  BY DEF Review
<1>2. trimmed \in Seq(Messages) /\ Thins(list, trimmed)
  BY PassesAre, PassesThin
<1> HIDE DEF trimmed
<1>3. /\ PrunedList(trimmed) \in Seq(Messages) /\ Thins(trimmed, PrunedList(trimmed))
      /\ Thins(list, PrunedList(trimmed))
  BY <1>2, PassesAre, PassesThin, ThinsTwice
<1> HIDE DEF prunes
<1>4. ms \in Seq(Messages) /\ Thins(list, ms)
  BY <1>2, <1>3
<1> HIDE DEF ms
<1>5. ASSUME NEW tells \in Digests(Parts(ms)), list' = FoldedList(Parts(ms), tells) PROVE Thins(list, list')
  <2>1. Thins(ms, FoldedList(Parts(ms), tells))
    BY <1>4, FoldThins
  <2> QED
    BY <1>4, <1>5, <2>1, ThinsTwice
<1> QED
  BY <1>1, <1>4, <1>5

-----------------------------------------------------------------------------
(* In the list and in the file no message is there twice, and none has a   *)
(* number that has not been given yet.                                     *)
FreshInv == /\ Unique(list) /\ Unique(disk)
            /\ \A n \in Numbers(list) \cup Numbers(disk) : n <= added

LEMMA FreshAdd ==
  ASSUME ListTypes, ListTypes', FreshInv, NEW m, Add(m), m.n = added + 1, disk' = disk
  PROVE  FreshInv'
<1>1. list' = Append(list, m) /\ added' = added + 1 /\ added \in Int
  BY TranscriptBounds DEF Add, ListTypes
<1>2. list \in Seq(Messages) /\ list' \in Seq(Messages) /\ Len(list) \in Nat
  BY DEF ListTypes
<1>3. m \in Messages
  <2>1. Len(list') = Len(list) + 1 /\ list'[Len(list) + 1] = m
    BY <1>1, <1>2
  <2>2. Len(list) + 1 \in 1..Len(list')
    BY <1>2, <2>1
  <2> QED
    BY <1>2, <2>1, <2>2
<1> DEFINE o == <<m>>
<1>4. o \in Seq(Messages) /\ Numbers(o) = {m.n} /\ Unique(o)
  BY <1>3 DEF Numbers, Range, Unique
<1>5. list' = list \o o
  BY <1>1, <1>2, <1>3
<1> HIDE DEF o
<1>6. Numbers(list') = Numbers(list) \cup {m.n}
  BY <1>2, <1>4, <1>5, NumbersConcat
<1>7. m.n \notin Numbers(list)
  BY <1>1, <1>6, <1>2, NumbersIs DEF FreshInv
<1>8. Unique(list')
  BY <1>2, <1>4, <1>5, <1>7, UniqueConcat DEF FreshInv
<1>9. \A n \in Numbers(list) \cup Numbers(disk) : n \in Int
  BY <1>2, NumbersAre DEF ListTypes, Labels
<1>10. \A n \in Numbers(list') \cup Numbers(disk') : n <= added'
  BY <1>1, <1>6, <1>9 DEF FreshInv
<1> QED
  BY <1>8, <1>10 DEF FreshInv

LEMMA FreshThins ==
  ASSUME FreshInv, added \in Nat, added' = added,
         Thins(list, list') \/ Thins(disk, list'),
         disk' = disk \/ disk' = list'  \/ disk' = list
  PROVE  FreshInv'
<1>1. Unique(list') /\ \A n \in Numbers(list') : n <= added
  BY DEF FreshInv, Thins
<1> QED
  BY <1>1 DEF FreshInv

LEMMA FreshInit == TranscriptInit /\ TranscriptInv => FreshInv
<1> SUFFICES ASSUME TranscriptInit, TranscriptInv PROVE FreshInv
  OBVIOUS
<1>1. MaxOld \in Nat /\ added \in Nat /\ disk \in Seq(Messages)
  BY TranscriptBounds DEF TranscriptInv, ListTypes
<1>2. list = Stored(disk) /\ (disk = <<>> \/ disk \in OldFiles)
  BY DEF TranscriptInit, Start
<1>3. Unique(disk) /\ \A n \in Numbers(disk) : n <= added
  <2>1. CASE disk = <<>>
    BY <2>1 DEF Unique, Numbers, Range
  <2>2. CASE disk \in OldFiles
    <3>1. PICK k \in 1..MaxOld : \E os \in [1..k -> OldMessages] : disk = [i \in 1..k |-> [os[i] EXCEPT !.n = -i]]
      BY <2>2 DEF OldFiles
    <3>2. PICK os \in [1..k -> OldMessages] : disk = [i \in 1..k |-> [os[i] EXCEPT !.n = -i]]
      BY <3>1
    <3>3. ASSUME NEW i \in 1..k PROVE [os[i] EXCEPT !.n = -i].n = -i
      <4>1. os[i] \in Messages
        BY <3>2, OldMessagesAre
      <4> QED
        BY <4>1 DEF Messages
    <3>4. DOMAIN disk = 1..k /\ \A i \in 1..k : disk[i].n = -i
      BY <3>2, <3>3
    <3>5. k \in Nat
      BY <1>1
    <3>6. \A i \in 1..k : -i <= added
      BY <1>1, <3>5
    <3>7. \A n \in Numbers(disk) : n <= added
      BY <3>4, <3>6 DEF Numbers, Range
    <3>8. \A i, j \in 1..k : -i = -j => i = j
      BY <3>5
    <3> QED
      BY <3>4, <3>7, <3>8 DEF Unique
  <2> QED
    BY <1>2, <2>1, <2>2
<1>4. Thins(disk, list)
  BY <1>1, <1>2, NormalizeIs, SlowThins DEF Stored
<1>5. Unique(list) /\ \A n \in Numbers(list) : n <= added
  BY <1>1, <1>3, <1>4 DEF Thins
<1> QED
  BY <1>3, <1>5 DEF FreshInv

LEMMA CutJoins ==
  ASSUME NEW T, NEW ms \in Seq(T), NEW b \in 0..Len(ms)
  PROVE  ms = SubSeq(ms, 1, b) \o SubSeq(ms, b + 1, Len(ms))
<1> DEFINE r == SubSeq(ms, 1, b)
           s == SubSeq(ms, b + 1, Len(ms))
<1>1. r \in Seq(T) /\ s \in Seq(T) /\ Len(ms) \in Nat /\ b \in Nat
  BY SubSeqProperties
<1>2. Len(r) = b /\ \A i \in 1..b : r[i] = ms[i]
  BY SubSeqProperties
<1>3. Len(s) = Len(ms) - b /\ \A i \in 1..(Len(ms) - b) : s[i] = ms[b + i]
  BY SubSeqProperties
<1> HIDE DEF r, s
<1>4. r \o s \in Seq(T) /\ Len(r \o s) = Len(ms)
  BY <1>1, <1>2, <1>3, ConcatIs
<1>5. ASSUME NEW i \in 1..Len(ms) PROVE (r \o s)[i] = ms[i]
  <2>1. CASE i \in 1..b
    BY <1>1, <1>2, <2>1, ConcatIs
  <2>2. CASE i \notin 1..b
    <3> DEFINE j == i - b
    <3>1. j \in 1..(Len(ms) - b) /\ b + j = i
      BY <1>1, <2>2
    <3> HIDE DEF j
    <3>2. s[j] = ms[i] /\ j \in 1..Len(s)
      BY <1>3, <3>1
    <3>3. (r \o s)[Len(r) + j] = s[j]
      BY <1>1, <3>2, ConcatIs
    <3> QED
      BY <1>2, <3>1, <3>2, <3>3
  <2> QED
    BY <2>1, <2>2
<1>6. ms = r \o s
  BY <1>4, <1>5, SeqEqual
<1> QED
  BY <1>6 DEF r, s

LEMMA RecapSilent == ASSUME NEW ms PROVE Recap(ms).n = 0
BY DEF Recap, Message

LEMMA FreshSummarized ==
  ASSUME TranscriptInv, TranscriptInv', FreshInv, NEW b \in bounds, SummarizeFrom(b) \/ SummarizeUpTo(b)
  PROVE  FreshInv'
<1>1. list \in Seq(Messages) /\ added \in Nat /\ b \in 0..Len(list)
  BY DEF TranscriptInv, ListTypes, ControlTypes, SummarizeFrom, SummarizeUpTo
<1> DEFINE r == SubSeq(list, 1, b)
           s == SubSeq(list, b + 1, Len(list))
<1>2. list = r \o s /\ r \in Seq(Messages) /\ s \in Seq(Messages)
  BY <1>1, CutAt, CutJoins
<1>0. /\ SummarizeFrom(b) => list' = Append(r, Recap(s))
      /\ SummarizeUpTo(b) => list' = <<Recap(r)>> \o s
  BY DEF SummarizeFrom, SummarizeUpTo, Summarized
<1> HIDE DEF r, s
<1>3. added' = added /\ disk' = list'
  BY DEF SummarizeFrom, SummarizeUpTo, Summarized
<1>4. Thins(list, list')
  <2>1. Thins(list, r) /\ Thins(list, s)
    BY <1>2, ThinsPart
  <2>2. CASE SummarizeFrom(b)
    <3> DEFINE o == <<Recap(s)>>
    <3>1. o \in Seq(Messages) /\ \A m \in Range(o) : m.n = 0
      <4>1. Recap(s) \in Messages /\ Recap(s).n = 0
        BY <1>2, RecapIs, RecapSilent
      <4> QED
        BY <4>1 DEF Range
    <3>2. list' = r \o o
      <4>1. list' = Append(r, Recap(s)) /\ Recap(s) \in Messages
        BY <1>0, <1>2, <2>2, RecapIs
      <4> QED
        BY <4>1, <1>2
    <3> HIDE DEF o
    <3> QED
      BY <1>2, <2>1, <3>1, <3>2, ThinsMore
  <2>3. CASE SummarizeUpTo(b)
    <3> DEFINE o == <<Recap(r)>>
    <3>1. o \in Seq(Messages) /\ \A m \in Range(o) : m.n = 0
      <4>1. Recap(r) \in Messages /\ Recap(r).n = 0
        BY <1>2, RecapIs, RecapSilent
      <4> QED
        BY <4>1 DEF Range
    <3>2. list' = o \o s
      BY <1>0, <2>3
    <3> HIDE DEF o
    <3>3. <<>> \in Seq(Messages) /\ <<>> \o s = s
      BY <1>2
    <3>4. Thins(<<>>, o)
      BY <3>1, ThinsSilent
    <3>5. Thins(s, s)
      BY ThinsSame
    <3>6. Thins(<<>> \o s, o \o s)
      BY <1>2, <3>1, <3>3, <3>4, <3>5, ThinsConcat
    <3> QED
      BY <2>1, <3>2, <3>3, <3>6, ThinsTwice
  <2> QED
    BY <2>2, <2>3
<1> QED
  BY <1>1, <1>3, <1>4, FreshThins

LEMMA FreshKept ==
  ASSUME TranscriptInv, TranscriptInv', FreshInv, [TranscriptNext]_transcriptVars
  PROVE  FreshInv'
<1>1. ListTypes /\ ListTypes' /\ list \in Seq(Messages) /\ disk \in Seq(Messages) /\ added \in Nat
  BY DEF TranscriptInv, ListTypes
<1>2. ASSUME NEW text \in {"brief", "pasted"}, Ask(text) PROVE FreshInv'
  <2> DEFINE m == [Message("user", added + 1) EXCEPT !.text = text]
  <2>1. Add(m) /\ m.n = added + 1 /\ disk' = disk
    BY <1>2 DEF Ask, Message, diskVars
  <2> QED
    BY <1>1, <2>1, FreshAdd
<1>3. CASE Nudge
  <2>1. Add(Message("user", added + 1)) /\ Message("user", added + 1).n = added + 1 /\ disk' = disk
    BY <1>3 DEF Nudge, Message, diskVars
  <2> QED
    BY <1>1, <2>1, FreshAdd
<1>4. ASSUME NEW next \in {"idle", "step"}, Answer(next) PROVE FreshInv'
  <2>1. Add(Message("assistant", added + 1)) /\ Message("assistant", added + 1).n = added + 1 /\ disk' = disk
    BY <1>4 DEF Answer, Message, diskVars
  <2> QED
    BY <1>1, <2>1, FreshAdd
<1>5. ASSUME NEW calls \in Batches, AskTools(calls) PROVE FreshInv'
  <2> DEFINE m == [Message("assistant", added + 1) EXCEPT !.calls = calls]
  <2>1. Add(m) /\ m.n = added + 1 /\ disk' = disk
    BY <1>5 DEF AskTools, Message, diskVars
  <2> QED
    BY <1>1, <2>1, FreshAdd
<1>6. ASSUME NEW text \in Sizes, AddResult(text) PROVE FreshInv'
  <2>1. PICK c : Add([Result(c, added + 1) EXCEPT !.text = text]) /\ disk' = disk
    BY <1>6 DEF AddResult, diskVars
  <2>2. [Result(c, added + 1) EXCEPT !.text = text].n = added + 1
    BY DEF Result, Message
  <2> QED
    BY <1>1, <2>1, <2>2, FreshAdd
<1>7. CASE MaybeCompact
  <2>1. added' = added /\ disk' = disk
    BY <1>7 DEF MaybeCompact, diskVars
  <2>2. Thins(list, list')
    <3>1. CASE UNCHANGED <<list, foldVars>>
      BY <3>1, ThinsSame
    <3>2. CASE \E between \in BOOLEAN : Relax(between)
      BY <3>2, ThinsSame DEF Relax
    <3>3. CASE \E force, archives \in BOOLEAN : Review(force, archives)
      BY <1>1, <3>3, ReviewThins
    <3> QED
      BY <1>7, <3>1, <3>2, <3>3 DEF MaybeCompact
  <2> QED
    BY <1>1, <2>1, <2>2, FreshThins
<1>8. CASE CompactNow
  <2>1. added' = added /\ disk' = disk
    BY <1>8 DEF CompactNow, diskVars
  <2>2. PICK tells \in Digests(Parts(list)) : list' = FoldedList(Parts(list), tells)
    BY <1>8 DEF CompactNow
  <2>3. Thins(list, list')
    BY <1>1, <2>2, FoldThins
  <2> QED
    BY <1>1, <2>1, <2>3, FreshThins
<1>9. ASSUME NEW b \in bounds, SummarizeFrom(b) \/ SummarizeUpTo(b) PROVE FreshInv'
  BY <1>9, FreshSummarized
<1>10. CASE Save
  BY <1>10, <1>1, ThinsSame, FreshThins DEF Save
<1>11. CASE Restart
  <2>1. list' = SlowPath(disk, FALSE) /\ disk' = disk /\ added' = added
    BY <1>1, <1>11, NormalizeIs DEF Restart, Stored, diskVars
  <2>2. Thins(disk, list')
    BY <1>1, <2>1, SlowThins
  <2> QED
    BY <1>1, <2>1, <2>2, FreshThins
<1>12. CASE LeaveTurn \/ UNCHANGED transcriptVars
  <2>1. UNCHANGED <<list, disk, added>>
    BY <1>12 DEF LeaveTurn, transcriptVars, diskVars
  <2> QED
    BY <1>1, <2>1, ThinsSame, FreshThins
<1> QED
  BY <1>2, <1>3, <1>4, <1>5, <1>6, <1>7, <1>8, <1>9, <1>10, <1>11, <1>12, Zenon DEF TranscriptNext

(* Whatever file it began with, and whatever the turns, the folds and the  *)
(* ends of the process have made of the messages, a request answers every  *)
(* call once, in order, right after it, carries nothing twice and no       *)
(* arguments that were cut off.                                            *)
THEOREM RequestsAreWhole == TranscriptSpec => []WireContract
<1>1. TranscriptInit /\ TranscriptInv => FreshInv
  BY FreshInit
<1>2. TranscriptInv /\ TranscriptInv' /\ FreshInv /\ [TranscriptNext]_transcriptVars => FreshInv'
  BY FreshKept
<1>3. TranscriptInv /\ FreshInv => WireContract
  <2> SUFFICES ASSUME TranscriptInv, FreshInv PROVE WireContract
    OBVIOUS
  <2> DEFINE sent == Wire(list)
  <2>1. list \in Seq(Messages)
    BY DEF TranscriptInv, ListTypes
  <2>2. sent = SlowPath(list, TRUE)
    BY <2>1, NormalizeIs DEF Wire
  <2>3. Whole(sent) /\ NothingCut(sent)
    BY <2>1, <2>2, SentIs
  <2>4. Unique(sent)
    BY <2>1, <2>2, SlowThins DEF Thins, FreshInv
  <2> QED
    BY <2>3, <2>4 DEF WireContract, NothingCut, Unique
<1> QED
  BY <1>1, <1>2, <1>3, TranscriptInvHolds, PTL DEF TranscriptSpec

-----------------------------------------------------------------------------
(* What leaves a whole list whole.  Messages that neither ask nor answer do.*)
Plain(ms) == \A m \in Range(ms) : ~Asks(m) /\ ~IsTool(m)

LEMMA PlainIsWhole == ASSUME NEW T, NEW s \in Seq(T), Plain(s) PROVE Whole(s)
<1>1. \A i \in DOMAIN s : s[i] \in Range(s)
  BY DEF Range
<1>2. \A i \in DOMAIN s : WholeAt(s, i)
  BY <1>1 DEF Plain, WholeAt
<1> QED
  BY <1>2, WholeIs

LEMMA HeadIsPlain == ASSUME NEW ms \in Seq(Messages) PROVE Plain(Parts(ms).head)
<1> DEFINE n == Len(ms)
           head == PinnedPrefixLen(ms)
           first == IF ms # <<>> /\ PinnableUserTurn(ms[1]) THEN 1 ELSE 0
           S == {h \in first..n : \A i \in (first + 1)..h : IsSummary(ms[i])}
<1>0. n \in Nat /\ first \in 0..n /\ DOMAIN ms = 1..n
  OBVIOUS
<1>1. first \in S /\ S \subseteq 0..n
  BY <1>0
<1>2. Max(S) \in S
  <2> HIDE DEF S, first, n
  <2> QED
    BY <1>0, <1>1, MaxMin
<1>3. head = Max(S)
  BY DEF PinnedPrefixLen
<1>4. head \in first..n /\ \A i \in (first + 1)..head : IsSummary(ms[i])
  <2> HIDE DEF head
  <2> QED
    BY <1>2, <1>3
<1>5. first \in {0, 1} /\ (first = 1 => PinnableUserTurn(ms[1]))
  OBVIOUS
<1>6. Parts(ms).head = SubSeq(ms, 1, head)
  <2>1. Parts(ms).head = SubSeq(ms, 1, Plan(ms).head)
    BY DEF Parts
  <2> HIDE DEF head
  <2>2. Plan(ms).head = PinnedPrefixLen(ms)
    BY DEF Plan
  <2> QED
    BY <2>1, <2>2 DEF head
<1> HIDE DEF head, S, first, n
<1>7. ASSUME NEW i \in 1..head PROVE ~Asks(ms[i]) /\ ~IsTool(ms[i])
  <2>1. i \in (first + 1)..head \/ (i = 1 /\ first = 1)
    BY <1>0, <1>4, <1>5
  <2>2. IsSummary(ms[i]) \/ PinnableUserTurn(ms[i])
    BY <1>4, <1>5, <2>1
  <2> QED
    BY <2>2 DEF IsSummary, PinnableUserTurn, Asks, IsTool
<1>8. head \in 0..Len(ms)
  BY <1>0, <1>4 DEF n
<1> DEFINE s == SubSeq(ms, 1, head)
<1>9. DOMAIN s = 1..head /\ \A i \in 1..head : s[i] = ms[i]
  BY <1>8, SubSeqProperties
<1> HIDE DEF s
<1>10. Plain(s)
  BY <1>7, <1>9 DEF Plain, Range
<1> QED
  BY <1>6, <1>10 DEF s

LEMMA TailOpens == ASSUME NEW ms \in Seq(Messages), Parts(ms).ok PROVE Opens(Parts(ms).tail)
<1> DEFINE n == Len(ms)
           head == PinnedPrefixLen(ms)
           start == TailStart(ms, head)
           fits == {i \in (head + 1)..(n - 1) : n - i <= MinKeep \/ WeightFrom(ms, i) <= TailBudget}
           s == IF fits = {} THEN n ELSE Min(fits)
           J == {j \in head..s : j = head \/ ~IsTool(ms[j + 1])}
<1>0. n \in Nat
  OBVIOUS
<1>1. head \in 0..n
  BY PlanCuts DEF Plan
<1>2. s \in head..n
  <2>1. fits \subseteq 0..n /\ fits \subseteq head..n
    BY <1>0, <1>1
  <2> HIDE DEF fits, head
  <2>2. CASE fits = {}
    BY <1>0, <1>1, <2>2
  <2>3. CASE fits # {}
    <3> HIDE DEF n
    <3>1. Min(fits) \in fits
      BY <1>0, <2>1, <2>3, MaxMin
    <3> QED
      BY <2>1, <2>3, <3>1
  <2> QED
    BY <2>2, <2>3
<1>3. start = AlignedStart(ms, head, s)
  BY DEF TailStart
<1>4. start > head /\ Parts(ms).tail = SubSeq(ms, Plan(ms).start + 1, Len(ms))
      /\ Plan(ms).start = IF start < head THEN head ELSE start
  <2>1. Plan(ms) = [head |-> head, start |-> IF start < head THEN head ELSE start, ok |-> start > head]
    BY DEF Plan
  <2>2. Parts(ms).ok = Plan(ms).ok /\ Parts(ms).tail = SubSeq(ms, Plan(ms).start + 1, Len(ms))
    BY DEF Parts
  <2> HIDE DEF start, head
  <2>3. Plan(ms).head = head /\ Plan(ms).start = IF start < head THEN head ELSE start
    BY <2>1
  <2>4. Plan(ms).start > Plan(ms).head
    <3>1. Plan(ms).ok
      BY <2>2, Zenon
    <3> QED
      BY <3>1, PlanCuts
  <2>5. start > head
    BY <1>1, <2>3, <2>4
  <2> QED
    BY <2>2, <2>3, <2>5
<1> HIDE DEF start, head, fits, s
<1>5. Max(J) \in J
  <2>1. head \in J /\ J \subseteq 0..n
    BY <1>0, <1>1, <1>2
  <2> HIDE DEF J, n
  <2> QED
    BY <1>0, <2>1, MaxMin
<1>6. start = (IF s = n THEN s ELSE Max(J))
  BY <1>3 DEF AlignedStart
<1> HIDE DEF n
<1>7. start \in 0..n /\ (start < n => ~IsTool(ms[start + 1]))
  <2>1. CASE s = n
    BY <1>0, <1>6, <2>1
  <2>2. CASE s # n
    <3>1. start \in J
      BY <1>5, <1>6, <2>2
    <3> QED
      BY <1>0, <1>1, <1>2, <1>4, <3>1
  <2> QED
    BY <2>1, <2>2
<1>8. Parts(ms).tail = SubSeq(ms, start + 1, n)
  <2>1. ~(start < head)
    BY <1>0, <1>1, <1>4, <1>7
  <2>2. Plan(ms).start = start
    BY <1>4, <2>1
  <2> QED
    BY <1>4, <2>2 DEF n
<1> DEFINE t == SubSeq(ms, start + 1, n)
<1>9. CASE start = n
  <2>1. t = <<>>
    BY <1>0, <1>9, SubSeqProperties DEF n
  <2> QED
    BY <1>8, <2>1 DEF Opens
<1>10. CASE start < n
  <2>1. t[1] = ms[start + 1]
    BY <1>0, <1>7, <1>10, SubSeqProperties DEF n
  <2> QED
    BY <1>7, <1>8, <1>10, <2>1 DEF Opens
<1> QED
  BY <1>0, <1>7, <1>9, <1>10

(* A fold cuts before a message that is no result.                         *)
LEMMA FoldWhole ==
  ASSUME NEW ms \in Seq(Messages), Whole(ms), Parts(ms).ok, NEW tells \in Digests(Parts(ms))
  PROVE  Whole(FoldedList(Parts(ms), tells))
<1> DEFINE p == Parts(ms)
           h == p.head
           t == p.tail
           k == Kept(p)
           c == <<Summary(tells)>>
           hd == Pinned(p)
<1>1. h \in Seq(Messages) /\ p.region \in Seq(Messages) /\ t \in Seq(Messages) /\ ms = (h \o p.region) \o t
  BY PartsJoin
<1>2. Opens(t)
  BY TailOpens
<1>3. Plain(h)
  BY HeadIsPlain
<1>4. hd \in Seq(Messages) /\ Plain(hd)
  <2> DEFINE i == PreviousSummary(p)
  <2>1. hd = IF i = 0 THEN h ELSE RemoveAt(h, i)
    BY DEF Pinned
  <2>2. i = 0 \/ i \in DOMAIN h
    BY PreviousIs
  <2>3. hd \in Seq(Messages)
    BY PinnedIs
  <2> HIDE DEF i
  <2>4. CASE i = 0
    BY <1>3, <2>1, <2>3, <2>4
  <2>5. CASE i # 0
    <3> HIDE DEF h
    <3> DEFINE a == SubSeq(h, 1, i - 1)
               b == SubSeq(h, i + 1, Len(h))
               o == <<h[i]>>
    <3>1. a \in Seq(Messages) /\ b \in Seq(Messages) /\ o \in Seq(Messages)
          /\ hd = a \o b /\ h = (a \o o) \o b
      BY <1>1, <2>1, <2>2, <2>5, RemoveAtIs
    <3> HIDE DEF a, b, o, hd
    <3>2. Range((a \o o) \o b) = Range(a) \cup Range(o) \cup Range(b)
      BY <3>1, RangeOfThree
    <3>3. Range(a \o b) = Range(a) \cup Range(b)
      BY <3>1, RangeConcatenation
    <3>4. Plain(hd)
      BY <1>3, <3>1, <3>2, <3>3 DEF Plain
    <3> QED
      BY <2>3, <3>4
  <2> QED
    BY <2>4, <2>5
<1>5. k \in Seq(Messages) /\ Plain(k)
  <2> DEFINE S == {m \in Range(p.region) : Keeps(m)}
  <2>1. k = Only(p.region, S)
    BY DEF Kept
  <2> HIDE DEF S
  <2>2. Range(k) = Range(p.region) \cap S /\ k \in Seq(Messages)
    BY <1>1, <2>1, OnlyRange, PiecesType
  <2>3. \A m \in S : ~Asks(m) /\ ~IsTool(m)
    BY DEF S, Keeps, IsSummary, PinnableUserTurn, Asks, IsTool
  <2> QED
    BY <2>2, <2>3 DEF Plain
<1>6. c \in Seq(Messages) /\ Plain(c)
  <2>1. tells \subseteq Labels
    BY FoldIs
  <2>2. Summary(tells) \in Messages /\ IsSummary(Summary(tells))
    BY <2>1, SummaryIs
  <2>3. Range(c) = {Summary(tells)} /\ c \in Seq(Messages)
    BY <2>2 DEF Range
  <2> HIDE DEF c
  <2> QED
    BY <2>2, <2>3 DEF Plain, IsSummary, Asks, IsTool
<1>7. FoldedList(p, tells) = ((hd \o k) \o c) \o t
  BY DEF FoldedList, Pinned
<1> DEFINE g == p.region
           r == h \o g
<1> HIDE DEF p, h, t, k, c, hd, g
<1>8. r \in Seq(Messages) /\ ms = r \o t
  BY <1>1 DEF g
<1> HIDE DEF r
<1>9. Whole(t)
  BY <1>1, <1>2, <1>8, WholeCut
<1> DEFINE v == (hd \o k) \o c
<1>10. v \in Seq(Messages) /\ Range(v) = Range(hd) \cup Range(k) \cup Range(c)
  <2>1. hd \o k \in Seq(Messages)
    BY <1>4, <1>5
  <2>2. (hd \o k) \o c \in Seq(Messages)
    BY <1>6, <2>1
  <2> QED
    BY <1>4, <1>5, <1>6, <2>2, RangeOfThree
<1> HIDE DEF v
<1>11. Whole(v)
  <2>1. Plain(v)
    BY <1>4, <1>5, <1>6, <1>10 DEF Plain
  <2> QED
    BY <1>10, <2>1, PlainIsWhole
<1>12. Whole(v \o t)
  BY <1>1, <1>2, <1>9, <1>10, <1>11, WholeCut
<1> QED
  BY <1>7, <1>12 DEF v, p

(* Of a message, that it asks or answers, and what.                        *)
SameShape(a, b) ==
  Len(a) = Len(b) /\ \A i \in 1..Len(a) : /\ Asks(a[i]) <=> Asks(b[i])
                                          /\ IsTool(a[i]) <=> IsTool(b[i])
                                          /\ a[i].calls = b[i].calls /\ a[i].to = b[i].to

LEMMA ShapeWhole ==
  ASSUME NEW a \in Seq(Messages), NEW b \in Seq(Messages), SameShape(a, b), Whole(a)
  PROVE  Whole(b)
<1>1. DOMAIN a = 1..Len(a) /\ DOMAIN b = 1..Len(a) /\ Len(b) = Len(a) /\ Len(a) \in Nat
  BY DEF SameShape
<1>2. ASSUME NEW i \in 1..Len(a) PROVE RunEnd(b, i) = RunEnd(a, i)
  <2> DEFINE e == RunEnd(a, i)
  <2>1. IsRunEnd(a, i, e)
    BY <1>1, RunEndIs
  <2> HIDE DEF e
  <2> PICK n \in Nat : n = Len(a)
    BY <1>1
  <2>0. e \in i..n /\ e \in Int /\ i \in 1..n
    <3>1. e \in i..n /\ i \in 1..n
      BY <2>1 DEF IsRunEnd
    <3> QED
      BY <3>1
  <2>2. e \in i..Len(b) /\ \A k \in (i + 1)..e : IsTool(b[k])
    <3>1. \A k \in (i + 1)..e : k \in 1..Len(a)
      BY <1>1, <2>0
    <3> QED
      BY <1>1, <2>0, <2>1, <3>1 DEF IsRunEnd, SameShape
  <2>3. e = Len(b) \/ ~IsTool(b[e + 1])
    <3>1. e = n \/ e + 1 \in 1..n
      BY <2>0
    <3> QED
      BY <1>1, <2>1, <3>1 DEF IsRunEnd, SameShape
  <2>4. IsRunEnd(b, i, e)
    BY <2>2, <2>3 DEF IsRunEnd
  <2> QED
    BY <1>1, <2>4, OneRunEnd DEF e
<1>3. ASSUME NEW i \in 1..Len(a) PROVE WholeAt(b, i)
  <2>1. WholeAt(a, i)
    BY <1>1, WholeIs
  <2>2. Claimed(b, i) <=> Claimed(a, i)
    <3>1. \A x \in 1..(i - 1) : x \in 1..Len(a)
      BY <1>1
    <3> QED
      BY <3>1, <1>2 DEF Claimed, SameShape
  <2>3. /\ Len(Results(a, i)) = RunEnd(a, i) - i /\ Len(Results(b, i)) = RunEnd(b, i) - i
        /\ Results(a, i) \in Seq(Messages) /\ Results(b, i) \in Seq(Messages)
    BY <1>1, ResultsAre
  <2>4. Len(Results(b, i)) = Len(Results(a, i))
    BY <1>2, <2>3
  <2>5. ASSUME NEW k \in 1..Len(Results(a, i)) PROVE Results(b, i)[k].to = Results(a, i)[k].to
    <3>1. /\ k \in DOMAIN Results(a, i) /\ k \in DOMAIN Results(b, i)
      BY <2>3, <2>4
    <3>2. Results(a, i)[k] = a[i + k] /\ Results(b, i)[k] = b[i + k] /\ i + k \in (i + 1)..RunEnd(a, i)
      BY <1>1, <3>1, ResultsAre
    <3>3. RunEnd(a, i) \in i..Len(a)
      BY <1>1, RunEndIs DEF IsRunEnd
    <3>4. i + k \in 1..Len(a)
      BY <1>1, <3>2, <3>3
    <3> QED
      BY <3>2, <3>4 DEF SameShape
  <2>6. a[i].calls = b[i].calls /\ (Asks(a[i]) <=> Asks(b[i])) /\ (IsTool(a[i]) <=> IsTool(b[i]))
    BY DEF SameShape
  <2>7. ASSUME Asks(b[i])
        PROVE  /\ Len(Results(b, i)) = Len(b[i].calls)
               /\ \A k \in DOMAIN b[i].calls : Results(b, i)[k].to = b[i].calls[k].id
    <3>1. /\ Len(Results(a, i)) = Len(a[i].calls)
          /\ \A k \in DOMAIN a[i].calls : Results(a, i)[k].to = a[i].calls[k].id
      BY <2>1, <2>6, <2>7 DEF WholeAt
    <3>2. DOMAIN a[i].calls = 1..Len(a[i].calls)
      <4>1. a[i] \in Messages
        BY <1>1
      <4> QED
        BY <4>1 DEF Messages
    <3> QED
      BY <2>4, <2>5, <2>6, <3>1, <3>2
  <2> QED
    BY <2>1, <2>2, <2>6, <2>7 DEF WholeAt
<1> QED
  BY <1>1, <1>3, WholeIs

LEMMA ShapeConcat ==
  ASSUME NEW a \in Seq(Messages), NEW b \in Seq(Messages), NEW c \in Seq(Messages), NEW d \in Seq(Messages),
         SameShape(a, b), SameShape(c, d)
  PROVE  SameShape(a \o c, b \o d)
<1> DEFINE p == a \o c
           q == b \o d
<1>1. /\ Len(p) = Len(a) + Len(c) /\ Len(q) = Len(b) + Len(d) /\ Len(a) \in Nat /\ Len(c) \in Nat
      /\ \A i \in 1..Len(a) : p[i] = a[i]
      /\ \A i \in 1..Len(c) : p[Len(a) + i] = c[i]
      /\ \A i \in 1..Len(b) : q[i] = b[i]
      /\ \A i \in 1..Len(d) : q[Len(b) + i] = d[i]
  BY ConcatIs
<1>2. Len(a) = Len(b) /\ Len(c) = Len(d)
  BY DEF SameShape
<1> HIDE DEF p, q
<1>3. ASSUME NEW i \in 1..(Len(a) + Len(c))
      PROVE  /\ Asks(p[i]) <=> Asks(q[i])
             /\ IsTool(p[i]) <=> IsTool(q[i])
             /\ p[i].calls = q[i].calls /\ p[i].to = q[i].to
  <2>1. i \in 1..Len(a) \/ \E k \in 1..Len(c) : i = Len(a) + k
    BY <1>1, IndexOfConcat
  <2>2. CASE i \in 1..Len(a)
    BY <1>1, <1>2, <2>2 DEF SameShape
  <2>3. CASE \E k \in 1..Len(c) : i = Len(a) + k
    <3> PICK k \in 1..Len(c) : i = Len(a) + k
      BY <2>3
    <3>1. p[i] = c[k] /\ q[i] = d[k]
      BY <1>1, <1>2
    <3> QED
      BY <3>1 DEF SameShape
  <2> QED
    BY <2>1, <2>2, <2>3
<1> QED
  BY <1>1, <1>2, <1>3 DEF SameShape, p, q

LEMMA SameItself == ASSUME NEW a PROVE SameShape(a, a)
BY DEF SameShape

LEMMA TrimShape ==
  ASSUME NEW r \in Seq(Messages)
  PROVE  SameShape(r, SoftTrimmed(r)) /\ SameShape(r, Pruned(r))
<1>1. DOMAIN r = 1..Len(r) /\ Len(r) \in Nat
  OBVIOUS
<1>2. /\ Len(SoftTrimmed(r)) = Len(r) /\ Len(Pruned(r)) = Len(r)
  <2>1. SoftTrimmed(r) \in Seq(Messages) /\ Pruned(r) \in Seq(Messages)
    BY TrimmedIs, PrunedIs
  <2>2. DOMAIN SoftTrimmed(r) = 1..Len(r) /\ DOMAIN Pruned(r) = 1..Len(r)
    BY <1>1 DEF SoftTrimmed, Pruned
  <2> QED
    BY <1>1, <2>1, <2>2
<1>3. ASSUME NEW m \in Messages, NEW t
      PROVE  LET w == [m EXCEPT !.text = t]
             IN w.role = m.role /\ w.calls = m.calls /\ w.to = m.to
  BY DEF Messages
<1>4. ASSUME NEW i \in 1..Len(r)
      PROVE  /\ SoftTrimmed(r)[i].role = r[i].role /\ SoftTrimmed(r)[i].calls = r[i].calls
             /\ SoftTrimmed(r)[i].to = r[i].to
             /\ Pruned(r)[i].role = r[i].role /\ Pruned(r)[i].calls = r[i].calls
             /\ Pruned(r)[i].to = r[i].to
  <2>1. r[i] \in Messages
    BY <1>1
  <2>2. SoftTrimmed(r)[i] = r[i] \/ SoftTrimmed(r)[i] = [r[i] EXCEPT !.text = "trimmed"]
    BY <1>1 DEF SoftTrimmed
  <2>3. Pruned(r)[i] = r[i] \/ Pruned(r)[i] = [r[i] EXCEPT !.text = "elided"]
    BY <1>1 DEF Pruned
  <2> DEFINE Like(w) == w.role = r[i].role /\ w.calls = r[i].calls /\ w.to = r[i].to
  <2>4. Like(r[i]) /\ Like([r[i] EXCEPT !.text = "trimmed"]) /\ Like([r[i] EXCEPT !.text = "elided"])
    BY <1>3, <2>1
  <2>5. Like(SoftTrimmed(r)[i]) /\ Like(Pruned(r)[i])
    <3> HIDE DEF Like
    <3> QED
      BY <2>2, <2>3, <2>4
  <2> QED
    BY <2>5
<1> QED
  BY <1>2, <1>4 DEF SameShape, Asks, IsTool

LEMMA WithRegionShape ==
  ASSUME NEW ms \in Seq(Messages), NEW new \in Seq(Messages), SameShape(Parts(ms).region, new)
  PROVE  SameShape(ms, WithRegion(Parts(ms), new))
<1> DEFINE a == Parts(ms).head
           b == Parts(ms).region
           c == Parts(ms).tail
<1>1. a \in Seq(Messages) /\ b \in Seq(Messages) /\ c \in Seq(Messages) /\ ms = (a \o b) \o c
  BY PartsJoin
<1>2. WithRegion(Parts(ms), new) = (a \o new) \o c /\ SameShape(b, new)
  BY DEF WithRegion
<1> HIDE DEF a, b, c
<1> DEFINE p == a \o b
           q == a \o new
<1>3. p \in Seq(Messages) /\ q \in Seq(Messages) /\ SameShape(p, q)
  BY <1>1, <1>2, ShapeConcat, SameItself
<1> HIDE DEF p, q
<1>4. SameShape(p \o c, q \o c)
  BY <1>1, <1>3, ShapeConcat, SameItself
<1> QED
  BY <1>1, <1>2, <1>4 DEF p, q

LEMMA PassesShape ==
  ASSUME NEW ms \in Seq(Messages)
  PROVE  SameShape(ms, TrimmedList(ms)) /\ SameShape(ms, PrunedList(ms))
<1> DEFINE r == Parts(ms).region
<1>1. r \in Seq(Messages)
  BY PartsJoin
<1>2. SoftTrimmed(r) \in Seq(Messages) /\ Pruned(r) \in Seq(Messages)
  BY <1>1, TrimmedIs, PrunedIs
<1>3. SameShape(r, SoftTrimmed(r)) /\ SameShape(r, Pruned(r))
  BY <1>1, TrimShape
<1>4. SameShape(ms, WithRegion(Parts(ms), SoftTrimmed(r)))
  BY <1>2, <1>3, WithRegionShape
<1>5. SameShape(ms, WithRegion(Parts(ms), Pruned(r)))
  BY <1>2, <1>3, WithRegionShape
<1> QED
  BY <1>4, <1>5 DEF TrimmedList, PrunedList

LEMMA ReviewWhole ==
  ASSUME list \in Seq(Messages), Whole(list),
         NEW force \in BOOLEAN, NEW archives \in BOOLEAN, Review(force, archives)
  PROVE  Whole(list')
<1> DEFINE trimmed == TrimmedList(list)
           prunes == Stale(trimmed) # {} /\ archives
           ms == IF prunes THEN PrunedList(trimmed) ELSE trimmed
<1>1. \/ list' = ms
      \/ \E tells \in Digests(Parts(ms)) : Parts(ms).ok /\ list' = FoldedList(Parts(ms), tells)
  BY DEF Review, Compacts
<1>2. trimmed \in Seq(Messages) /\ Whole(trimmed)
  BY PassesAre, PassesShape, ShapeWhole
<1> HIDE DEF trimmed
<1>3. PrunedList(trimmed) \in Seq(Messages) /\ Whole(PrunedList(trimmed))
  BY <1>2, PassesAre, PassesShape, ShapeWhole
<1> HIDE DEF prunes
<1>4. ms \in Seq(Messages) /\ Whole(ms)
  BY <1>2, <1>3
<1> HIDE DEF ms
<1>5. ASSUME NEW tells \in Digests(Parts(ms)), Parts(ms).ok, list' = FoldedList(Parts(ms), tells)
      PROVE  Whole(list')
  BY <1>4, <1>5, FoldWhole
<1> QED
  BY <1>1, <1>4, <1>5

-----------------------------------------------------------------------------
(* What is whole is kept and sent as it is, name by name.                  *)
LEMMA WholeSegmentSlow ==
  ASSUME NEW m \in Messages, ~IsTool(m), NEW ts \in Seq(Messages), AllTools(ts), NEW drop \in BOOLEAN,
         Whole(Segment(m, ts))
  PROVE  \E w \in Messages : /\ SlowPath(Segment(m, ts), drop) = Segment(w, ts)
                             /\ w.n = m.n /\ ~IsTool(w) /\ Whole(Segment(w, ts))
<1>1. CASE Asks(m)
  <2> DEFINE w == Mended(m, ts)
             cs == MendedCalls(m, ts)
  <2>1. InPlace(m.calls, ts)
    BY <1>1, WholeSegment
  <2>2. /\ w \in Messages /\ Asks(w) /\ w.n = m.n /\ w.calls = cs
        /\ cs \in Seq(CallsMade) /\ Len(cs) = Len(m.calls)
        /\ \A k \in 1..Len(m.calls) : cs[k].id = m.calls[k].id
    BY <1>1, MendedIs DEF AllTools
  <2>3. InPlace(cs, ts)
    BY <2>1, <2>2 DEF InPlace
  <2>4. Given(m, ts, drop) = ts
    BY <2>2, <2>3, PairInPlace, KeptInPlace DEF Given
  <2>5. SlowPath(Segment(m, ts), drop) = Segment(w, ts)
    BY <1>1, <2>4, SlowSegment
  <2>6. ~IsTool(w)
    BY <2>2 DEF Asks, IsTool
  <2>7. Whole(Segment(w, ts))
    BY <2>2, <2>3, <2>6, WholeSegment
  <2> QED
    BY <2>2, <2>5, <2>6, <2>7
<1>2. CASE ~Asks(m)
  <2>1. ts = <<>>
    BY <1>2, WholeSegment
  <2>2. SlowPath(Segment(m, ts), drop) = Segment(m, ts)
    BY <1>2, <2>1, SlowSegment
  <2> QED
    BY <2>2
<1> QED
  BY <1>1, <1>2

LEMMA NumbersOfSegment ==
  ASSUME NEW m \in Messages, NEW w \in Messages, w.n = m.n, NEW ts \in Seq(Messages)
  PROVE  NumbersOf(Segment(w, ts)) = NumbersOf(Segment(m, ts))
<1> DEFINE o == <<m>>
           v == <<w>>
<1>1. o \in Seq(Messages) /\ v \in Seq(Messages) /\ NumbersOf(o) = NumbersOf(v)
  BY DEF NumbersOf
<1>2. Segment(m, ts) = o \o ts /\ Segment(w, ts) = v \o ts
  BY DEF Segment
<1> HIDE DEF o, v
<1>3. NumbersOf(o \o ts) = NumbersOf(o) \o NumbersOf(ts)
  BY <1>1, NumbersOfConcat
<1>4. NumbersOf(v \o ts) = NumbersOf(v) \o NumbersOf(ts)
  BY <1>1, NumbersOfConcat
<1> QED
  BY <1>1, <1>2, <1>3, <1>4

LEMMA WholeSlow ==
  ASSUME NEW ms \in Seq(Messages), Whole(ms), NEW drop \in BOOLEAN
  PROVE  Whole(SlowPath(ms, drop)) /\ NumbersOf(SlowPath(ms, drop)) = NumbersOf(ms)
<1> DEFINE x(s) == SlowPath(s, drop)
           G == {s \in Seq(Messages) : Whole(s) => Whole(x(s)) /\ NumbersOf(x(s)) = NumbersOf(s)}
<1>1. ASSUME NEW ts \in Seq(Messages), AllTools(ts) PROVE ts \in G
  <2>1. Whole(ts) => x(ts) = ts
    BY <1>1, WholeTools, SlowTools
  <2> HIDE DEF x
  <2> QED
    BY <2>1
<1>2. ASSUME NEW s \in Seq(Messages), NEW m \in Messages, NEW ts \in Seq(Messages),
             s \in G, ~IsTool(m), AllTools(ts)
      PROVE  s \o Segment(m, ts) \in G
  <2> DEFINE g == Segment(m, ts)
  <2>1. g \in Seq(Messages) /\ Opens(g)
    BY <1>2, SegmentIs
  <2>2. Whole(s) => Whole(x(s)) /\ NumbersOf(x(s)) = NumbersOf(s)
    BY <1>2
  <2>3. x(s \o g) = x(s) \o x(g) /\ x(s) \in Seq(Messages)
    <3> HIDE DEF g
    <3>1. SlowPath(s \o g, drop) = SlowPath(s, drop) \o SlowPath(g, drop)
      BY <2>1, SlowCut
    <3>2. SlowPath(s, drop) \in Seq(Messages)
      BY SlowType
    <3> QED
      BY <3>1, <3>2
  <2>4. s \o g \in Seq(Messages)
    BY <2>1
  <2>5. ASSUME Whole(s \o g) PROVE Whole(x(s \o g)) /\ NumbersOf(x(s \o g)) = NumbersOf(s \o g)
    <3>1. Whole(s) /\ Whole(g)
      <4> HIDE DEF g
      <4> QED
        BY <2>1, <2>5, WholeCut
    <3>2. PICK w \in Messages : x(g) = Segment(w, ts) /\ w.n = m.n /\ ~IsTool(w) /\ Whole(Segment(w, ts))
      BY <1>2, <3>1, WholeSegmentSlow
    <3>3. NumbersOf(x(g)) = NumbersOf(g) /\ x(g) \in Seq(Messages) /\ Opens(x(g))
      <4> HIDE DEF x
      <4> QED
        BY <1>2, <3>2, NumbersOfSegment, SegmentIs
    <3> HIDE DEF x, g
    <3>4. Whole(x(s) \o x(g))
      BY <2>2, <2>3, <3>1, <3>2, <3>3, WholeCut
    <3>5. NumbersOf(x(s) \o x(g)) = NumbersOf(x(s)) \o NumbersOf(x(g))
      BY <2>3, <3>3, NumbersOfConcat
    <3>6. NumbersOf(s \o g) = NumbersOf(s) \o NumbersOf(g)
      BY <2>1, NumbersOfConcat
    <3> QED
      BY <2>2, <2>3, <3>1, <3>3, <3>4, <3>5, <3>6
  <2> HIDE DEF x, g
  <2>6. s \o g \in G
    BY <2>4, <2>5
  <2> QED
    BY <2>6 DEF g
<1> HIDE DEF G
<1>3. ms \in G
  BY <1>1, <1>2, SegmentInduction
<1> QED
  BY <1>3 DEF G

-----------------------------------------------------------------------------
(* The calls of a batch in progress that wait for their result.            *)
InPart(calls, rs) == Len(rs) < Len(calls) /\ \A k \in 1..Len(rs) : rs[k].to = calls[k].id

LEMMA OpenCalls ==
  ASSUME NEW cs \in Seq(CallsMade), NEW rs \in Seq(Messages), InPart(cs, rs)
  PROVE  Unanswered(cs, rs) = SubSeq(cs, Len(rs) + 1, Len(cs))
<1> DEFINE n == Len(rs)
           a == SubSeq(cs, 1, n)
           b == SubSeq(cs, n + 1, Len(cs))
           S == {c \in Range(cs) : Answers(rs, c) = {}}
<1>1. n \in Nat /\ Len(cs) \in Nat /\ n < Len(cs) /\ DOMAIN cs = 1..Len(cs) /\ DOMAIN rs = 1..n
  BY DEF InPart
<1>2. n \in 0..Len(cs)
  BY <1>1
<1>3. cs = a \o b /\ a \in Seq(CallsMade) /\ b \in Seq(CallsMade)
  BY <1>2, CutAt, CutJoins
<1>4. Len(a) = n /\ \A k \in 1..n : a[k] = cs[k]
  BY <1>2, SubSeqProperties
<1>5. Len(b) = Len(cs) - n /\ \A k \in 1..(Len(cs) - n) : b[k] = cs[n + k]
  <2>1. n \in Nat /\ Len(cs) \in Nat /\ n < Len(cs)
    BY <1>1
  <2> QED
    BY <2>1, SubSeqProperties
<1> HIDE DEF a, b
<1>6. CASE IdDistinct(cs)
  <2>1. Range(a) \cap S = {}
    <3>1. \A k \in 1..n : k \in Answers(rs, cs[k])
      BY <1>1 DEF InPart, Answers
    <3>2. \A k \in 1..n : a[k] \notin S
      BY <1>4, <3>1
    <3>3. DOMAIN a = 1..n
      BY <1>3, <1>4
    <3> QED
      BY <3>2, <3>3 DEF Range
  <2>2. Range(b) \subseteq S
    <3>1. DOMAIN b = 1..(Len(cs) - n)
      BY <1>3, <1>5
    <3>2. ASSUME NEW k \in 1..(Len(cs) - n) PROVE b[k] \in S
      <4>1. n + k \in 1..Len(cs) /\ n + k > n
        BY <1>1
      <4>2. b[k] = cs[n + k] /\ cs[n + k] \in Range(cs)
        BY <1>1, <1>5, <4>1 DEF Range
      <4>3. ASSUME NEW i \in 1..n, rs[i].to = cs[n + k].id PROVE FALSE
        <5>1. i \in DOMAIN cs /\ n + k \in DOMAIN cs /\ i # n + k
          BY <1>1, <4>1
        <5>2. cs[i].id = cs[n + k].id
          BY <4>3 DEF InPart
        <5> QED
          BY <1>6, <5>1, <5>2 DEF IdDistinct
      <4>4. Answers(rs, cs[n + k]) = {}
        BY <1>1, <4>3 DEF Answers
      <4> QED
        BY <4>2, <4>4
    <3> QED
      BY <3>1, <3>2 DEF Range
  <2> HIDE DEF S, n
  <2>3. Only(a, S) = <<>> /\ Only(b, S) = b
    BY <1>3, <2>1, <2>2, OnlyNone, OnlyAll
  <2>4. Only(a \o b, S) = Only(a, S) \o Only(b, S)
    BY <1>3, OnlyConcat
  <2>5. <<>> \o b = b
    BY <1>3
  <2>6. Only(cs, S) = b
    BY <1>3, <2>3, <2>4, <2>5
  <2>7. Unanswered(cs, rs) = Only(cs, S)
    BY <1>6 DEF Unanswered, S
  <2> QED
    BY <2>6, <2>7 DEF b, n
<1>7. CASE ~IdDistinct(cs)
  BY <1>7 DEF Unanswered
<1> QED
  BY <1>6, <1>7

LEMMA KeptInPart ==
  ASSUME NEW cs \in Seq(CallsMade), NEW rs \in Seq(Messages), InPart(cs, rs)
  PROVE  InPlace(cs, SessionToolResults(cs, rs))
<1> DEFINE n == Len(rs)
           u == SubSeq(cs, n + 1, Len(cs))
           f == [k \in DOMAIN u |-> Placeholder(u[k])]
<1>1. n \in Nat /\ Len(cs) \in Nat /\ n < Len(cs) /\ \A k \in 1..n : rs[k].to = cs[k].id
  BY DEF InPart
<1>2. /\ Len(u) = Len(cs) - n /\ DOMAIN u = 1..(Len(cs) - n)
      /\ \A k \in 1..(Len(cs) - n) : u[k] = cs[n + k]
  BY <1>1, SubSeqProperties
<1>3. SessionToolResults(cs, rs) = rs \o f
  BY OpenCalls DEF SessionToolResults
<1> HIDE DEF u
<1>4. ASSUME NEW k \in 1..(Len(cs) - n)
      PROVE  f[k] \in Messages /\ f[k].to = cs[n + k].id
  <2>1. n + k \in 1..Len(cs)
    BY <1>1
  <2>2. u[k] = cs[n + k] /\ u[k] \in CallsMade
    BY <1>2, <2>1
  <2>3. f[k] = Placeholder(u[k])
    BY <1>2
  <2> QED
    BY <2>2, <2>3, PlaceholderIs
<1>5. f \in Seq(Messages) /\ Len(f) = Len(cs) - n
  <2>1. Len(cs) - n \in Nat
    BY <1>1
  <2>2. f \in [1..(Len(cs) - n) -> Messages]
    BY <1>2, <1>4
  <2> HIDE DEF f
  <2> QED
    BY <2>1, <2>2, FunctionIsSeq
<1> HIDE DEF f
<1> DEFINE r == rs \o f
<1>6. /\ Len(r) = n + Len(f) /\ \A i \in 1..n : r[i] = rs[i]
      /\ \A i \in 1..Len(f) : r[n + i] = f[i]
  BY <1>5, ConcatIs
<1> HIDE DEF r
<1>7. Len(r) = Len(cs)
  BY <1>1, <1>5, <1>6
<1>8. ASSUME NEW k \in 1..Len(cs) PROVE r[k].to = cs[k].id
  <2>1. CASE k \in 1..n
    BY <1>1, <1>6, <2>1
  <2>2. CASE k \notin 1..n
    <3> DEFINE j == k - n
    <3>1. j \in 1..(Len(cs) - n) /\ n + j = k
      BY <1>1, <2>2
    <3> HIDE DEF j, n
    <3>2. r[k] = f[j] /\ f[j].to = cs[k].id
      BY <1>4, <1>5, <1>6, <3>1
    <3> QED
      BY <3>2
  <2> QED
    BY <2>1, <2>2
<1>9. InPlace(cs, r)
  BY <1>7, <1>8 DEF InPlace
<1> QED
  BY <1>3, <1>9 DEF r

(* The list ends with a batch that is short of results.                    *)
Batch(s, m, ts) ==
  /\ s \in Seq(Messages) /\ m \in Messages /\ ts \in Seq(Messages)
  /\ Asks(m) /\ AllTools(ts) /\ Whole(s) /\ InPart(m.calls, ts)

LEMMA BatchKept ==
  ASSUME NEW s, NEW m, NEW ts, Batch(s, m, ts)
  PROVE  Whole(SlowPath(s \o Segment(m, ts), FALSE))
<1> DEFINE g == Segment(m, ts)
           w == Mended(m, ts)
           rs == Given(m, ts, FALSE)
<1>1. /\ s \in Seq(Messages) /\ m \in Messages /\ ts \in Seq(Messages)
      /\ Asks(m) /\ ~IsTool(m) /\ AllTools(ts) /\ Whole(s) /\ InPart(m.calls, ts)
  BY DEF Batch, Asks, IsTool
<1>2. g \in Seq(Messages) /\ Opens(g)
  BY <1>1, SegmentIs
<1>3. /\ w \in Messages /\ Asks(w) /\ w.calls = MendedCalls(m, ts)
      /\ MendedCalls(m, ts) \in Seq(CallsMade) /\ Len(MendedCalls(m, ts)) = Len(m.calls)
      /\ \A k \in 1..Len(m.calls) : MendedCalls(m, ts)[k].id = m.calls[k].id
      /\ rs \in Seq(Messages) /\ AllTools(rs)
  BY <1>1, MendedIs DEF AllTools
<1>4. ~IsTool(w)
  BY <1>3 DEF Asks, IsTool
<1>5. SlowPath(g, FALSE) = Segment(w, rs)
  BY <1>1, SlowSegment
<1>6. InPart(MendedCalls(m, ts), ts)
  <2>1. m.calls \in Seq(CallsMade) /\ Len(m.calls) \in Nat /\ Len(ts) \in Nat
    BY <1>1 DEF Messages
  <2>2. \A k \in 1..Len(ts) : k \in 1..Len(m.calls)
    BY <1>1, <2>1 DEF InPart
  <2> QED
    BY <1>1, <1>3, <2>2 DEF InPart
<1>7. InPlace(MendedCalls(m, ts), rs)
  BY <1>1, <1>3, <1>6, KeptInPart DEF Given
<1>8. Whole(Segment(w, rs))
  BY <1>3, <1>4, <1>7, WholeSegment
<1>9. Segment(w, rs) \in Seq(Messages) /\ Opens(Segment(w, rs))
  BY <1>3, <1>4, SegmentIs
<1>10. Whole(SlowPath(s, FALSE)) /\ SlowPath(s, FALSE) \in Seq(Messages)
  BY <1>1, WholeSlow, SlowType
<1> HIDE DEF g, w, rs
<1>11. SlowPath(s \o g, FALSE) = SlowPath(s, FALSE) \o SlowPath(g, FALSE)
  BY <1>1, <1>2, SlowCut
<1>12. Whole(SlowPath(s, FALSE) \o Segment(w, rs))
  BY <1>8, <1>9, <1>10, WholeCut
<1> QED
  BY <1>5, <1>11, <1>12 DEF g

LEMMA SegmentAlone ==
  ASSUME NEW m \in Messages PROVE Segment(m, <<>>) = <<m>> /\ <<>> \in Seq(Messages) /\ AllTools(<<>>)
<1>1. <<m>> \o <<>> = <<m>>
  OBVIOUS
<1> QED
  BY <1>1 DEF Segment, AllTools, Range

LEMMA OnePlain ==
  ASSUME NEW ms \in Seq(Messages), Whole(ms), NEW m \in Messages, ~Asks(m), ~IsTool(m)
  PROVE  Whole(Append(ms, m))
<1> DEFINE g == Segment(m, <<>>)
<1>1. Whole(g) /\ Opens(g) /\ g \in Seq(Messages)
  BY SegmentAlone, WholeSegment, SegmentIs
<1>2. Append(ms, m) = ms \o g
  <2> DEFINE o == <<m>>
  <2>1. Append(ms, m) = ms \o o
    OBVIOUS
  <2>2. g = o
    BY SegmentAlone
  <2> HIDE DEF o, g
  <2> QED
    BY <2>1, <2>2
<1> HIDE DEF g
<1> QED
  BY <1>1, <1>2, WholeCut

-----------------------------------------------------------------------------
(* Unless the user has severed one, no call is parted from its results;    *)
(* the one whose batch is in progress has all there are yet.               *)
InBatch == \E s, m, ts : Batch(s, m, ts) /\ list = s \o Segment(m, ts)
SentInv ==
  clean => /\ IF phase = "tools" THEN InBatch ELSE Whole(list)
           /\ Whole(Stored(disk))

LEMMA SentInit == TranscriptInit => SentInv
BY DEF TranscriptInit, Start, SentInv

LEMMA SentPlain ==
  ASSUME ListTypes, SentInv, NEW m \in Messages, ~Asks(m), ~IsTool(m), phase # "tools", phase' # "tools",
         list' = Append(list, m), disk' = disk, clean' = clean
  PROVE  SentInv'
<1>1. list \in Seq(Messages)
  BY DEF ListTypes
<1>2. Stored(disk)' = Stored(disk)
  OBVIOUS
<1>3. clean => Whole(list')
  BY <1>1, OnePlain DEF SentInv
<1> QED
  BY <1>2, <1>3 DEF SentInv

LEMMA SentAskTools ==
  ASSUME ListTypes, SentInv, NEW m \in Messages, Asks(m), phase # "tools",
         list' = Append(list, m), disk' = disk, clean' = clean
  PROVE  phase' = "tools" => SentInv'
<1>1. list \in Seq(Messages)
  BY DEF ListTypes
<1>2. ASSUME clean PROVE InBatch'
  <2> DEFINE g == Segment(m, <<>>)
  <2>1. m.calls \in Seq(CallsMade) /\ m.calls # <<>>
    BY DEF Messages, Asks
  <2>2. InPart(m.calls, <<>>)
    BY <2>1 DEF InPart
  <2>3. Batch(list, m, <<>>)
    BY <1>1, <1>2, <2>2, SegmentAlone DEF Batch, SentInv
  <2>4. list' = list \o g
    <3> DEFINE o == <<m>>
    <3>1. list' = list \o o
      BY <1>1
    <3>2. g = o
      BY SegmentAlone
    <3> HIDE DEF o, g
    <3> QED
      BY <3>1, <3>2
  <2> QED
    BY <2>3, <2>4 DEF InBatch
<1> QED
  BY <1>2 DEF SentInv

LEMMA BatchAt ==
  ASSUME NEW s, NEW m, NEW ts, Batch(s, m, ts)
  PROVE  LET ms == s \o Segment(m, ts)
             a  == Len(s) + 1
         IN /\ ms \in Seq(Messages) /\ Len(ms) = Len(s) + Len(ts) + 1 /\ a \in DOMAIN ms
            /\ Len(s) \in Nat /\ Len(ts) \in Nat
            /\ ms[a] = m /\ Asks(ms[a]) /\ RunEnd(ms, a) = Len(ms)
<1> DEFINE g == Segment(m, ts)
<1>1. /\ s \in Seq(Messages) /\ m \in Messages /\ ts \in Seq(Messages)
      /\ Asks(m) /\ ~IsTool(m) /\ AllTools(ts)
  BY DEF Batch, Asks, IsTool
<1>2. /\ g \in Seq(Messages) /\ Len(g) = Len(ts) + 1 /\ Len(ts) \in Nat /\ g[1] = m /\ Opens(g)
      /\ RunEnd(g, 1) = Len(ts) + 1
  BY <1>1, SegmentIs
<1> HIDE DEF g
<1> DEFINE ms == s \o g
<1>3. /\ ms \in Seq(Messages) /\ Len(ms) = Len(s) + Len(g) /\ Len(s) \in Nat
      /\ DOMAIN ms = 1..(Len(s) + Len(g)) /\ \A i \in 1..Len(g) : ms[Len(s) + i] = g[i]
  <2>1. s \in Seq(Messages) /\ g \in Seq(Messages)
    BY <1>1, <1>2
  <2>2. ms \in Seq(Messages) /\ Len(ms) = Len(s) + Len(g)
    BY <2>1, ConcatIs
  <2>3. \A i \in 1..Len(g) : ms[Len(s) + i] = g[i]
    BY <2>1, ConcatIs
  <2> HIDE DEF ms
  <2> QED
    BY <2>1, <2>2, <2>3
<1>4. 1 \in 1..Len(g)
  BY <1>2
<1>5. ms[Len(s) + 1] = m
  BY <1>2, <1>3, <1>4
<1>6. RunEnd(ms, Len(s) + 1) = Len(s) + RunEnd(g, 1)
  BY <1>1, <1>2, <1>4, RunEndCut
<1> HIDE DEF ms
<1>7. Len(s) + 1 \in DOMAIN ms
  BY <1>2, <1>3
<1>8. RunEnd(ms, Len(s) + 1) = Len(ms) /\ Len(ms) = Len(s) + Len(ts) + 1
  BY <1>2, <1>3, <1>6
<1> QED
  BY <1>1, <1>2, <1>3, <1>5, <1>7, <1>8 DEF ms, g

LEMMA SentAddResult ==
  ASSUME TranscriptInv, SentInv, NEW text \in Sizes, AddResult(text), ListTypes'
  PROVE  SentInv'
<1> SUFFICES ASSUME clean' PROVE SentInv'
  BY DEF SentInv
<1>1. clean /\ disk' = disk /\ phase = "tools"
  BY DEF AddResult, diskVars
<1>2. PICK s, m, ts : Batch(s, m, ts) /\ list = s \o Segment(m, ts)
  BY <1>1 DEF SentInv, InBatch
<1>3. /\ s \in Seq(Messages) /\ m \in Messages /\ ts \in Seq(Messages)
      /\ Asks(m) /\ ~IsTool(m) /\ AllTools(ts) /\ Whole(s) /\ InPart(m.calls, ts)
  BY <1>2 DEF Batch, Asks, IsTool
<1> DEFINE a == Len(s) + 1
           k == Len(list) - a + 1
           c == m.calls[k]
           r == [Result(c, added + 1) EXCEPT !.text = text]
<1>4. /\ list \in Seq(Messages) /\ Len(list) = Len(s) + Len(ts) + 1 /\ a \in DOMAIN list
      /\ Len(s) \in Nat /\ Len(ts) \in Nat /\ list[a] = m /\ Asks(list[a]) /\ RunEnd(list, a) = Len(list)
  BY <1>2, BatchAt
<1>5. (CHOOSE i \in DOMAIN list : Asks(list[i]) /\ RunEnd(list, i) = Len(list)) = a
  BY <1>4, LastCaller
<1>6. list' = Append(list, r) /\ phase' = (IF k = Len(m.calls) THEN "review" ELSE "tools")
  BY <1>4, <1>5 DEF AddResult, Add, Goes, ResultsIn
<1>7. k = Len(ts) + 1
  BY <1>4
<1>8. IsTool(r) /\ r.to = c.id
  BY DEF Result, Message, IsTool
<1> HIDE DEF a, c, r, k
<1>9. r \in Messages
  <2>1. list' \in Seq(Messages)
    BY DEF ListTypes
  <2>2. Len(list') = Len(list) + 1 /\ list'[Len(list) + 1] = r
    BY <1>4, <1>6
  <2>3. Len(list) + 1 \in 1..Len(list')
    BY <1>4, <2>2
  <2> QED
    BY <2>1, <2>2, <2>3
<1> DEFINE us == Append(ts, r)
<1>10. us \in Seq(Messages) /\ Len(us) = k /\ \A j \in 1..Len(ts) : us[j] = ts[j]
  BY <1>3, <1>4, <1>7, <1>9
<1>11. us[k] = r
  BY <1>3, <1>7, <1>9
<1>12. AllTools(us)
  <2>1. \A j \in 1..k : j \in 1..Len(ts) \/ j = k
    BY <1>4, <1>7
  <2>2. DOMAIN us = 1..k /\ \A j \in 1..Len(ts) : ts[j] \in Range(ts)
    BY <1>3, <1>10 DEF Range
  <2> HIDE DEF us
  <2>3. \A j \in DOMAIN us : IsTool(us[j])
    BY <1>3, <1>8, <1>10, <1>11, <2>1, <2>2 DEF AllTools
  <2> QED
    BY <2>3 DEF AllTools, Range
<1>13. \A j \in 1..k : us[j].to = m.calls[j].id
  <2>1. \A j \in 1..k : j \in 1..Len(ts) \/ j = k
    BY <1>4, <1>7
  <2> HIDE DEF us
  <2> QED
    BY <1>3, <1>8, <1>10, <1>11, <2>1 DEF InPart, c
<1>14. list' = s \o Segment(m, us)
  <2> DEFINE o == <<m>>
             e == <<r>>
  <2>1. o \in Seq(Messages) /\ e \in Seq(Messages) /\ Segment(m, ts) = o \o ts /\ Segment(m, us) = o \o us
    BY <1>3, <1>9 DEF Segment
  <2>2. us = ts \o e /\ list' = list \o e
    <3>1. Append(ts, r) = ts \o e
      BY <1>3, <1>9
    <3>2. Append(list, r) = list \o e
      BY <1>4, <1>9
    <3> QED
      BY <1>6, <3>1, <3>2 DEF us
  <2> HIDE DEF o, e, us
  <2>3. list' = (s \o (o \o ts)) \o e
    BY <1>2, <2>1, <2>2
  <2>4. /\ s \in Seq(Messages) /\ o \in Seq(Messages) /\ ts \in Seq(Messages)
        /\ e \in Seq(Messages) /\ o \o ts \in Seq(Messages)
    BY <1>3, <2>1
  <2>6. (s \o (o \o ts)) \o e = s \o ((o \o ts) \o e)
    <3> DEFINE g == o \o ts
    <3> HIDE DEF g
    <3>1. s \in Seq(Messages) /\ g \in Seq(Messages) /\ e \in Seq(Messages)
      BY <2>4 DEF g
    <3>2. (s \o g) \o e = s \o (g \o e)
      BY <3>1, ConcatAssociative
    <3> QED
      BY <3>2 DEF g
  <2>7. (o \o ts) \o e = o \o (ts \o e)
    BY <2>4, ConcatAssociative
  <2> QED
    BY <2>1, <2>2, <2>3, <2>6, <2>7
<1> HIDE DEF us
<1>15. m.calls \in Seq(CallsMade) /\ Len(m.calls) \in Nat
  BY <1>3 DEF Messages
<1>16. Len(ts) < Len(m.calls)
  BY <1>3 DEF InPart
<1>17. CASE k = Len(m.calls)
  <2>1. InPlace(m.calls, us)
    BY <1>10, <1>13, <1>17 DEF InPlace
  <2>2. Whole(Segment(m, us))
    BY <1>3, <1>10, <1>12, <2>1, WholeSegment
  <2>3. Segment(m, us) \in Seq(Messages) /\ Opens(Segment(m, us))
    BY <1>3, <1>10, <1>12, SegmentIs
  <2>4. Whole(s \o Segment(m, us))
    BY <1>3, <2>2, <2>3, WholeCut
  <2>5. phase' # "tools" /\ Whole(list')
    BY <1>6, <1>14, <1>17, <2>4
  <2> QED
    BY <1>1, <2>5 DEF SentInv
<1>18. CASE k # Len(m.calls)
  <2>1. InPart(m.calls, us)
    BY <1>4, <1>7, <1>10, <1>13, <1>15, <1>16, <1>18 DEF InPart
  <2>2. Batch(s, m, us)
    BY <1>3, <1>10, <1>12, <2>1 DEF Batch
  <2>3. phase' = "tools" /\ InBatch'
    BY <1>6, <1>14, <1>18, <2>2 DEF InBatch
  <2> QED
    BY <1>1, <2>3 DEF SentInv
<1> QED
  BY <1>17, <1>18

LEMMA WholeIsStored ==
  ASSUME NEW ms \in Seq(Messages), Whole(ms) PROVE Whole(Stored(ms))
<1>1. Stored(ms) = SlowPath(ms, FALSE)
  BY NormalizeIs DEF Stored
<1> QED
  BY <1>1, WholeSlow

(* A file that is saved in the middle of a batch is loaded whole.          *)
LEMMA SentSave ==
  ASSUME ListTypes, SentInv, clean PROVE Whole(Stored(list))
<1>1. list \in Seq(Messages)
  BY DEF ListTypes
<1>2. CASE phase # "tools"
  BY <1>1, <1>2, WholeIsStored DEF SentInv
<1>3. CASE phase = "tools"
  <2>1. PICK s, m, ts : Batch(s, m, ts) /\ list = s \o Segment(m, ts)
    BY <1>3 DEF SentInv, InBatch
  <2>2. Whole(SlowPath(list, FALSE))
    BY <2>1, BatchKept
  <2>3. Stored(list) = SlowPath(list, FALSE)
    BY <1>1, NormalizeIs DEF Stored
  <2> QED
    BY <2>2, <2>3
<1> QED
  BY <1>2, <1>3

(* A summary of a part that begins and ends at a turn cuts no batch.       *)
LEMMA SentSummarized ==
  ASSUME TranscriptInv, SentInv, NEW b \in bounds, SummarizeFrom(b) \/ SummarizeUpTo(b)
  PROVE  SentInv'
<1> SUFFICES ASSUME clean' PROVE SentInv'
  BY DEF SentInv
<1>1. list \in Seq(Messages) /\ b \in 0..Len(list) /\ Len(list) \in Nat
  <2>1. list \in Seq(Messages) /\ bounds \subseteq Nat
    BY DEF TranscriptInv, ListTypes, ControlTypes
  <2>2. b <= Len(list)
    <3>1. Len(list) \in Nat /\ b \in Nat
      BY <2>1
    <3>2. b < Len(list) \/ b <= Len(list)
      BY DEF SummarizeFrom, SummarizeUpTo
    <3> QED
      BY <3>1, <3>2
  <2> QED
    BY <2>1, <2>2
<1> DEFINE r == SubSeq(list, 1, b)
           s == SubSeq(list, b + 1, Len(list))
<1>2. list = r \o s /\ r \in Seq(Messages) /\ s \in Seq(Messages)
  BY <1>1, CutAt, CutJoins
<1>3. Opens(s)
  <2>1. ~Severs(list, b)
    BY DEF SummarizeFrom, SummarizeUpTo
  <2>2. CASE b = Len(list)
    <3>1. s = <<>>
      BY <1>1, <2>2, SubSeqProperties
    <3> QED
      BY <3>1 DEF Opens
  <2>3. CASE b < Len(list)
    <3>1. s[1] = list[b + 1]
      BY <1>1, <2>3, SubSeqProperties
    <3> QED
      BY <2>1, <2>3, <3>1 DEF Opens, Severs
  <2> QED
    BY <1>1, <2>2, <2>3
<1>4. /\ SummarizeFrom(b) => list' = Append(r, Recap(s))
      /\ SummarizeUpTo(b) => list' = <<Recap(r)>> \o s
  BY DEF SummarizeFrom, SummarizeUpTo, Summarized
<1> HIDE DEF r, s
<1>5. phase = "idle" /\ phase' = phase /\ disk' = list' /\ clean
  BY DEF SummarizeFrom, SummarizeUpTo, Summarized
<1>6. Whole(r) /\ Whole(s)
  BY <1>2, <1>3, <1>5, WholeCut DEF SentInv
<1>7. list' \in Seq(Messages) /\ Whole(list')
  <2>1. CASE SummarizeFrom(b)
    <3>1. Recap(s) \in Messages /\ ~Asks(Recap(s)) /\ ~IsTool(Recap(s))
      BY <1>2, RecapIs DEF Asks, IsTool
    <3>2. Append(r, Recap(s)) \in Seq(Messages)
      BY <1>2, <3>1
    <3> QED
      BY <1>2, <1>4, <1>6, <2>1, <3>1, <3>2, OnePlain
  <2>2. CASE SummarizeUpTo(b)
    <3> DEFINE o == <<Recap(r)>>
    <3>1. o \in Seq(Messages) /\ Plain(o)
      <4>1. Recap(r) \in Messages /\ ~Asks(Recap(r)) /\ ~IsTool(Recap(r))
        BY <1>2, RecapIs DEF Asks, IsTool
      <4> QED
        BY <4>1 DEF Plain, Range
    <3>2. list' = o \o s
      BY <1>4, <2>2
    <3> HIDE DEF o
    <3>3. Whole(o)
      BY <3>1, PlainIsWhole
    <3>4. o \o s \in Seq(Messages) /\ Whole(o \o s)
      BY <1>2, <1>3, <1>6, <3>1, <3>3, WholeCut
    <3> QED
      BY <3>2, <3>4
  <2> QED
    BY <2>1, <2>2
<1>8. Whole(Stored(list'))
  BY <1>7, WholeIsStored
<1> QED
  BY <1>5, <1>7, <1>8 DEF SentInv

LEMMA AddedIs ==
  ASSUME ListTypes, ListTypes', NEW m, Add(m) PROVE m \in Messages /\ list' = Append(list, m)
<1>1. list' = Append(list, m) /\ list \in Seq(Messages) /\ list' \in Seq(Messages) /\ Len(list) \in Nat
  BY DEF Add, ListTypes
<1>2. Len(list') = Len(list) + 1 /\ list'[Len(list) + 1] = m
  BY <1>1
<1>3. Len(list) + 1 \in 1..Len(list')
  BY <1>1, <1>2
<1> QED
  BY <1>1, <1>2, <1>3

LEMMA SentKept ==
  ASSUME TranscriptInv, TranscriptInv', SentInv, [TranscriptNext]_transcriptVars
  PROVE  SentInv'
<1>1. ListTypes /\ ListTypes' /\ list \in Seq(Messages) /\ disk \in Seq(Messages) /\ then \in {"idle", "step"}
  BY DEF TranscriptInv, ListTypes, ControlTypes
<1>2. ASSUME NEW text \in {"brief", "pasted"}, Ask(text) PROVE SentInv'
  <2> DEFINE m == [Message("user", added + 1) EXCEPT !.text = text]
  <2>1. Add(m) /\ ~Asks(m) /\ ~IsTool(m) /\ disk' = disk /\ clean' = clean /\ phase = "idle" /\ phase' = "step"
    BY <1>2 DEF Ask, Goes, Message, Asks, IsTool, diskVars
  <2> HIDE DEF m
  <2>2. m \in Messages /\ list' = Append(list, m)
    BY <1>1, <2>1, AddedIs
  <2> QED
    BY <1>1, <2>1, <2>2, SentPlain
<1>3. CASE Nudge
  <2> DEFINE m == Message("user", added + 1)
  <2>1. Add(m) /\ ~Asks(m) /\ ~IsTool(m) /\ disk' = disk /\ clean' = clean /\ phase = "step" /\ phase' = phase
    BY <1>3 DEF Nudge, Message, Asks, IsTool, diskVars
  <2> HIDE DEF m
  <2>2. m \in Messages /\ list' = Append(list, m)
    BY <1>1, <2>1, AddedIs
  <2> QED
    BY <1>1, <2>1, <2>2, SentPlain
<1>4. ASSUME NEW next \in {"idle", "step"}, Answer(next) PROVE SentInv'
  <2> DEFINE m == Message("assistant", added + 1)
  <2>1. Add(m) /\ ~Asks(m) /\ ~IsTool(m) /\ disk' = disk /\ clean' = clean /\ phase = "step" /\ phase' = "review"
    BY <1>4 DEF Answer, Goes, Message, Asks, IsTool, diskVars
  <2> HIDE DEF m
  <2>2. m \in Messages /\ list' = Append(list, m)
    BY <1>1, <2>1, AddedIs
  <2> QED
    BY <1>1, <2>1, <2>2, SentPlain
<1>5. ASSUME NEW calls \in Batches, AskTools(calls) PROVE SentInv'
  <2> DEFINE m == [Message("assistant", added + 1) EXCEPT !.calls = calls]
  <2>1. Add(m) /\ disk' = disk /\ clean' = clean /\ phase = "step" /\ phase' = "tools"
    BY <1>5 DEF AskTools, Goes, diskVars
  <2>2. Asks(m)
    BY DEF Message, Asks, Batches
  <2> HIDE DEF m
  <2>3. m \in Messages /\ list' = Append(list, m)
    BY <1>1, <2>1, AddedIs
  <2> QED
    BY <1>1, <2>1, <2>2, <2>3, SentAskTools
<1>6. ASSUME NEW text \in Sizes, AddResult(text) PROVE SentInv'
  BY <1>1, <1>6, SentAddResult
<1>7. CASE MaybeCompact
  <2>1. /\ phase = "review" /\ phase' \in {"idle", "step"} /\ disk' = disk /\ clean' = clean
    BY <1>1, <1>7 DEF MaybeCompact, Goes, diskVars
  <2>2. ASSUME clean PROVE Whole(list')
    <3>1. Whole(list)
      BY <2>1, <2>2 DEF SentInv
    <3>2. CASE UNCHANGED <<list, foldVars>>
      BY <3>1, <3>2
    <3>3. CASE \E between \in BOOLEAN : Relax(between)
      BY <3>1, <3>3 DEF Relax
    <3>4. CASE \E force, archives \in BOOLEAN : Review(force, archives)
      BY <1>1, <3>1, <3>4, ReviewWhole
    <3> QED
      BY <1>7, <3>2, <3>3, <3>4 DEF MaybeCompact
  <2>3. Stored(disk)' = Stored(disk)
    BY <2>1
  <2> QED
    BY <2>1, <2>2, <2>3 DEF SentInv
<1>8. CASE CompactNow
  <2>1. phase = "idle" /\ phase' = phase /\ disk' = disk /\ clean' = clean
    BY <1>8 DEF CompactNow, diskVars
  <2>2. PICK tells \in Digests(Parts(list)) : Parts(list).ok /\ list' = FoldedList(Parts(list), tells)
    BY <1>8 DEF CompactNow, Compacts
  <2>3. ASSUME clean PROVE Whole(list')
    BY <1>1, <2>1, <2>2, <2>3, FoldWhole DEF SentInv
  <2>4. Stored(disk)' = Stored(disk)
    BY <2>1
  <2> QED
    BY <2>1, <2>3, <2>4 DEF SentInv
<1>9. ASSUME NEW b \in bounds, SummarizeFrom(b) \/ SummarizeUpTo(b) PROVE SentInv'
  BY <1>9, SentSummarized
<1>10. CASE Save
  <2>1. list' = list /\ disk' = list /\ clean' = clean /\ phase' = phase
    BY <1>10 DEF Save
  <2>2. clean => Whole(Stored(list))
    BY <1>1, SentSave
  <2>3. Stored(disk)' = Stored(list) /\ (InBatch' <=> InBatch)
    BY <2>1 DEF InBatch
  <2> QED
    BY <2>1, <2>2, <2>3 DEF SentInv
<1>11. CASE Restart
  <2>1. list' = Stored(disk) /\ disk' = disk /\ clean' = clean /\ phase' = "idle"
    BY <1>11 DEF Restart, Goes, diskVars
  <2>2. Stored(disk)' = Stored(disk)
    BY <2>1
  <2> QED
    BY <2>1, <2>2 DEF SentInv
<1>12. CASE LeaveTurn
  <2>1. UNCHANGED <<list, disk, clean>> /\ phase = "step" /\ phase' = "idle"
    BY <1>12 DEF LeaveTurn, Goes, diskVars
  <2>2. Stored(disk)' = Stored(disk)
    BY <2>1
  <2> QED
    BY <2>1, <2>2 DEF SentInv
<1>13. CASE UNCHANGED transcriptVars
  <2>1. UNCHANGED <<list, disk, clean, phase>>
    BY <1>13 DEF transcriptVars, diskVars
  <2>2. Stored(disk)' = Stored(disk) /\ (InBatch' <=> InBatch)
    BY <2>1 DEF InBatch
  <2> QED
    BY <2>1, <2>2 DEF SentInv
<1> QED
  BY <1>2, <1>3, <1>4, <1>5, <1>6, <1>7, <1>8, <1>9, <1>10, <1>11, <1>12, <1>13, Zenon DEF TranscriptNext

(* No fold parts a call from its results, and no save or end of the        *)
(* process in the middle of a batch either, unless the user has had a part *)
(* summarized that begins or ends within a turn: between two steps of the  *)
(* loop what is sent is what there is, nothing withheld and nothing made   *)
(* up.                                                                     *)
THEOREM SentAsTheyAre == TranscriptSpec => []SentInFull
<1>1. TranscriptInit => SentInv
  BY SentInit
<1>2. TranscriptInv /\ TranscriptInv' /\ SentInv /\ [TranscriptNext]_transcriptVars => SentInv'
  BY SentKept
<1>3. TranscriptInv /\ SentInv => SentInFull
  <2> SUFFICES ASSUME TranscriptInv, SentInv, clean, phase # "tools"
               PROVE  NumbersOf(Wire(list)) = NumbersOf(list)
    BY DEF SentInFull
  <2>1. list \in Seq(Messages) /\ Whole(list)
    BY DEF TranscriptInv, ListTypes, SentInv
  <2>2. Wire(list) = SlowPath(list, TRUE)
    BY <2>1, NormalizeIs DEF Wire
  <2> QED
    BY <2>1, <2>2, WholeSlow
<1> QED
  BY <1>1, <1>2, <1>3, TranscriptInvHolds, PTL DEF TranscriptSpec

=============================================================================
