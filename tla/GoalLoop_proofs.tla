-------------------------- MODULE GoalLoop_proofs --------------------------
(***************************************************************************)
(* The audits of the goal loop, for any goals, reasons and limits.         *)
(***************************************************************************)
EXTENDS GoalLoop, TLAPS

(* Between the claim that the goal is complete and the decision on it, the *)
(* goal is pursued, or the user has cleared it and the audits are new.     *)
Deciding == loop \in {"judging", "verified"} \/ muHeld
DecideInv == Deciding => Pursuing \/ goalBlock = "unblocked"

(* The count of a reason is that of the last turns which gave it.          *)
AuditInv ==
  goalBlock \in Reasons =>
    /\ goalBlocks \in 1..3
    /\ goalBlocks = 3 <=> goalStatus = "blocked"
    /\ ~Deciding => LastSaid(goalBlocks, goalBlock)

IdleInv == goalStatus = "running" => goalIdleTurns < MaxIdle

SaidInv == Len(said) <= Lookback

(* A goroutine works for the turn exactly while the controller is running. *)
RunInv == running <=> loop # "idle"

(* The goal is decided on with the answer that claims its completion.      *)
ClaimInv == loop \in {"judging", "verified"} => reply.mark = "complete"

IInv == TypeOK /\ DecideInv /\ AuditInv /\ IdleInv /\ SaidInv /\ LimitHolds

-----------------------------------------------------------------------------
LEMMA LookbackType == Lookback \in Nat /\ Lookback >= 3
BY LimitAssumption DEF Lookback

(* What one more turn makes of the history.                                *)
LEMMA RememberKeeps ==
  ASSUME TypeOK, SaidInv, NEW m \in Marks, reply.mark = m, Remember
  PROVE  /\ said' \in Seq(Marks)
         /\ Len(said') <= Lookback
         /\ Len(said') >= 1 /\ said'[Len(said')] = m
         /\ \A n \in Nat :
              n < Lookback /\ LastSaid(n, m)
              => /\ Len(said') >= n + 1
                 /\ \A i \in Len(said') - n .. Len(said') : said'[i] = m
<1>. DEFINE all == Append(said, m)
            k == IF Len(all) > Lookback THEN 2 ELSE 1
<1>0. said \in Seq(Marks)
  BY DEF TypeOK
<1>1. said \in Seq(Marks) /\ Len(said) <= Lookback /\ Len(said) \in Nat
  BY <1>0 DEF SaidInv
<1>2. /\ all \in Seq(Marks)
      /\ Len(all) = Len(said) + 1
      /\ \A i \in 1..Len(said) : all[i] = said[i]
      /\ all[Len(said) + 1] = m
  BY <1>1
<1>3. said' = SubSeq(all, k, Len(all))
  BY DEF Remember
<1>4. /\ k \in {1, 2} /\ k <= Len(all)
      /\ k = 2 => Len(said) = Lookback
      /\ k = 1 => Len(said) < Lookback
  BY <1>1, <1>2, LookbackType
<1>. HIDE DEF all, k
<1>5. /\ said' \in Seq(Marks)
      /\ Len(said') = Len(all) - k + 1
      /\ \A i \in 1..Len(said') : said'[i] = all[k + i - 1]
  BY <1>1, <1>2, <1>3, <1>4
<1>6. Len(said') <= Lookback /\ Len(said') >= 1 /\ said'[Len(said')] = m
  BY <1>1, <1>2, <1>4, <1>5, LookbackType
<1>7. ASSUME NEW n \in Nat, n < Lookback, LastSaid(n, m)
      PROVE  /\ Len(said') >= n + 1
             /\ \A i \in Len(said') - n .. Len(said') : said'[i] = m
  <2>1. Len(said) >= n /\ \A i \in Len(said) - n + 1 .. Len(said) : said[i] = m
    BY <1>7 DEF LastSaid
  <2>2. Len(said') >= n + 1
    BY <1>1, <1>2, <1>4, <1>5, <1>7, <2>1, LookbackType
  <2>3. ASSUME NEW i \in Len(said') - n .. Len(said') PROVE said'[i] = m
    <3>1. i \in 1..Len(said') /\ said'[i] = all[k + i - 1]
      BY <1>1, <1>2, <1>4, <1>5, <2>2
    <3>2. CASE k + i - 1 = Len(said) + 1
      BY <1>2, <3>1, <3>2
    <3>3. CASE k + i - 1 # Len(said) + 1
      <4>1. /\ k + i - 1 \in 1..Len(said)
            /\ k + i - 1 \in Len(said) - n + 1 .. Len(said)
        BY <1>1, <1>2, <1>4, <1>5, <2>1, <3>1, <3>3
      <4>. QED
        BY <1>2, <2>1, <3>1, <4>1
    <3>. QED
      BY <3>2, <3>3
  <2>. QED
    BY <2>2, <2>3
<1>. QED
  BY <1>5, <1>6, <1>7

-----------------------------------------------------------------------------
LEMMA InitIInv == Init => IInv
<1>. SUFFICES ASSUME Init PROVE IInv
  OBVIOUS
<1>1. said \in Seq(Marks) /\ Len(said) = 0
  <2>1. said = <<>>
    BY DEF Init
  <2>2. <<>> \in Seq(Marks) /\ Len(<<>>) = 0
    OBVIOUS
  <2>. QED
    BY <2>1, <2>2
<1>2. TypeOK
  <2>1. goalIdleTurns \in 0..MaxIdle
    BY LimitAssumption DEF Init
  <2>2. reply \in [mark : Marks, calls : BOOLEAN]
    BY DEF Init, Marks
  <2>3. /\ running \in BOOLEAN /\ cancelled \in BOOLEAN /\ muHeld \in BOOLEAN
        /\ goalStrict \in BOOLEAN /\ worked \in BOOLEAN
        /\ loop \in {"idle", "turn", "advance", "judging", "verified", "continue", "ending"}
        /\ goal \in Goals \cup {NoGoal}
        /\ goalStatus \in {"running", "complete", "blocked", "stopped"}
    BY DEF Init
  <2>4. /\ goalTurns \in Nat /\ goalBlocks \in 0..3
        /\ goalBlock \in Reasons \cup Stops \cup {"unblocked"}
    BY DEF Init
  <2>. QED
    BY <1>1, <2>1, <2>2, <2>3, <2>4 DEF TypeOK
<1>3. DecideInv /\ AuditInv
  BY MarksAssumption DEF Init, DecideInv, Deciding, AuditInv
<1>4. IdleInv /\ LimitHolds
  BY DEF Init, IdleInv, LimitHolds, Pursuing
<1>5. SaidInv
  BY <1>1, LookbackType DEF SaidInv
<1>. QED
  BY <1>2, <1>3, <1>4, <1>5 DEF IInv

(* A step of the turn or of the frontend that leaves the goal alone.       *)
LEMMA QuietStep ==
  ASSUME IInv, TypeOK', UNCHANGED goalVars,
         (Deciding' <=> Deciding) \/ goalBlock = "unblocked"
  PROVE  IInv'
<1>. USE DEF IInv, goalVars
<1>1. DecideInv'
  BY DEF DecideInv, Pursuing
<1>2. AuditInv'
  BY MarksAssumption DEF AuditInv, LastSaid
<1>3. IdleInv' /\ SaidInv' /\ LimitHolds'
  BY DEF IdleInv, SaidInv, LimitHolds, LastSaid, Pursuing
<1>. QED
  BY <1>1, <1>2, <1>3

(* SetGoal.                                                                *)
LEMMA SetGoalStep ==
  ASSUME IInv, NEW g \in Goals \cup {NoGoal}, SetGoal(g)
  PROVE  IInv'
<1>. USE DEF IInv, SetGoal, turnVars, logVars, NewIdle, NewAudit
<1>1. said' \in Seq(Marks) /\ Len(said') = 0
  <2>1. said' = <<>>
    OBVIOUS
  <2>2. <<>> \in Seq(Marks) /\ Len(<<>>) = 0
    OBVIOUS
  <2>. QED
    BY <2>1, <2>2
<1>2. TypeOK'
  BY <1>1, LimitAssumption DEF TypeOK
<1>3. DecideInv' /\ AuditInv'
  BY MarksAssumption DEF DecideInv, AuditInv
<1>4. IdleInv' /\ LimitHolds'
  BY LimitAssumption DEF IdleInv, LimitHolds, Pursuing
<1>5. SaidInv'
  BY <1>1, LookbackType DEF SaidInv
<1>. QED
  BY <1>2, <1>3, <1>4, <1>5

(* The answer that claims the goal is complete.                            *)
LEMMA ClaimsCompleteStep ==
  ASSUME IInv, ClaimsComplete
  PROVE  IInv'
<1>. USE DEF IInv, ClaimsComplete, At, Goto, logVars
<1>1. reply.mark \in Marks
  BY DEF TypeOK
<1>2. /\ said' \in Seq(Marks)
      /\ Len(said') <= Lookback
      /\ Len(said') >= 1 /\ said'[Len(said')] = "complete"
  BY <1>1, RememberKeeps
<1>3. TypeOK'
  BY <1>2, JudgeAssumption DEF TypeOK
<1>4. DecideInv' /\ AuditInv'
  BY DEF DecideInv, AuditInv, Deciding, Pursuing
<1>5. IdleInv' /\ SaidInv'
  BY <1>2 DEF IdleInv, SaidInv, Lookback
<1>6. LimitHolds'
  <2>1. LastSaid(1, "complete")'
    <3>1. Len(said') \in Nat
      BY <1>2
    <3>. QED
      BY <1>2, <3>1 DEF LastSaid
  <2>. QED
    BY <2>1 DEF LimitHolds
<1>. QED
  BY <1>3, <1>4, <1>5, <1>6

(* The blocked audit: the third answer in a row with the same reason.      *)
LEMMA ClaimsBlockedStep ==
  ASSUME IInv, ClaimsBlocked
  PROVE  IInv'
<1>. USE DEF IInv, At, logVars
<1>1. /\ At("advance") /\ Pursuing /\ ~muHeld /\ goalStatus = "running"
      /\ reply.mark \in Reasons /\ reply.mark \in Marks
      /\ reply.mark \notin {"unblocked", "none", "continue", "complete", "idle", "limit"}
  BY MarksAssumption DEF ClaimsBlocked, Marks, Pursuing
<1>2. /\ goalTurns' = goalTurns + 1
      /\ goalTurns \in Nat
      /\ goalIdleTurns' = 0
      /\ UNCHANGED <<goal, goalStrict, reply, worked, running, cancelled, muHeld>>
      /\ loop' \in {"continue", "ending"}
  BY DEF ClaimsBlocked, TypeOK, Conclude, Goto
<1>3. /\ said' \in Seq(Marks)
      /\ Len(said') <= Lookback
      /\ Len(said') >= 1 /\ said'[Len(said')] = reply.mark
      /\ \A n \in Nat :
           n < Lookback /\ LastSaid(n, reply.mark)
           => /\ Len(said') >= n + 1
              /\ \A i \in Len(said') - n .. Len(said') : said'[i] = reply.mark
  BY <1>1, RememberKeeps DEF ClaimsBlocked
<1>4. goalBlocks' \in 1..3 /\ LastSaid(goalBlocks, reply.mark)'
  <2>1. CASE goalBlock = reply.mark
    <3>1. goalBlocks \in 1..2 /\ LastSaid(goalBlocks, reply.mark)
      BY <1>1, <2>1 DEF AuditInv, Deciding
    <3>2. goalBlocks' = goalBlocks + 1
      BY <2>1 DEF ClaimsBlocked
    <3>3. goalBlocks \in Nat /\ goalBlocks < Lookback
      BY <3>1, LookbackType
    <3>4. /\ Len(said') >= goalBlocks + 1
          /\ \A i \in Len(said') - goalBlocks .. Len(said') : said'[i] = reply.mark
      BY <1>3, <3>1, <3>3
    <3>5. Len(said') - (goalBlocks + 1) + 1 = Len(said') - goalBlocks
      BY <1>3, <3>3
    <3>. QED
      BY <1>2, <3>1, <3>2, <3>4, <3>5 DEF LastSaid
  <2>2. CASE goalBlock # reply.mark
    <3>1. goalBlocks' = 1
      BY <2>2 DEF ClaimsBlocked
    <3>2. Len(said') \in Nat
      BY <1>3
    <3>3. \A i \in Len(said') - 1 + 1 .. Len(said') : said'[i] = reply.mark
      BY <1>3, <3>2
    <3>. QED
      BY <1>2, <1>3, <3>1, <3>2, <3>3 DEF LastSaid
  <2>. QED
    BY <2>1, <2>2
<1>5. \/ goalBlocks' = 3 /\ goalStatus' = "blocked" /\ goalBlock' = reply.mark
      \/ goalStatus' = "blocked" /\ goalBlock' = "limit"
      \/ /\ goalBlocks' < 3 /\ goalStatus' = "running" /\ goalBlock' = reply.mark
         /\ ~(goalTurns' >= MaxAuto)
  BY <1>1, <1>4 DEF ClaimsBlocked, Conclude, OverLimit
<1>6. TypeOK'
  <2>1. goalBlocks' \in 0..3 /\ goalIdleTurns' \in 0..MaxIdle /\ goalTurns' \in Nat
    BY <1>2, <1>4, LimitAssumption
  <2>2. /\ goalBlock' \in Reasons \cup Stops \cup {"unblocked"}
        /\ goalStatus' \in {"running", "complete", "blocked", "stopped"}
    BY <1>1, <1>5 DEF Stops
  <2>. QED
    BY <1>2, <1>3, <2>1, <2>2 DEF TypeOK
<1>7. DecideInv'
  BY <1>1, <1>2 DEF DecideInv, Deciding
<1>8. AuditInv'
  <2>1. CASE goalBlock' = reply.mark
    <3>1. goalBlocks' = 3 <=> goalStatus' = "blocked"
      BY <1>1, <1>4, <1>5, <2>1
    <3>2. LastSaid(goalBlocks, goalBlock)'
      BY <1>2, <1>4, <2>1 DEF LastSaid
    <3>. QED
      BY <1>4, <3>1, <3>2 DEF AuditInv
  <2>2. CASE goalBlock' = "limit"
    BY <2>2, MarksAssumption DEF AuditInv
  <2>. QED
    BY <1>5, <2>1, <2>2
<1>9. IdleInv' /\ SaidInv' /\ LimitHolds'
  <2>1. IdleInv'
    BY <1>2, LimitAssumption DEF IdleInv
  <2>2. SaidInv'
    BY <1>3 DEF SaidInv, Lookback
  <2>3. LimitHolds'
    BY <1>5 DEF LimitHolds, Pursuing
  <2>. QED
    BY <2>1, <2>2, <2>3
<1>. QED
  BY <1>6, <1>7, <1>8, <1>9

(* The idle audit.                                                         *)
LEMMA GoesOnStep ==
  ASSUME IInv, GoesOn
  PROVE  IInv'
<1>. USE DEF IInv, At, logVars
<1>1. /\ ~muHeld /\ goalStatus = "running" /\ reply.mark \in Marks
      /\ goalIdleTurns \in Nat /\ goalIdleTurns < MaxIdle
      /\ MaxIdle \in Nat \ {0}
  BY LimitAssumption DEF GoesOn, Marks, Pursuing, IdleInv, TypeOK
<1>2. /\ goalTurns' = goalTurns + 1
      /\ goalTurns \in Nat
      /\ goalBlocks' = 0
      /\ UNCHANGED <<goal, goalStrict, reply, worked, running, cancelled, muHeld>>
      /\ loop' \in {"continue", "ending"}
  BY DEF GoesOn, TypeOK, Conclude, Goto
<1>3. said' \in Seq(Marks) /\ Len(said') <= Lookback
  BY <1>1, RememberKeeps DEF GoesOn
<1>. DEFINE idle == IF reply.calls THEN 0 ELSE goalIdleTurns + 1
<1>4. idle \in 0..MaxIdle
  BY <1>1
<1>. HIDE DEF idle
<1>5. /\ goalIdleTurns' \in 0..MaxIdle
      /\ \/ goalStatus' = "blocked" /\ goalBlock' \in {"idle", "limit"}
         \/ /\ goalStatus' = "running" /\ goalBlock' = "unblocked"
            /\ goalIdleTurns' < MaxIdle /\ ~(goalTurns' >= MaxAuto)
  BY <1>1, <1>4 DEF GoesOn, Conclude, OverLimit, idle
<1>6. TypeOK'
  <2>1. /\ goalBlock' \in Reasons \cup Stops \cup {"unblocked"}
        /\ goalStatus' \in {"running", "complete", "blocked", "stopped"}
    BY <1>5 DEF Stops
  <2>2. goalBlocks' \in 0..3 /\ goalTurns' \in Nat
    BY <1>2
  <2>. QED
    BY <1>2, <1>3, <1>5, <2>1, <2>2 DEF TypeOK
<1>7. DecideInv' /\ AuditInv'
  BY <1>1, <1>2, <1>5, MarksAssumption DEF DecideInv, Deciding, AuditInv
<1>8. IdleInv' /\ LimitHolds'
  BY <1>5 DEF IdleInv, LimitHolds, Pursuing
<1>9. SaidInv'
  BY <1>3 DEF SaidInv, Lookback
<1>. QED
  BY <1>6, <1>7, <1>8, <1>9

(* The decision: a strict rejection or the end of the goal.                *)
LEMMA DecisionStep ==
  ASSUME IInv, StrictRejects \/ Complete
  PROVE  IInv'
<1>. USE DEF IInv, StrictRejects, Complete, At, Goto, logVars, StillPursuing
<1>1. /\ goalBlocks' = 0 /\ goalBlock' = "unblocked" /\ goalIdleTurns' = 0
      /\ UNCHANGED <<goalTurns, said, goalStrict, reply, worked, running, cancelled, muHeld>>
      /\ loop' \in {"continue", "ending"} /\ ~muHeld
      /\ \/ UNCHANGED <<goal, goalStatus>>
         \/ goal' = NoGoal /\ goalStatus' = "complete"
  OBVIOUS
<1>2. TypeOK'
  BY <1>1, LimitAssumption DEF TypeOK
<1>3. DecideInv' /\ AuditInv'
  BY <1>1, MarksAssumption DEF DecideInv, AuditInv
<1>4. IdleInv' /\ SaidInv'
  BY <1>1, LimitAssumption DEF IdleInv, SaidInv, Lookback
<1>5. LimitHolds'
  BY <1>1 DEF LimitHolds, Pursuing, LastSaid
<1>. QED
  BY <1>2, <1>3, <1>4, <1>5

(* A turn that fails, and the look at the context between two turns.       *)
LEMMA StopStep ==
  ASSUME IInv, TypeOK', ~Deciding, ~Deciding',
         StopGoal("stopped") \/ UNCHANGED goalVars
  PROVE  IInv'
<1>. USE DEF IInv, StopGoal, goalVars
<1>1. DecideInv'
  BY DEF DecideInv
<1>2. AuditInv'
  BY DEF AuditInv, LastSaid
<1>3. IdleInv' /\ SaidInv'
  BY DEF IdleInv, SaidInv, Lookback
<1>4. LimitHolds'
  BY DEF LimitHolds, Pursuing, LastSaid
<1>. QED
  BY <1>1, <1>2, <1>3, <1>4

-----------------------------------------------------------------------------
(* Every step keeps the invariant.                                         *)
LEMMA StepIInv == IInv /\ RunInv /\ [Next]_vars => IInv'
<1>. SUFFICES ASSUME IInv, RunInv, [Next]_vars PROVE IInv'
  OBVIOUS
<1>0. TypeOK
  BY DEF IInv
<1>. DEFINE Quiet == UNCHANGED goalVars /\ TypeOK' /\ ((Deciding' <=> Deciding) \/ goalBlock = "unblocked")
<1>1. ASSUME NEW g \in Goals \cup {NoGoal}, SetGoal(g) PROVE IInv'
  BY <1>1, SetGoalStep
<1>2. ASSUME NEW strict \in BOOLEAN, SetGoalStrict(strict) PROVE IInv'
  <2>1. Quiet
    BY <1>0, <1>2 DEF SetGoalStrict, TypeOK, goalVars, turnVars, logVars, Deciding
  <2>. QED
    BY <2>1, QuietStep
<1>3. CASE Submit
  <2>1. loop = "idle"
    BY <1>3 DEF Submit, RunInv
  <2>2. TypeOK' /\ UNCHANGED goalVars
    BY <1>0, <1>3 DEF Submit, TypeOK, goalVars, logVars
  <2>3. (Deciding' <=> Deciding) \/ goalBlock = "unblocked"
    BY <1>3, <2>1 DEF Submit, Deciding
  <2>. QED
    BY <2>2, <2>3, QuietStep
<1>4. CASE Cancel
  <2>1. Quiet
    BY <1>0, <1>4 DEF Cancel, TypeOK, goalVars, logVars, Deciding
  <2>. QED
    BY <2>1, QuietStep
<1>5. ASSUME NEW mark \in Marks, NEW acted \in BOOLEAN, TurnAnswers(mark, acted) PROVE IInv'
  <2>1. Quiet
    BY <1>0, <1>5 DEF TurnAnswers, At, Goto, TypeOK, goalVars, Deciding
  <2>. QED
    BY <2>1, QuietStep
<1>6. CASE TurnBlocked
  <2>1. Quiet
    BY <1>0, <1>6 DEF TurnBlocked, At, Goto, TypeOK, goalVars, logVars, Deciding
  <2>. QED
    BY <2>1, QuietStep
<1>7. ASSUME NEW mark \in Marks, NEW calls \in BOOLEAN, TurnFails(mark, calls) PROVE IInv'
  <2>1. /\ ~Deciding /\ ~Deciding' /\ (StopGoal("stopped") \/ UNCHANGED goalVars)
        /\ loop' = "ending" /\ UNCHANGED <<running, cancelled, muHeld, goalStrict>>
    BY <1>7 DEF TurnFails, At, Goto, Deciding
  <2>2. reply' \in [mark : Marks, calls : BOOLEAN] /\ worked' \in BOOLEAN
    BY <1>0, <1>7 DEF TurnFails, TypeOK
  <2>3. TypeOK'
    BY <1>0, <2>1, <2>2 DEF TypeOK, StopGoal, goalVars
  <2>. QED
    BY <2>1, <2>3, StopStep
<1>8. CASE NotPursuing
  <2>1. Quiet
    BY <1>0, <1>8 DEF NotPursuing, NoGoalEnds, At, Goto, TypeOK, goalVars, logVars, Deciding
  <2>. QED
    BY <2>1, QuietStep
<1>9. CASE JudgeRejects
  <2>1. Quiet
    BY <1>0, <1>9 DEF JudgeRejects, At, TypeOK, goalVars, logVars, Deciding
  <2>. QED
    BY <2>1, QuietStep
<1>10. CASE JudgeAccepts
  <2>1. Quiet
    BY <1>0, <1>10 DEF JudgeAccepts, At, Goto, TypeOK, goalVars, logVars, Deciding
  <2>. QED
    BY <2>1, QuietStep
<1>11. CASE ClearedMeanwhile
  <2>1. goalBlock = "unblocked"
    BY <1>11 DEF ClearedMeanwhile, At, StillPursuing, IInv, DecideInv, Deciding
  <2>2. TypeOK' /\ UNCHANGED goalVars
    BY <1>0, <1>11 DEF ClearedMeanwhile, At, Goto, TypeOK, goalVars, logVars
  <2>. QED
    BY <2>1, <2>2, QuietStep
<1>12. CASE Continue
  <2>1. /\ ~Deciding /\ ~Deciding' /\ (StopGoal("stopped") \/ UNCHANGED goalVars)
        /\ loop' \in {"turn", "ending"}
        /\ UNCHANGED <<running, cancelled, muHeld, goalStrict, reply, worked>>
    BY <1>12 DEF Continue, At, Goto, Deciding, logVars
  <2>2. TypeOK'
    BY <1>0, <2>1 DEF TypeOK, StopGoal, goalVars
  <2>. QED
    BY <2>1, <2>2, StopStep
<1>13. CASE EndTurn
  <2>1. Quiet
    BY <1>0, <1>13 DEF EndTurn, At, TypeOK, goalVars, logVars, Deciding
  <2>. QED
    BY <2>1, QuietStep
<1>14. CASE UNCHANGED vars
  <2>1. Quiet
    BY <1>0, <1>14 DEF vars, TypeOK, goalVars, turnVars, logVars, Deciding
  <2>. QED
    BY <2>1, QuietStep
<1>. QED
  BY <1>1, <1>2, <1>3, <1>4, <1>5, <1>6, <1>7, <1>8, <1>9, <1>10, <1>11, <1>12,
     <1>13, <1>14, ClaimsCompleteStep, ClaimsBlockedStep, GoesOnStep, DecisionStep
     DEF Next, User, Turn, Advance

-----------------------------------------------------------------------------
LEMMA StepRunInv == RunInv /\ [Next]_vars => RunInv'
<1>. SUFFICES ASSUME RunInv, [Next]_vars PROVE RunInv'
  OBVIOUS
<1>. USE DEF RunInv, At, Goto
<1>1. ASSUME User PROVE RunInv'
  BY <1>1 DEF User, SetGoal, SetGoalStrict, Submit, Cancel, turnVars
<1>2. ASSUME Turn PROVE RunInv'
  BY <1>2 DEF Turn, TurnAnswers, TurnBlocked, TurnFails
<1>3. ASSUME ClaimsBlocked \/ GoesOn PROVE RunInv'
  BY <1>3 DEF ClaimsBlocked, GoesOn, Conclude
<1>4. ASSUME Advance, ~(ClaimsBlocked \/ GoesOn) PROVE RunInv'
  BY <1>4 DEF Advance, NotPursuing, NoGoalEnds, ClaimsComplete, JudgeRejects,
              JudgeAccepts, ClearedMeanwhile, StrictRejects, Complete, Continue, EndTurn
<1>5. CASE UNCHANGED vars
  BY <1>5 DEF vars, turnVars
<1>. QED
  BY <1>1, <1>2, <1>3, <1>4, <1>5 DEF Next

LEMMA StepClaimInv == ClaimInv /\ [Next]_vars => ClaimInv'
<1>. SUFFICES ASSUME ClaimInv, [Next]_vars PROVE ClaimInv'
  OBVIOUS
<1>. USE DEF ClaimInv, At, Goto, logVars
<1>1. ASSUME User PROVE ClaimInv'
  BY <1>1 DEF User, SetGoal, SetGoalStrict, Submit, Cancel, turnVars
<1>2. ASSUME Turn PROVE ClaimInv'
  BY <1>2 DEF Turn, TurnAnswers, TurnBlocked, TurnFails
<1>3. ASSUME ClaimsBlocked \/ GoesOn PROVE ClaimInv'
  BY <1>3 DEF ClaimsBlocked, GoesOn, Conclude
<1>4. ASSUME Advance, ~(ClaimsBlocked \/ GoesOn) PROVE ClaimInv'
  BY <1>4 DEF Advance, NotPursuing, NoGoalEnds, ClaimsComplete, JudgeRejects,
              JudgeAccepts, ClearedMeanwhile, StrictRejects, Complete, Continue, EndTurn
<1>5. CASE UNCHANGED vars
  BY <1>5 DEF vars, turnVars
<1>. QED
  BY <1>1, <1>2, <1>3, <1>4, <1>5 DEF Next

-----------------------------------------------------------------------------
(* The inductive invariant holds of every behaviour of the loop.           *)
THEOREM GoalInvariant == Spec => [](IInv /\ RunInv)
<1>1. Init => IInv /\ RunInv
  BY InitIInv DEF Init, RunInv
<1>2. IInv /\ RunInv /\ [Next]_vars => (IInv /\ RunInv)'
  BY StepIInv, StepRunInv
<1>. QED
  BY <1>1, <1>2, PTL DEF Spec

(* Every variable keeps its type; the counts of both audits stay bounded.  *)
THEOREM GoalTypeCorrect == Spec => []TypeOK
<1>1. IInv => TypeOK
  BY DEF IInv
<1>. QED
  BY <1>1, GoalInvariant, PTL

(* A goal given up with a reason had three answers in a row giving it.     *)
THEOREM GoalBlockedIsEarned == Spec => []BlockedIsEarned
<1>1. IInv => BlockedIsEarned
  <2>. SUFFICES ASSUME IInv, goalStatus = "blocked", goalBlock \in Reasons
                PROVE  LastSaid(3, goalBlock)
    BY DEF BlockedIsEarned
  <2>1. goalBlocks = 3 /\ (~Deciding => LastSaid(3, goalBlock))
    BY DEF IInv, AuditInv
  <2>2. ~Deciding
    BY MarksAssumption DEF IInv, DecideInv, Pursuing
  <2>. QED
    BY <2>1, <2>2
<1>. QED
  BY <1>1, GoalInvariant, PTL

(* A goal past its turn limit is pursued only on a claim of completion.    *)
THEOREM GoalLimitHolds == Spec => []LimitHolds
<1>1. IInv => LimitHolds
  BY DEF IInv
<1>. QED
  BY <1>1, GoalInvariant, PTL

(* A goal becomes complete only while it is pursued, on an answer that     *)
(* says so and, in strict mode, with tools used.                           *)
THEOREM GoalCompletedInForce == Spec => CompletedInForce
<1>. DEFINE A == goalStatus' = "complete" /\ goalStatus # "complete"
                 => /\ goal # NoGoal /\ goalStatus = "running"
                    /\ reply.mark = "complete"
                    /\ goalStrict => worked
<1>1. IInv /\ ClaimInv /\ [Next]_vars => [A]_vars
  <2>. SUFFICES ASSUME ClaimInv, [Next]_vars, goalStatus' = "complete", goalStatus # "complete"
                PROVE  /\ goal # NoGoal /\ goalStatus = "running"
                       /\ reply.mark = "complete"
                       /\ goalStrict => worked
    OBVIOUS
  <2>1. Complete
    <3>1. ~User
      BY DEF User, SetGoal, SetGoalStrict, Submit, Cancel, goalVars
    <3>2. ~Turn
      BY DEF Turn, TurnAnswers, TurnBlocked, TurnFails, StopGoal, goalVars
    <3>3. ~(ClaimsBlocked \/ GoesOn)
      BY DEF ClaimsBlocked, GoesOn, Conclude
    <3>4. Advance
      BY <3>1, <3>2 DEF Next, vars, goalVars
    <3>. QED
      BY <3>3, <3>4 DEF Advance, NotPursuing, ClaimsComplete, JudgeRejects, JudgeAccepts,
            ClearedMeanwhile, StrictRejects, Continue, StopGoal, EndTurn, goalVars
  <2>. QED
    BY <2>1 DEF Complete, At, StillPursuing, Pursuing, StrictRefuses, ClaimInv
<1>2. Init => ClaimInv
  BY DEF Init, ClaimInv
<1>3. ClaimInv /\ [Next]_vars => ClaimInv'
  BY StepClaimInv
<1>. QED
  BY <1>1, <1>2, <1>3, GoalInvariant, PTL DEF Spec, CompletedInForce

(* A goal is given up as blocked only when that was earned, and at the     *)
(* limit at the latest.                                                    *)
THEOREM GoalGivenUpWhenDue == Spec => []GivenUpWhenDue
BY GoalBlockedIsEarned, GoalLimitHolds, PTL DEF GivenUpWhenDue
=============================================================================
