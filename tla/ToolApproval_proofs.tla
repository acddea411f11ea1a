------------------------ MODULE ToolApproval_proofs ------------------------
(***************************************************************************)
(* The prompt discipline of ToolApproval for any number of tool calls,     *)
(* setters and prompts.                                                    *)
(***************************************************************************)
EXTENDS ToolApproval, TLAPS

(* promptMu is held exactly from the lock to the end of the wait, and the  *)
(* asker that waits is the one with a prompt.                              *)
LockInv ==
  \A a \in Askers :
    /\ promptMu = a <=> pc[a] \in {"locked", "blocked"}
    /\ id[a] # NoId <=> pc[a] = "blocked"

(* Whose prompt an id is: an open prompt has an asker that waits for it, a *)
(* drained prompt is not open, and neither is an answered one.             *)
OwnerInv ==
  /\ \A i \in Open : \E a \in Askers : id[a] = i
  /\ DOMAIN approvals \cap asks = {}
  /\ \A s \in Setters : drained[s] \cap Open = {}
  /\ \A i \in PromptIds : reply[i] # "none" => /\ i \notin Open
                                              /\ \E a \in Askers : id[a] = i

(* What may decide a prompt depends on the kind of call that waits for it. *)
KindInv ==
  /\ \A a \in Askers : kind[a] = "plan" <=> a = Turn
  /\ \A a \in Askers : kind[a] = "question" => pc[a] # "checking"
  /\ \A i \in DOMAIN approvals, a \in Askers :
       id[a] = i => approvals[i].kind = kind[a]
  /\ \A i \in asks, a \in Askers : id[a] = i => kind[a] = "question"
  /\ \A s \in Setters, a \in Askers : id[a] \in drained[s] => kind[a] \in ToolKinds

(* The turn asks for approvals in two of its phases only.                  *)
TurnInv == turn \notin {"proposing", "executing"} => pc[Turn] = "idle"

(* A setter holds drained prompts from the drain to their release.         *)
DrainInv == \A s \in Setters : drained[s] # {} => at[s] \in {"build", "install", "release"}

Safe == /\ LockInv /\ OwnerInv /\ KindInv /\ Answerable
        /\ YoloAsksForNoTool /\ GrantedIsNotAsked /\ UserDecides

IInv == TypeOK /\ TurnInv /\ DrainInv /\ Safe

-----------------------------------------------------------------------------
(* Every step is one of the named actions, or changes nothing.             *)
LEMMA StepCases ==
  ASSUME TypeOK, [Next]_vars
  PROVE  \/ \E c \in Callers, k \in Kinds \ {"plan"} : Call(c, k)
         \/ \E a \in Askers : Check(a)
         \/ \E a \in Askers : LockPrompt(a)
         \/ \E a \in Askers : Register(a)
         \/ \E a \in Askers : TakeReply(a)
         \/ \E a \in Askers : Abort(a)
         \/ \E i \in PromptIds, answer \in {"yes", "session", "no"} : Approve(i, answer)
         \/ \E i \in PromptIds : AnswerQuestion(i)
         \/ StartTurn
         \/ Cancel
         \/ \E proposal \in BOOLEAN : EndRun(proposal)
         \/ PlanDecided
         \/ PlanOff
         \/ OpenWindow
         \/ AskReplan
         \/ EndExecution
         \/ \E s \in Setters, v \in BOOLEAN : SetPlanMode(s, v)
         \/ \E s \in Setters, v \in BOOLEAN, yolo \in BOOLEAN : SetMode(s, v, yolo)
         \/ \E s \in Setters : SetExecutorPlan(s)
         \/ \E s \in Setters, m \in Modes : SetToolApprovalMode(s, m)
         \/ \E s \in Setters : BuildGate(s)
         \/ \E s \in Setters : InstallGate(s)
         \/ \E s \in Setters : ReleaseDrained(s)
         \/ UNCHANGED vars
BY DEF Next, User, TurnStep, Asker, Setter, TypeOK, SetterTypes

(* Variables that keep their values keep their types.                      *)
LEMMA SameTypes ==
  ASSUME TypeOK
  PROVE  /\ UNCHANGED modeVars => ModeTypes'
         /\ UNCHANGED promptVars => PromptTypes'
         /\ UNCHANGED turnVars => TurnTypes'
         /\ UNCHANGED askerVars => AskerTypes'
         /\ UNCHANGED setterVars => SetterTypes'
BY DEF TypeOK, ModeTypes, modeVars, PromptTypes, promptVars, TurnTypes, turnVars, AskerTypes, askerVars, SetterTypes,
       setterVars

(* Every step keeps the types.                                             *)
LEMMA TypeStep ==
  ASSUME TypeOK, LockInv, [Next]_vars
  PROVE  TypeOK'
<1>1. ASSUME NEW c \in Callers, NEW k \in Kinds \ {"plan"}, Call(c, k) PROVE
     TypeOK'
  <2>1. AskerTypes'
    BY <1>1, Distinct DEF Call, TypeOK, AskerTypes, Askers, Kinds, ToolKinds,
         Replies
  <2>2. ModeTypes' /\ PromptTypes' /\ TurnTypes' /\ SetterTypes'
    BY <1>1, SameTypes DEF Call
  <2>. QED
    BY <2>1, <2>2 DEF TypeOK
<1>2. ASSUME NEW a \in Askers, Check(a) PROVE TypeOK'
  <2>1. AskerTypes'
    BY <1>2, Distinct DEF Check, Finish, Goto, TypeOK, AskerTypes, Askers,
         Kinds, ToolKinds, Replies, PromptTypes
  <2>2. ModeTypes' /\ PromptTypes' /\ TurnTypes' /\ SetterTypes'
    BY <1>2, SameTypes DEF Check
  <2>. QED
    BY <2>1, <2>2 DEF TypeOK
<1>3. ASSUME NEW a \in Askers, LockPrompt(a) PROVE TypeOK'
  <2>1. PromptTypes'
    BY <1>3, Distinct DEF LockPrompt, Goto, PromptMuFree, TypeOK,
         PromptTypes, Askers, Replies, ToolKinds
  <2>2. AskerTypes'
    BY <1>3, Distinct DEF LockPrompt, Goto, PromptMuFree, TypeOK, AskerTypes,
         Askers, Kinds, ToolKinds, Replies
  <2>3. ModeTypes' /\ TurnTypes' /\ SetterTypes'
    BY <1>3, SameTypes DEF LockPrompt
  <2>. QED
    BY <2>1, <2>2, <2>3 DEF TypeOK
<1>4. ASSUME NEW a \in Askers, Register(a) PROVE TypeOK'
  <2>1. PromptTypes'
    <3>1. CASE LookedAtAgain(a)
      BY <1>4, <3>1 DEF Register, TypeOK, PromptTypes
    <3>2. CASE ~LookedAtAgain(a) /\ kind[a] = "question"
      BY <1>4, <3>2 DEF Register, TypeOK, PromptTypes
    <3>3. CASE ~LookedAtAgain(a) /\ kind[a] # "question"
      <4>1. kind[a] \in ToolKinds \cup {"plan"}
        BY <3>3 DEF TypeOK, AskerTypes, Kinds
      <4>2. AutoDrain(kind[a]) \in BOOLEAN
        BY DEF AutoDrain
      <4>. QED
        <5>1. PICK i \in PromptIds :
                approvals' = [j \in DOMAIN approvals \cup {i} |->
                   IF j = i
                   THEN [kind |-> kind[a], autoDrain |-> AutoDrain(kind[a])]
                   ELSE approvals[j]]
          BY <1>4, <3>3 DEF Register
        <5>2. DOMAIN approvals' \in SUBSET PromptIds
          BY <5>1 DEF TypeOK, PromptTypes
        <5>3. \A j \in DOMAIN approvals' :
                approvals'[j] \in [kind : ToolKinds \cup {"plan"}, autoDrain : BOOLEAN]
          BY <5>1, <4>1, <4>2 DEF TypeOK, PromptTypes
        <5>4. UNCHANGED <<granted, asks, reply, promptMu>>
          BY <1>4, <3>3 DEF Register
        <5>. QED
          BY <5>2, <5>3, <5>4 DEF TypeOK, PromptTypes
    <3>. QED
      BY <3>1, <3>2, <3>3
  <2>2. AskerTypes'
    <3>1. CASE LookedAtAgain(a)
      BY <1>4, <3>1 DEF Register, Finish, TypeOK, AskerTypes, Kinds, ToolKinds,
           Replies
    <3>2. CASE ~LookedAtAgain(a)
      BY <1>4, <3>2 DEF Register, TypeOK, AskerTypes
    <3>. QED
      BY <3>1, <3>2
  <2>3. ModeTypes' /\ TurnTypes' /\ SetterTypes'
    BY <1>4, SameTypes DEF Register
  <2>. QED
    BY <2>1, <2>2, <2>3 DEF TypeOK
<1>5. ASSUME NEW a \in Askers, TakeReply(a) PROVE TypeOK'
  <2>1. PromptTypes'
    BY <1>5, Distinct DEF TakeReply, Finish, Grantable, TypeOK, PromptTypes,
         Askers, Replies, ToolKinds, AskerTypes
  <2>2. AskerTypes'
    <3>1. /\ pc' = [pc EXCEPT ![a] = "idle"]
          /\ id' = [id EXCEPT ![a] = NoId]
          /\ kind' = [kind EXCEPT ![a] = IF a = Turn THEN "plan" ELSE "write"]
      BY <1>5 DEF TakeReply, Finish
    <3>2. id[a] # NoId
      BY <1>5 DEF TakeReply, LockInv
    <3>3. reply[id[a]] \in Replies
      BY <1>5, <3>2 DEF TypeOK, AskerTypes, PromptTypes
    <3>4. decision' \in Replies \cup {"rule", "aborted"}
      BY <1>5, <3>3 DEF TakeReply, Finish, Told, Replies, TypeOK, AskerTypes
    <3>. QED
      BY <3>1, <3>4 DEF TypeOK, AskerTypes, Kinds, ToolKinds
  <2>3. ModeTypes' /\ TurnTypes' /\ SetterTypes'
    BY <1>5, SameTypes DEF TakeReply
  <2>. QED
    BY <2>1, <2>2, <2>3 DEF TypeOK
<1>6. ASSUME NEW a \in Askers, Abort(a) PROVE TypeOK'
  <2>1. PromptTypes'
    BY <1>6, Distinct DEF Abort, Finish, Without, SeesCancel, TypeOK,
         PromptTypes, Askers, Replies, ToolKinds, AskerTypes
  <2>2. AskerTypes'
    BY <1>6, Distinct DEF Abort, Finish, Without, SeesCancel, TypeOK,
         AskerTypes, Askers, Kinds, ToolKinds, Replies
  <2>3. ModeTypes' /\ TurnTypes' /\ SetterTypes'
    BY <1>6, SameTypes DEF Abort
  <2>. QED
    BY <2>1, <2>2, <2>3 DEF TypeOK
<1>7. ASSUME NEW i \in PromptIds, NEW answer \in {"yes", "session", "no"},
     Approve(i, answer) PROVE TypeOK'
  <2>1. PromptTypes'
    BY <1>7, Distinct DEF Approve, Without, TypeOK, PromptTypes, Askers,
         Replies, ToolKinds
  <2>2. ModeTypes' /\ TurnTypes' /\ AskerTypes' /\ SetterTypes'
    BY <1>7, SameTypes DEF Approve
  <2>. QED
    BY <2>1, <2>2 DEF TypeOK
<1>8. ASSUME NEW i \in PromptIds, AnswerQuestion(i) PROVE TypeOK'
  <2>1. PromptTypes'
    BY <1>8, Distinct DEF AnswerQuestion, TypeOK, PromptTypes, Askers,
         Replies, ToolKinds
  <2>2. ModeTypes' /\ TurnTypes' /\ AskerTypes' /\ SetterTypes'
    BY <1>8, SameTypes DEF AnswerQuestion
  <2>. QED
    BY <2>1, <2>2 DEF TypeOK
<1>9. CASE StartTurn
  <2>1. TurnTypes'
    BY <1>9, Distinct DEF StartTurn, TypeOK, TurnTypes
  <2>2. AskerTypes'
    BY <1>9, Distinct DEF StartTurn, TypeOK, AskerTypes, Askers, Kinds,
         ToolKinds, Replies
  <2>3. ModeTypes' /\ PromptTypes' /\ SetterTypes'
    BY <1>9, SameTypes DEF StartTurn
  <2>. QED
    BY <2>1, <2>2, <2>3 DEF TypeOK
<1>10. CASE Cancel
  <2>1. TurnTypes'
    BY <1>10, Distinct DEF Cancel, TypeOK, TurnTypes
  <2>2. ModeTypes' /\ PromptTypes' /\ AskerTypes' /\ SetterTypes'
    BY <1>10, SameTypes DEF Cancel
  <2>. QED
    BY <2>1, <2>2 DEF TypeOK
<1>11. ASSUME NEW proposal \in BOOLEAN, EndRun(proposal) PROVE TypeOK'
  <2>1. TurnTypes'
    BY <1>11, Distinct DEF EndRun, TypeOK, TurnTypes
  <2>2. AskerTypes'
    BY <1>11, Distinct DEF EndRun, TypeOK, AskerTypes, Askers, Kinds,
         ToolKinds, Replies
  <2>3. ModeTypes' /\ PromptTypes' /\ SetterTypes'
    BY <1>11, SameTypes DEF EndRun
  <2>. QED
    BY <2>1, <2>2, <2>3 DEF TypeOK
<1>12. CASE PlanDecided
  <2>1. ModeTypes'
    BY <1>12, Distinct DEF PlanDecided, TypeOK, ModeTypes, Modes, modeVars
  <2>2. TurnTypes'
    BY <1>12, Distinct DEF PlanDecided, TypeOK, TurnTypes
  <2>3. PromptTypes' /\ AskerTypes' /\ SetterTypes'
    BY <1>12, SameTypes DEF PlanDecided
  <2>. QED
    BY <2>1, <2>2, <2>3 DEF TypeOK
<1>13. CASE PlanOff
  <2>1. ModeTypes'
    BY <1>13, Distinct DEF PlanOff, TypeOK, ModeTypes, Modes, modeVars
  <2>2. TurnTypes'
    BY <1>13, Distinct DEF PlanOff, TypeOK, TurnTypes
  <2>3. PromptTypes' /\ AskerTypes' /\ SetterTypes'
    BY <1>13, SameTypes DEF PlanOff
  <2>. QED
    BY <2>1, <2>2, <2>3 DEF TypeOK
<1>14. CASE OpenWindow
  <2>1. ModeTypes'
    BY <1>14, Distinct DEF OpenWindow, TypeOK, ModeTypes, Modes, modeVars
  <2>2. TurnTypes'
    BY <1>14, Distinct DEF OpenWindow, TypeOK, TurnTypes
  <2>3. PromptTypes' /\ AskerTypes' /\ SetterTypes'
    BY <1>14, SameTypes DEF OpenWindow
  <2>. QED
    BY <2>1, <2>2, <2>3 DEF TypeOK
<1>15. CASE AskReplan
  <2>1. AskerTypes'
    BY <1>15, Distinct DEF AskReplan, TypeOK, AskerTypes, Askers, Kinds,
         ToolKinds, Replies
  <2>2. ModeTypes' /\ PromptTypes' /\ TurnTypes' /\ SetterTypes'
    BY <1>15, SameTypes DEF AskReplan
  <2>. QED
    BY <2>1, <2>2 DEF TypeOK
<1>16. CASE EndExecution
  <2>1. ModeTypes'
    BY <1>16, Distinct DEF EndExecution, TypeOK, ModeTypes, Modes, modeVars
  <2>2. TurnTypes'
    BY <1>16, Distinct DEF EndExecution, TypeOK, TurnTypes
  <2>3. PromptTypes' /\ AskerTypes' /\ SetterTypes'
    BY <1>16, SameTypes DEF EndExecution
  <2>. QED
    BY <2>1, <2>2, <2>3 DEF TypeOK
<1>17. ASSUME NEW s \in Setters, NEW v \in BOOLEAN, SetPlanMode(s, v) PROVE
     TypeOK'
  <2>1. ModeTypes'
    BY <1>17, Distinct DEF SetPlanMode, SetterStep, TypeOK, ModeTypes, Modes,
         modeVars
  <2>2. SetterTypes'
    BY <1>17, Distinct DEF SetPlanMode, SetterStep, TypeOK, SetterTypes,
         Modes
  <2>3. PromptTypes' /\ TurnTypes' /\ AskerTypes'
    BY <1>17, SameTypes DEF SetPlanMode
  <2>. QED
    BY <2>1, <2>2, <2>3 DEF TypeOK
<1>18. ASSUME NEW s \in Setters, NEW v \in BOOLEAN, NEW yolo \in BOOLEAN,
     SetMode(s, v, yolo) PROVE TypeOK'
  <2>1. ModeTypes'
    BY <1>18, Distinct DEF SetMode, SetterStep, TypeOK, ModeTypes, Modes,
         modeVars
  <2>2. SetterTypes'
    BY <1>18, Distinct DEF SetMode, SetterStep, TypeOK, SetterTypes, Modes
  <2>3. PromptTypes' /\ TurnTypes' /\ AskerTypes'
    BY <1>18, SameTypes DEF SetMode
  <2>. QED
    BY <2>1, <2>2, <2>3 DEF TypeOK
<1>19. ASSUME NEW s \in Setters, SetExecutorPlan(s) PROVE TypeOK'
  <2>1. ModeTypes'
    BY <1>19, Distinct DEF SetExecutorPlan, SetterStep, TypeOK, ModeTypes,
         Modes, SetterTypes, modeVars
  <2>2. SetterTypes'
    BY <1>19, Distinct DEF SetExecutorPlan, SetterStep, TypeOK, SetterTypes,
         Modes
  <2>3. PromptTypes' /\ TurnTypes' /\ AskerTypes'
    BY <1>19, SameTypes DEF SetExecutorPlan
  <2>. QED
    BY <2>1, <2>2, <2>3 DEF TypeOK
<1>20. ASSUME NEW s \in Setters, NEW m \in Modes, SetToolApprovalMode(s, m)
     PROVE TypeOK'
  <2>1. ModeTypes'
    BY <1>20, Distinct DEF SetToolApprovalMode, SetterStep, Without, Drains,
         TypeOK, ModeTypes, Modes, modeVars
  <2>2. PromptTypes'
    BY <1>20, Distinct DEF SetToolApprovalMode, SetterStep, Without, Drains,
         TypeOK, PromptTypes, Askers, Replies, ToolKinds
  <2>3. SetterTypes'
    BY <1>20, Distinct DEF SetToolApprovalMode, SetterStep, Without, Drains,
         TypeOK, SetterTypes, Modes, PromptTypes
  <2>4. TurnTypes' /\ AskerTypes'
    BY <1>20, SameTypes DEF SetToolApprovalMode
  <2>. QED
    BY <2>1, <2>2, <2>3, <2>4 DEF TypeOK
<1>21. ASSUME NEW s \in Setters, BuildGate(s) PROVE TypeOK'
  <2>1. SetterTypes'
    BY <1>21, Distinct DEF BuildGate, SetterStep, InteractiveGate, TypeOK,
         SetterTypes, Modes, ModeTypes
  <2>2. ModeTypes' /\ PromptTypes' /\ TurnTypes' /\ AskerTypes'
    BY <1>21, SameTypes DEF BuildGate
  <2>. QED
    BY <2>1, <2>2 DEF TypeOK
<1>22. ASSUME NEW s \in Setters, InstallGate(s) PROVE TypeOK'
  <2>1. ModeTypes'
    BY <1>22, Distinct DEF InstallGate, SetterStep, ClosedGate, TypeOK,
         ModeTypes, Modes, SetterTypes, modeVars
  <2>2. SetterTypes'
    BY <1>22, Distinct DEF InstallGate, SetterStep, ClosedGate, TypeOK,
         SetterTypes, Modes
  <2>3. PromptTypes' /\ TurnTypes' /\ AskerTypes'
    BY <1>22, SameTypes DEF InstallGate
  <2>. QED
    BY <2>1, <2>2, <2>3 DEF TypeOK
<1>23. ASSUME NEW s \in Setters, ReleaseDrained(s) PROVE TypeOK'
  <2>1. PromptTypes'
    BY <1>23, Distinct DEF ReleaseDrained, SetterStep, Released, TypeOK,
         PromptTypes, Askers, Replies, ToolKinds
  <2>2. SetterTypes'
    BY <1>23, Distinct DEF ReleaseDrained, SetterStep, Released, TypeOK,
         SetterTypes, Modes
  <2>3. ModeTypes' /\ TurnTypes' /\ AskerTypes'
    BY <1>23, SameTypes DEF ReleaseDrained
  <2>. QED
    BY <2>1, <2>2, <2>3 DEF TypeOK
<1>24. CASE UNCHANGED vars
  BY <1>24, SameTypes DEF vars, TypeOK
<1>. QED
  BY StepCases, <1>1, <1>2, <1>3, <1>4, <1>5, <1>6, <1>7, <1>8, <1>9, <1>10,
       <1>11, <1>12, <1>13, <1>14, <1>15, <1>16, <1>17, <1>18, <1>19, <1>20,
       <1>21, <1>22, <1>23, <1>24

(* Every step keeps the turn's phases and its own prompts in step.         *)
LEMMA TurnInvStep ==
  ASSUME TypeOK, TurnInv, LockInv, [Next]_vars
  PROVE  TurnInv'
<1>. USE Distinct DEF TurnInv
<1>1. ASSUME NEW c \in Callers, NEW k \in Kinds \ {"plan"}, Call(c, k) PROVE
     TurnInv'
  BY <1>1 DEF Call, turnVars, TypeOK, AskerTypes, Askers, LockInv
<1>2. ASSUME NEW a \in Askers, Check(a) PROVE TurnInv'
  BY <1>2 DEF Check, Finish, Goto, turnVars, TypeOK, AskerTypes, Askers,
       LockInv
<1>3. ASSUME NEW a \in Askers, LockPrompt(a) PROVE TurnInv'
  BY <1>3 DEF LockPrompt, Goto, PromptMuFree, turnVars, TypeOK, AskerTypes,
       Askers, LockInv
<1>4. ASSUME NEW a \in Askers, Register(a) PROVE TurnInv'
  BY <1>4 DEF Register, Finish, LookedAtAgain, AutoDrain, InUse, turnVars,
       TypeOK, AskerTypes, Askers, LockInv
<1>5. ASSUME NEW a \in Askers, TakeReply(a) PROVE TurnInv'
  BY <1>5 DEF TakeReply, Finish, Grantable, turnVars, TypeOK, AskerTypes,
       Askers, LockInv
<1>6. ASSUME NEW a \in Askers, Abort(a) PROVE TurnInv'
  BY <1>6 DEF Abort, Finish, Without, SeesCancel, turnVars, TypeOK,
       AskerTypes, Askers, LockInv
<1>7. ASSUME NEW i \in PromptIds, NEW answer \in {"yes", "session", "no"},
     Approve(i, answer) PROVE TurnInv'
  BY <1>7 DEF Approve, askerVars, turnVars
<1>8. ASSUME NEW i \in PromptIds, AnswerQuestion(i) PROVE TurnInv'
  BY <1>8 DEF AnswerQuestion, askerVars, turnVars
<1>9. CASE StartTurn
  BY <1>9 DEF StartTurn, TypeOK, AskerTypes, Askers, LockInv
<1>10. CASE Cancel
  BY <1>10 DEF Cancel, askerVars
<1>11. ASSUME NEW proposal \in BOOLEAN, EndRun(proposal) PROVE TurnInv'
  BY <1>11 DEF EndRun, TypeOK, AskerTypes, Askers, LockInv
<1>12. CASE PlanDecided
  BY <1>12 DEF PlanDecided, askerVars
<1>13. CASE PlanOff
  BY <1>13 DEF PlanOff, askerVars
<1>14. CASE OpenWindow
  BY <1>14 DEF OpenWindow, askerVars
<1>15. CASE AskReplan
  BY <1>15 DEF AskReplan, turnVars, TypeOK, AskerTypes, Askers, LockInv
<1>16. CASE EndExecution
  BY <1>16 DEF EndExecution, askerVars
<1>17. ASSUME NEW s \in Setters, NEW v \in BOOLEAN, SetPlanMode(s, v) PROVE
     TurnInv'
  BY <1>17 DEF SetPlanMode, askerVars, turnVars
<1>18. ASSUME NEW s \in Setters, NEW v \in BOOLEAN, NEW yolo \in BOOLEAN,
     SetMode(s, v, yolo) PROVE TurnInv'
  BY <1>18 DEF SetMode, askerVars, turnVars
<1>19. ASSUME NEW s \in Setters, SetExecutorPlan(s) PROVE TurnInv'
  BY <1>19 DEF SetExecutorPlan, askerVars, turnVars
<1>20. ASSUME NEW s \in Setters, NEW m \in Modes, SetToolApprovalMode(s, m)
     PROVE TurnInv'
  BY <1>20 DEF SetToolApprovalMode, askerVars, turnVars
<1>21. ASSUME NEW s \in Setters, BuildGate(s) PROVE TurnInv'
  BY <1>21 DEF BuildGate, askerVars, turnVars
<1>22. ASSUME NEW s \in Setters, InstallGate(s) PROVE TurnInv'
  BY <1>22 DEF InstallGate, askerVars, turnVars
<1>23. ASSUME NEW s \in Setters, ReleaseDrained(s) PROVE TurnInv'
  BY <1>23 DEF ReleaseDrained, askerVars, turnVars
<1>24. CASE UNCHANGED vars
  BY <1>24 DEF vars, turnVars, askerVars
<1>. QED
  BY StepCases, <1>1, <1>2, <1>3, <1>4, <1>5, <1>6, <1>7, <1>8, <1>9, <1>10,
       <1>11, <1>12, <1>13, <1>14, <1>15, <1>16, <1>17, <1>18, <1>19, <1>20,
       <1>21, <1>22, <1>23, <1>24

(* Every step keeps the setters' phases and drained prompts in step.       *)
LEMMA DrainInvStep ==
  ASSUME TypeOK, DrainInv, [Next]_vars
  PROVE  DrainInv'
<1>. USE DEF DrainInv
<1>1. ASSUME NEW c \in Callers, NEW k \in Kinds \ {"plan"}, Call(c, k) PROVE
     DrainInv'
  BY <1>1 DEF Call, setterVars
<1>2. ASSUME NEW a \in Askers, Check(a) PROVE DrainInv'
  BY <1>2 DEF Check, setterVars
<1>3. ASSUME NEW a \in Askers, LockPrompt(a) PROVE DrainInv'
  BY <1>3 DEF LockPrompt, setterVars
<1>4. ASSUME NEW a \in Askers, Register(a) PROVE DrainInv'
  BY <1>4 DEF Register, setterVars
<1>5. ASSUME NEW a \in Askers, TakeReply(a) PROVE DrainInv'
  BY <1>5 DEF TakeReply, setterVars
<1>6. ASSUME NEW a \in Askers, Abort(a) PROVE DrainInv'
  BY <1>6 DEF Abort, setterVars
<1>7. ASSUME NEW i \in PromptIds, NEW answer \in {"yes", "session", "no"},
     Approve(i, answer) PROVE DrainInv'
  BY <1>7 DEF Approve, setterVars
<1>8. ASSUME NEW i \in PromptIds, AnswerQuestion(i) PROVE DrainInv'
  BY <1>8 DEF AnswerQuestion, setterVars
<1>9. CASE StartTurn
  BY <1>9 DEF StartTurn, setterVars
<1>10. CASE Cancel
  BY <1>10 DEF Cancel, setterVars
<1>11. ASSUME NEW proposal \in BOOLEAN, EndRun(proposal) PROVE DrainInv'
  BY <1>11 DEF EndRun, setterVars
<1>12. CASE PlanDecided
  BY <1>12 DEF PlanDecided, setterVars
<1>13. CASE PlanOff
  BY <1>13 DEF PlanOff, setterVars
<1>14. CASE OpenWindow
  BY <1>14 DEF OpenWindow, setterVars
<1>15. CASE AskReplan
  BY <1>15 DEF AskReplan, setterVars
<1>16. CASE EndExecution
  BY <1>16 DEF EndExecution, setterVars
<1>17. ASSUME NEW s \in Setters, NEW v \in BOOLEAN, SetPlanMode(s, v) PROVE
     DrainInv'
  BY <1>17 DEF SetPlanMode, SetterStep, TypeOK, SetterTypes
<1>18. ASSUME NEW s \in Setters, NEW v \in BOOLEAN, NEW yolo \in BOOLEAN,
     SetMode(s, v, yolo) PROVE DrainInv'
  BY <1>18 DEF SetMode, SetterStep, TypeOK, SetterTypes
<1>19. ASSUME NEW s \in Setters, SetExecutorPlan(s) PROVE DrainInv'
  BY <1>19 DEF SetExecutorPlan, SetterStep, TypeOK, SetterTypes
<1>20. ASSUME NEW s \in Setters, NEW m \in Modes, SetToolApprovalMode(s, m)
     PROVE DrainInv'
  BY <1>20 DEF SetToolApprovalMode, SetterStep, TypeOK, SetterTypes
<1>21. ASSUME NEW s \in Setters, BuildGate(s) PROVE DrainInv'
  BY <1>21 DEF BuildGate, SetterStep, TypeOK, SetterTypes
<1>22. ASSUME NEW s \in Setters, InstallGate(s) PROVE DrainInv'
  BY <1>22 DEF InstallGate, SetterStep, TypeOK, SetterTypes
<1>23. ASSUME NEW s \in Setters, ReleaseDrained(s) PROVE DrainInv'
  BY <1>23 DEF ReleaseDrained, SetterStep, TypeOK, SetterTypes
<1>24. CASE UNCHANGED vars
  BY <1>24 DEF vars, setterVars
<1>. QED
  BY StepCases, <1>1, <1>2, <1>3, <1>4, <1>5, <1>6, <1>7, <1>8, <1>9, <1>10,
       <1>11, <1>12, <1>13, <1>14, <1>15, <1>16, <1>17, <1>18, <1>19, <1>20,
       <1>21, <1>22, <1>23, <1>24

-----------------------------------------------------------------------------
(* Two askers never wait on the same prompt.                               *)
LEMMA OneWaits ==
  ASSUME LockInv, NEW a \in Askers, NEW b \in Askers, id[a] # NoId, id[b] # NoId
  PROVE  a = b
BY DEF LockInv

(* What a step that touches no prompt and moves no asker leaves alone.     *)
LEMMA QuietStep ==
  ASSUME IInv, UNCHANGED promptVars, UNCHANGED <<mode, pc, kind, id, drained>>,
         decision' \in {decision, "none"}
  PROVE  Safe'
<1>. USE DEF promptVars
<1>1. LockInv'
  BY DEF IInv, Safe, LockInv
<1>2. OwnerInv'
  BY DEF IInv, Safe, OwnerInv, Open
<1>3. KindInv'
  BY DEF IInv, Safe, KindInv
<1>4. Answerable'
  BY DEF IInv, Safe, Answerable, Open
<1>5. YoloAsksForNoTool'
  BY DEF IInv, Safe, YoloAsksForNoTool
<1>6. GrantedIsNotAsked'
  BY DEF IInv, Safe, GrantedIsNotAsked
<1>7. UserDecides'
  BY DEF IInv, Safe, UserDecides
<1>. QED
  BY <1>1, <1>2, <1>3, <1>4, <1>5, <1>6, <1>7 DEF Safe

LEMMA SafeCall ==
  ASSUME IInv, TypeOK', NEW c \in Callers, NEW k \in Kinds \ {"plan"},
       Call(c, k)
  PROVE  Safe'
<1>. USE Distinct DEF IInv, Safe, TypeOK
<1>1. LockInv'
  BY DEF Call, LockInv, Askers, PromptTypes, AskerTypes, Kinds, ToolKinds,
       modeVars, promptVars, turnVars, setterVars
<1>2. OwnerInv'
  BY DEF Call, OwnerInv, Open, Askers, LockInv, PromptTypes, SetterTypes,
       AskerTypes, Kinds, ToolKinds, modeVars, promptVars, turnVars,
       setterVars
<1>3. KindInv'
  BY DEF Call, KindInv, Askers, OwnerInv, LockInv, PromptTypes, SetterTypes,
       AskerTypes, Kinds, ToolKinds, modeVars, promptVars, turnVars,
       setterVars
<1>4. Answerable'
  BY DEF Call, Answerable, Open, Askers, OwnerInv, LockInv, PromptTypes,
       SetterTypes, AskerTypes, Kinds, ToolKinds, modeVars, promptVars,
       turnVars, setterVars
<1>5. YoloAsksForNoTool'
  BY DEF Call, YoloAsksForNoTool, Askers, OwnerInv, AskerTypes, Kinds,
       ToolKinds, modeVars, promptVars, turnVars, setterVars
<1>6. GrantedIsNotAsked'
  BY DEF Call, GrantedIsNotAsked, Askers, OwnerInv, LockInv, PromptTypes,
       AskerTypes, Kinds, ToolKinds, modeVars, promptVars, turnVars,
       setterVars
<1>7. UserDecides'
  BY DEF Call, UserDecides, Askers, KindInv, OwnerInv, LockInv, AskerTypes,
       Kinds, ToolKinds, modeVars, promptVars, turnVars, setterVars
<1>. QED
  BY <1>1, <1>2, <1>3, <1>4, <1>5, <1>6, <1>7

LEMMA SafeCheck ==
  ASSUME IInv, TypeOK', NEW a \in Askers, Check(a)
  PROVE  Safe'
<1>. USE Distinct DEF IInv, Safe, TypeOK
<1>1. LockInv'
  BY DEF Check, Finish, Goto, LockInv, Askers, PromptTypes, AskerTypes,
       Kinds, ToolKinds, modeVars, promptVars, turnVars, setterVars
<1>2. OwnerInv'
  BY DEF Check, Finish, Goto, OwnerInv, Open, Askers, LockInv, PromptTypes,
       SetterTypes, AskerTypes, Kinds, ToolKinds, modeVars, promptVars,
       turnVars, setterVars
<1>3. KindInv'
  <2>1. \A b \in Askers :
          /\ kind'[b] = kind[b] \/ (b = a /\ kind'[b] = IF a = Turn THEN "plan" ELSE "write")
          /\ pc'[b] = "checking" => pc[b] = "checking" /\ kind'[b] = kind[b]
          /\ id'[b] = IF b = a THEN NoId ELSE id[b]
    BY DEF Check, Finish, Goto, LockInv, AskerTypes
  <2>2. \A b \in Askers : id'[b] # NoId => b # a /\ kind'[b] = kind[b]
    BY <2>1 DEF Check, Finish, Goto, LockInv, AskerTypes
  <2>3. UNCHANGED <<approvals, asks, drained>>
    BY DEF Check, promptVars, setterVars
  <2>4. NoId \notin asks /\ NoId \notin DOMAIN approvals
    BY DEF PromptTypes
  <2>5. \A s \in Setters : NoId \notin drained[s]
    BY DEF SetterTypes
  <2>. QED
    BY <2>1, <2>2, <2>3, <2>4, <2>5 DEF KindInv
<1>4. Answerable'
  BY DEF Check, Finish, Goto, Answerable, Open, Askers, OwnerInv, LockInv,
       PromptTypes, SetterTypes, AskerTypes, Kinds, ToolKinds, modeVars,
       promptVars, turnVars, setterVars
<1>5. YoloAsksForNoTool'
  BY DEF Check, Finish, Goto, YoloAsksForNoTool, Askers, OwnerInv,
       AskerTypes, Kinds, ToolKinds, modeVars, promptVars, turnVars,
       setterVars
<1>6. GrantedIsNotAsked'
  BY DEF Check, Finish, Goto, GrantedIsNotAsked, Askers, OwnerInv, LockInv,
       PromptTypes, AskerTypes, Kinds, ToolKinds, modeVars, promptVars,
       turnVars, setterVars
<1>7. UserDecides'
  BY DEF Check, Finish, Goto, UserDecides, Askers, KindInv, OwnerInv,
       LockInv, LetThrough, Bypass, PromptTypes, AskerTypes, Kinds,
       ToolKinds, modeVars, promptVars, turnVars, setterVars
<1>. QED
  BY <1>1, <1>2, <1>3, <1>4, <1>5, <1>6, <1>7

LEMMA SafeLockPrompt ==
  ASSUME IInv, TypeOK', NEW a \in Askers, LockPrompt(a)
  PROVE  Safe'
<1>. USE Distinct DEF IInv, Safe, TypeOK
<1>1. LockInv'
  BY DEF LockPrompt, Goto, PromptMuFree, LockInv, Askers, PromptTypes,
       AskerTypes, Kinds, ToolKinds, modeVars, turnVars, setterVars
<1>2. OwnerInv'
  BY DEF LockPrompt, Goto, PromptMuFree, OwnerInv, Open, Askers, LockInv,
       PromptTypes, SetterTypes, AskerTypes, Kinds, ToolKinds, modeVars,
       turnVars, setterVars
<1>3. KindInv'
  BY DEF LockPrompt, Goto, PromptMuFree, KindInv, Askers, OwnerInv, LockInv,
       PromptTypes, SetterTypes, AskerTypes, Kinds, ToolKinds, modeVars,
       turnVars, setterVars
<1>4. Answerable'
  BY DEF LockPrompt, Goto, PromptMuFree, Answerable, Open, Askers, OwnerInv,
       LockInv, PromptTypes, SetterTypes, AskerTypes, Kinds, ToolKinds,
       modeVars, turnVars, setterVars
<1>5. YoloAsksForNoTool'
  BY DEF LockPrompt, Goto, PromptMuFree, YoloAsksForNoTool, Askers, OwnerInv,
       AskerTypes, Kinds, ToolKinds, modeVars, turnVars, setterVars
<1>6. GrantedIsNotAsked'
  BY DEF LockPrompt, Goto, PromptMuFree, GrantedIsNotAsked, Askers, OwnerInv,
       LockInv, PromptTypes, AskerTypes, Kinds, ToolKinds, modeVars,
       turnVars, setterVars
<1>7. UserDecides'
  BY DEF LockPrompt, Goto, PromptMuFree, UserDecides, Askers, KindInv,
       OwnerInv, LockInv, AskerTypes, Kinds, ToolKinds, modeVars, turnVars,
       setterVars
<1>. QED
  BY <1>1, <1>2, <1>3, <1>4, <1>5, <1>6, <1>7

LEMMA SafeRegister ==
  ASSUME IInv, TypeOK', NEW a \in Askers, Register(a)
  PROVE  Safe'
<1>. USE Distinct DEF IInv, Safe, TypeOK
<1>. DEFINE here == /\ pc[a] = "locked"
                    /\ promptMu = a
                    /\ id[a] = NoId
                    /\ UNCHANGED <<mode, drained>>
<1>1. here
  BY DEF Register, LockInv, modeVars, setterVars
<1>2. a = Turn <=> kind[a] = "plan"
  BY DEF KindInv
<1>3. CASE LookedAtAgain(a)
  <2>a. /\ pc' = [pc EXCEPT ![a] = "idle"]
        /\ id' = [id EXCEPT ![a] = NoId]
        /\ kind' = [kind EXCEPT ![a] = IF a = Turn THEN "plan" ELSE "write"]
        /\ promptMu' = Nobody
        /\ UNCHANGED <<granted, approvals, asks, reply>>
    BY <1>3 DEF Register, Finish
  <2>b. a # Turn /\ UNCHANGED decision
    BY <1>2, <1>3 DEF Register, Finish, LookedAtAgain, LetThrough, Bypass,
         PromptTypes, ToolKinds
  <2>c. \A b \in Askers : /\ pc'[b] = IF b = a THEN "idle" ELSE pc[b]
                          /\ id'[b] = IF b = a THEN NoId ELSE id[b]
                          /\ kind'[b] = IF b = a THEN "write" ELSE kind[b]
    BY <2>a, <2>b DEF AskerTypes
  <2>1. LockInv'
    BY <1>1, <2>a, <2>b, <2>c DEF LockInv, Askers
  <2>2. OwnerInv'
    BY <1>1, <2>a, <2>b, <2>c DEF OwnerInv, Open, PromptTypes
  <2>3. KindInv'
    BY <1>1, <2>a, <2>b, <2>c DEF KindInv, Kinds, ToolKinds, PromptTypes, SetterTypes
  <2>4. Answerable'
    BY <1>1, <2>a, <2>b, <2>c DEF Answerable, Open
  <2>5. YoloAsksForNoTool'
    BY <1>1, <2>a, <2>b, <2>c DEF YoloAsksForNoTool
  <2>6. GrantedIsNotAsked'
    BY <1>1, <2>a, <2>b, <2>c DEF GrantedIsNotAsked
  <2>7. UserDecides'
    BY <1>1, <2>a, <2>b, <2>c DEF UserDecides, Askers
  <2>. QED
    BY <2>1, <2>2, <2>3, <2>4, <2>5, <2>6, <2>7
<1>4. CASE ~LookedAtAgain(a) /\ kind[a] = "question"
  <2>0. PICK i \in PromptIds \ InUse : /\ id' = [id EXCEPT ![a] = i]
                                       /\ asks' = asks \cup {i}
    BY <1>4 DEF Register
  <2>a. /\ pc' = [pc EXCEPT ![a] = "blocked"]
        /\ UNCHANGED <<kind, decision, granted, approvals, reply, promptMu>>
    BY <1>4 DEF Register
  <2>b. /\ i # NoId /\ i \notin Open
        /\ \A b \in Askers : id[b] # i
        /\ \A s \in Setters : i \notin drained[s]
    BY DEF InUse, Open
  <2>c. \A b \in Askers : /\ pc'[b] = IF b = a THEN "blocked" ELSE pc[b]
                          /\ id'[b] = IF b = a THEN i ELSE id[b]
    BY <2>0, <2>a DEF AskerTypes
  <2>d. reply[i] = "none"
    BY <2>b DEF OwnerInv
  <2>1. LockInv'
    BY <1>1, <1>2, <1>4, <2>0, <2>a, <2>b, <2>c, <2>d DEF LockInv
  <2>2. OwnerInv'
    <3>1. ASSUME NEW j \in Open' PROVE \E b \in Askers : id'[b] = j
      <4>1. CASE j = i
        BY <2>c, <4>1
      <4>2. CASE j # i
        <5>1. j \in Open
          BY <1>1, <1>2, <1>4, <2>0, <2>a, <2>b, <2>c, <2>d, <4>2 DEF Open
        <5>2. PICK b \in Askers : id[b] = j
          BY <5>1 DEF OwnerInv
        <5>3. j # NoId
          BY <5>1 DEF Open, PromptTypes
        <5>. QED
          BY <1>1, <2>c, <5>2, <5>3
      <4>. QED
        BY <4>1, <4>2
    <3>2. DOMAIN approvals' \cap asks' = {}
      BY <1>1, <1>2, <1>4, <2>0, <2>a, <2>b, <2>c, <2>d DEF OwnerInv, Open
    <3>3. \A s \in Setters : drained'[s] \cap Open' = {}
      BY <1>1, <1>2, <1>4, <2>0, <2>a, <2>b, <2>c, <2>d DEF OwnerInv, Open
    <3>4. \A j \in PromptIds : reply'[j] # "none" =>
            j \notin Open' /\ \E b \in Askers : id'[b] = j
      BY <1>1, <1>2, <1>4, <2>0, <2>a, <2>b, <2>c, <2>d DEF OwnerInv, Open
    <3>. QED
      BY <3>1, <3>2, <3>3, <3>4 DEF OwnerInv
  <2>3. KindInv'
    <3>1. \A b \in Askers : kind'[b] = "plan" <=> b = Turn
      BY <1>1, <1>2, <1>4, <2>0, <2>a, <2>b, <2>c, <2>d DEF KindInv
    <3>2. \A b \in Askers : kind'[b] = "question" => pc'[b] # "checking"
      BY <1>1, <1>2, <1>4, <2>0, <2>a, <2>b, <2>c, <2>d DEF KindInv
    <3>3. \A j \in DOMAIN approvals', b \in Askers :
            id'[b] = j => approvals'[j].kind = kind'[b]
      BY <1>1, <1>2, <1>4, <2>0, <2>a, <2>b, <2>c, <2>d DEF KindInv, Open
    <3>4. \A j \in asks', b \in Askers : id'[b] = j => kind'[b] = "question"
      BY <1>1, <1>2, <1>4, <2>0, <2>a, <2>b, <2>c, <2>d DEF KindInv, Open
    <3>5. \A s \in Setters, b \in Askers :
            id'[b] \in drained'[s] => kind'[b] \in ToolKinds
      BY <1>1, <1>2, <1>4, <2>0, <2>a, <2>b, <2>c, <2>d DEF KindInv
    <3>. QED
      BY <3>1, <3>2, <3>3, <3>4, <3>5 DEF KindInv
  <2>4. Answerable'
    BY <1>1, <1>2, <1>4, <2>0, <2>a, <2>b, <2>c, <2>d DEF Answerable, Open
  <2>5. YoloAsksForNoTool'
    BY <1>1, <1>2, <1>4, <2>0, <2>a, <2>b, <2>c, <2>d DEF YoloAsksForNoTool
  <2>6. GrantedIsNotAsked'
    BY <1>1, <1>2, <1>4, <2>0, <2>a, <2>b, <2>c, <2>d DEF GrantedIsNotAsked
  <2>7. UserDecides'
    BY <1>1, <1>2, <1>4, <2>0, <2>a, <2>b, <2>c, <2>d DEF UserDecides, Askers
  <2>. QED
    BY <2>1, <2>2, <2>3, <2>4, <2>5, <2>6, <2>7
<1>5. CASE ~LookedAtAgain(a) /\ kind[a] # "question"
  <2>0. PICK i \in PromptIds \ InUse :
          /\ id' = [id EXCEPT ![a] = i]
          /\ approvals' = [j \in DOMAIN approvals \cup {i} |->
                IF j = i
                THEN [kind |-> kind[a], autoDrain |-> AutoDrain(kind[a])]
                ELSE approvals[j]]
    BY <1>5 DEF Register
  <2>a. /\ pc' = [pc EXCEPT ![a] = "blocked"]
        /\ UNCHANGED <<kind, decision, granted, asks, reply, promptMu>>
    BY <1>5 DEF Register
  <2>b. /\ i # NoId /\ i \notin Open
        /\ \A b \in Askers : id[b] # i
        /\ \A s \in Setters : i \notin drained[s]
    BY DEF InUse, Open
  <2>c. \A b \in Askers : /\ pc'[b] = IF b = a THEN "blocked" ELSE pc[b]
                          /\ id'[b] = IF b = a THEN i ELSE id[b]
    BY <2>0, <2>a DEF AskerTypes
  <2>d. reply[i] = "none"
    BY <2>b DEF OwnerInv
  <2>e. /\ DOMAIN approvals' = DOMAIN approvals \cup {i}
        /\ \A j \in DOMAIN approvals' :
             approvals'[j].kind = IF j = i THEN kind[a] ELSE approvals[j].kind
    BY <2>0
  <2>f. /\ mode = "yolo" => kind[a] = "plan"
        /\ kind[a] \notin granted
    BY <1>5 DEF LookedAtAgain, LetThrough, Bypass
  <2>1. LockInv'
    BY <1>1, <1>2, <1>5, <2>a, <2>b, <2>c, <2>d, <2>e, <2>f DEF LockInv
  <2>2. OwnerInv'
    <3>1. ASSUME NEW j \in Open' PROVE \E b \in Askers : id'[b] = j
      <4>1. CASE j = i
        BY <2>c, <4>1
      <4>2. CASE j # i
        <5>1. j \in Open
          BY <1>1, <1>2, <1>5, <2>a, <2>b, <2>c, <2>d, <2>e, <2>f, <4>2 DEF Open
        <5>2. PICK b \in Askers : id[b] = j
          BY <5>1 DEF OwnerInv
        <5>3. j # NoId
          BY <5>1 DEF Open, PromptTypes
        <5>. QED
          BY <1>1, <2>c, <5>2, <5>3
      <4>. QED
        BY <4>1, <4>2
    <3>2. DOMAIN approvals' \cap asks' = {}
      BY <1>1, <1>2, <1>5, <2>a, <2>b, <2>c, <2>d, <2>e, <2>f DEF OwnerInv, Open
    <3>3. \A s \in Setters : drained'[s] \cap Open' = {}
      BY <1>1, <1>2, <1>5, <2>a, <2>b, <2>c, <2>d, <2>e, <2>f DEF OwnerInv, Open
    <3>4. \A j \in PromptIds : reply'[j] # "none" =>
            j \notin Open' /\ \E b \in Askers : id'[b] = j
      BY <1>1, <1>2, <1>5, <2>a, <2>b, <2>c, <2>d, <2>e, <2>f DEF OwnerInv, Open
    <3>. QED
      BY <3>1, <3>2, <3>3, <3>4 DEF OwnerInv
  <2>3. KindInv'
    <3>1. \A b \in Askers : kind'[b] = "plan" <=> b = Turn
      BY <1>1, <1>2, <1>5, <2>a, <2>b, <2>c, <2>d, <2>e, <2>f DEF KindInv
    <3>2. \A b \in Askers : kind'[b] = "question" => pc'[b] # "checking"
      BY <1>1, <1>2, <1>5, <2>a, <2>b, <2>c, <2>d, <2>e, <2>f DEF KindInv
    <3>3. \A j \in DOMAIN approvals', b \in Askers :
            id'[b] = j => approvals'[j].kind = kind'[b]
      BY <1>1, <1>2, <1>5, <2>a, <2>b, <2>c, <2>d, <2>e, <2>f DEF KindInv, Open
    <3>4. \A j \in asks', b \in Askers : id'[b] = j => kind'[b] = "question"
      BY <1>1, <1>2, <1>5, <2>a, <2>b, <2>c, <2>d, <2>e, <2>f DEF KindInv, Open
    <3>5. \A s \in Setters, b \in Askers :
            id'[b] \in drained'[s] => kind'[b] \in ToolKinds
      BY <1>1, <1>2, <1>5, <2>a, <2>b, <2>c, <2>d, <2>e, <2>f DEF KindInv
    <3>. QED
      BY <3>1, <3>2, <3>3, <3>4, <3>5 DEF KindInv
  <2>4. Answerable'
    BY <1>1, <1>2, <1>5, <2>a, <2>b, <2>c, <2>d, <2>e, <2>f DEF Answerable, Open
  <2>5. YoloAsksForNoTool'
    BY <1>1, <1>2, <1>5, <2>a, <2>b, <2>c, <2>d, <2>e, <2>f DEF YoloAsksForNoTool
  <2>6. GrantedIsNotAsked'
    BY <1>1, <1>2, <1>5, <2>a, <2>b, <2>c, <2>d, <2>e, <2>f DEF GrantedIsNotAsked
  <2>7. UserDecides'
    BY <1>1, <1>2, <1>5, <2>a, <2>b, <2>c, <2>d, <2>e, <2>f DEF UserDecides, Askers
  <2>. QED
    BY <2>1, <2>2, <2>3, <2>4, <2>5, <2>6, <2>7
<1>. QED
  BY <1>3, <1>4, <1>5 DEF Safe

LEMMA SafeTakeReply ==
  ASSUME IInv, TypeOK', NEW a \in Askers, TakeReply(a)
  PROVE  Safe'
<1>. USE Distinct DEF IInv, Safe, TypeOK
<1>1. LockInv'
  BY DEF TakeReply, Finish, Grantable, LockInv, Askers, PromptTypes,
       AskerTypes, Kinds, ToolKinds, modeVars, turnVars, setterVars
<1>2. OwnerInv'
  BY DEF TakeReply, Finish, Grantable, OwnerInv, Open, Askers, LockInv,
       PromptTypes, SetterTypes, AskerTypes, Kinds, ToolKinds, modeVars,
       turnVars, setterVars
<1>3. KindInv'
  BY DEF TakeReply, Finish, Grantable, KindInv, Askers, OwnerInv, LockInv,
       PromptTypes, SetterTypes, AskerTypes, Kinds, ToolKinds, modeVars,
       turnVars, setterVars
<1>4. Answerable'
  BY DEF TakeReply, Finish, Grantable, Answerable, Open, Askers, OwnerInv,
       LockInv, PromptTypes, SetterTypes, AskerTypes, Kinds, ToolKinds,
       modeVars, turnVars, setterVars
<1>5. YoloAsksForNoTool'
  BY DEF TakeReply, Finish, Grantable, YoloAsksForNoTool, Askers, OwnerInv,
       AskerTypes, Kinds, ToolKinds, modeVars, turnVars, setterVars
<1>6. GrantedIsNotAsked'
  <2>1. SUFFICES ASSUME NEW i \in DOMAIN approvals PROVE FALSE
    BY DEF TakeReply, GrantedIsNotAsked
  <2>2. PICK b \in Askers : id[b] = i
    BY DEF OwnerInv, Open
  <2>3. i # NoId /\ reply[i] = "none"
    BY DEF OwnerInv, Open, PromptTypes
  <2>4. b = a
    BY <2>2, <2>3, OneWaits DEF TakeReply, LockInv
  <2>. QED
    BY <2>2, <2>3, <2>4 DEF TakeReply
<1>7. UserDecides'
  BY DEF TakeReply, Finish, Grantable, UserDecides, Told, Askers, KindInv,
       OwnerInv, LockInv, AskerTypes, Kinds, ToolKinds, modeVars, turnVars,
       setterVars
<1>. QED
  BY <1>1, <1>2, <1>3, <1>4, <1>5, <1>6, <1>7

LEMMA SafeAbort ==
  ASSUME IInv, TypeOK', NEW a \in Askers, Abort(a)
  PROVE  Safe'
<1>. USE Distinct DEF IInv, Safe, TypeOK
<1>1. LockInv'
  BY DEF Abort, Finish, Without, SeesCancel, LockInv, Askers, PromptTypes,
       AskerTypes, Kinds, ToolKinds, modeVars, turnVars, setterVars
<1>2. OwnerInv'
  BY DEF Abort, Finish, Without, SeesCancel, OwnerInv, Open, Askers, LockInv,
       PromptTypes, SetterTypes, AskerTypes, Kinds, ToolKinds, modeVars,
       turnVars, setterVars
<1>3. KindInv'
  BY DEF Abort, Finish, Without, SeesCancel, KindInv, Askers, OwnerInv,
       LockInv, PromptTypes, SetterTypes, AskerTypes, Kinds, ToolKinds,
       modeVars, turnVars, setterVars
<1>4. Answerable'
  BY DEF Abort, Finish, Without, SeesCancel, Answerable, Open, Askers,
       OwnerInv, LockInv, PromptTypes, SetterTypes, AskerTypes, Kinds,
       ToolKinds, modeVars, turnVars, setterVars
<1>5. YoloAsksForNoTool'
  BY DEF Abort, Finish, Without, SeesCancel, YoloAsksForNoTool, Askers,
       OwnerInv, AskerTypes, Kinds, ToolKinds, modeVars, turnVars, setterVars
<1>6. GrantedIsNotAsked'
  BY DEF Abort, Finish, Without, SeesCancel, GrantedIsNotAsked, Askers,
       OwnerInv, LockInv, PromptTypes, AskerTypes, Kinds, ToolKinds,
       modeVars, turnVars, setterVars
<1>7. UserDecides'
  BY DEF Abort, Finish, Without, SeesCancel, UserDecides, Askers, KindInv,
       OwnerInv, LockInv, AskerTypes, Kinds, ToolKinds, modeVars, turnVars,
       setterVars
<1>. QED
  BY <1>1, <1>2, <1>3, <1>4, <1>5, <1>6, <1>7

LEMMA SafeApprove ==
  ASSUME IInv, TypeOK', NEW i \in PromptIds, NEW answer \in {"yes",
       "session", "no"}, Approve(i, answer)
  PROVE  Safe'
<1>. USE Distinct DEF IInv, Safe, TypeOK
<1>1. LockInv'
  BY DEF Approve, Without, LockInv, Askers, PromptTypes, AskerTypes, Kinds,
       ToolKinds, modeVars, turnVars, askerVars, setterVars
<1>2. OwnerInv'
  BY DEF Approve, Without, OwnerInv, Open, Askers, LockInv, PromptTypes,
       SetterTypes, AskerTypes, Kinds, ToolKinds, modeVars, turnVars,
       askerVars, setterVars
<1>3. KindInv'
  BY DEF Approve, Without, KindInv, Askers, OwnerInv, LockInv, PromptTypes,
       SetterTypes, AskerTypes, Kinds, ToolKinds, modeVars, turnVars,
       askerVars, setterVars
<1>4. Answerable'
  BY DEF Approve, Without, Answerable, Open, Askers, OwnerInv, LockInv,
       PromptTypes, SetterTypes, AskerTypes, Kinds, ToolKinds, modeVars,
       turnVars, askerVars, setterVars
<1>5. YoloAsksForNoTool'
  BY DEF Approve, Without, YoloAsksForNoTool, Askers, OwnerInv, AskerTypes,
       Kinds, ToolKinds, modeVars, turnVars, askerVars, setterVars
<1>6. GrantedIsNotAsked'
  BY DEF Approve, Without, GrantedIsNotAsked, Askers, OwnerInv, LockInv,
       PromptTypes, AskerTypes, Kinds, ToolKinds, modeVars, turnVars,
       askerVars, setterVars
<1>7. UserDecides'
  BY DEF Approve, Without, UserDecides, Askers, KindInv, OwnerInv, LockInv,
       PromptTypes, AskerTypes, Kinds, ToolKinds, modeVars, turnVars,
       askerVars, setterVars
<1>. QED
  BY <1>1, <1>2, <1>3, <1>4, <1>5, <1>6, <1>7

LEMMA SafeAnswerQuestion ==
  ASSUME IInv, TypeOK', NEW i \in PromptIds, AnswerQuestion(i)
  PROVE  Safe'
<1>. USE Distinct DEF IInv, Safe, TypeOK
<1>1. LockInv'
  BY DEF AnswerQuestion, LockInv, Askers, PromptTypes, AskerTypes, Kinds,
       ToolKinds, modeVars, turnVars, askerVars, setterVars
<1>2. OwnerInv'
  BY DEF AnswerQuestion, OwnerInv, Open, Askers, LockInv, PromptTypes,
       SetterTypes, AskerTypes, Kinds, ToolKinds, modeVars, turnVars,
       askerVars, setterVars
<1>3. KindInv'
  BY DEF AnswerQuestion, KindInv, Askers, OwnerInv, LockInv, PromptTypes,
       SetterTypes, AskerTypes, Kinds, ToolKinds, modeVars, turnVars,
       askerVars, setterVars
<1>4. Answerable'
  BY DEF AnswerQuestion, Answerable, Open, Askers, OwnerInv, LockInv,
       PromptTypes, SetterTypes, AskerTypes, Kinds, ToolKinds, modeVars,
       turnVars, askerVars, setterVars
<1>5. YoloAsksForNoTool'
  BY DEF AnswerQuestion, YoloAsksForNoTool, Askers, OwnerInv, AskerTypes,
       Kinds, ToolKinds, modeVars, turnVars, askerVars, setterVars
<1>6. GrantedIsNotAsked'
  BY DEF AnswerQuestion, GrantedIsNotAsked, Askers, OwnerInv, LockInv,
       PromptTypes, AskerTypes, Kinds, ToolKinds, modeVars, turnVars,
       askerVars, setterVars
<1>7. UserDecides'
  BY DEF AnswerQuestion, UserDecides, Askers, KindInv, OwnerInv, LockInv,
       AskerTypes, Kinds, ToolKinds, modeVars, turnVars, askerVars,
       setterVars
<1>. QED
  BY <1>1, <1>2, <1>3, <1>4, <1>5, <1>6, <1>7

LEMMA SafeEndRun ==
  ASSUME IInv, TypeOK', NEW proposal \in BOOLEAN, EndRun(proposal)
  PROVE 
       Safe'
<1>. USE Distinct DEF IInv, Safe, TypeOK
<1>1. LockInv'
  BY DEF EndRun, LockInv, Askers, PromptTypes, TurnTypes, TurnInv,
       AskerTypes, Kinds, ToolKinds, modeVars, promptVars, setterVars
<1>2. OwnerInv'
  BY DEF EndRun, OwnerInv, Open, Askers, LockInv, PromptTypes, SetterTypes,
       AskerTypes, Kinds, ToolKinds, modeVars, promptVars, setterVars
<1>3. KindInv'
  BY DEF EndRun, KindInv, Askers, OwnerInv, LockInv, PromptTypes,
       SetterTypes, AskerTypes, Kinds, ToolKinds, modeVars, promptVars,
       setterVars
<1>4. Answerable'
  BY DEF EndRun, Answerable, Open, Askers, OwnerInv, LockInv, PromptTypes,
       SetterTypes, AskerTypes, Kinds, ToolKinds, modeVars, promptVars,
       setterVars
<1>5. YoloAsksForNoTool'
  BY DEF EndRun, YoloAsksForNoTool, Askers, OwnerInv, AskerTypes, Kinds,
       ToolKinds, modeVars, promptVars, setterVars
<1>6. GrantedIsNotAsked'
  BY DEF EndRun, GrantedIsNotAsked, Askers, OwnerInv, LockInv, PromptTypes,
       AskerTypes, Kinds, ToolKinds, modeVars, promptVars, setterVars
<1>7. UserDecides'
  BY DEF EndRun, UserDecides, Askers, KindInv, OwnerInv, LockInv, AskerTypes,
       Kinds, ToolKinds, modeVars, promptVars, setterVars
<1>. QED
  BY <1>1, <1>2, <1>3, <1>4, <1>5, <1>6, <1>7

LEMMA SafeAskReplan ==
  ASSUME IInv, TypeOK', AskReplan
  PROVE  Safe'
<1>. USE Distinct DEF IInv, Safe, TypeOK
<1>1. LockInv'
  BY DEF AskReplan, LockInv, Askers, PromptTypes, AskerTypes, Kinds,
       ToolKinds, modeVars, promptVars, turnVars, setterVars
<1>2. OwnerInv'
  BY DEF AskReplan, OwnerInv, Open, Askers, LockInv, PromptTypes,
       SetterTypes, AskerTypes, Kinds, ToolKinds, modeVars, promptVars,
       turnVars, setterVars
<1>3. KindInv'
  BY DEF AskReplan, KindInv, Askers, OwnerInv, LockInv, PromptTypes,
       SetterTypes, AskerTypes, Kinds, ToolKinds, modeVars, promptVars,
       turnVars, setterVars
<1>4. Answerable'
  BY DEF AskReplan, Answerable, Open, Askers, OwnerInv, LockInv, PromptTypes,
       SetterTypes, AskerTypes, Kinds, ToolKinds, modeVars, promptVars,
       turnVars, setterVars
<1>5. YoloAsksForNoTool'
  BY DEF AskReplan, YoloAsksForNoTool, Askers, OwnerInv, AskerTypes, Kinds,
       ToolKinds, modeVars, promptVars, turnVars, setterVars
<1>6. GrantedIsNotAsked'
  BY DEF AskReplan, GrantedIsNotAsked, Askers, OwnerInv, LockInv,
       PromptTypes, AskerTypes, Kinds, ToolKinds, modeVars, promptVars,
       turnVars, setterVars
<1>7. UserDecides'
  BY DEF AskReplan, UserDecides, Askers, KindInv, OwnerInv, LockInv,
       AskerTypes, Kinds, ToolKinds, modeVars, promptVars, turnVars,
       setterVars
<1>. QED
  BY <1>1, <1>2, <1>3, <1>4, <1>5, <1>6, <1>7

LEMMA SafeSetToolApprovalMode ==
  ASSUME IInv, TypeOK', NEW s \in Setters, NEW m \in Modes,
       SetToolApprovalMode(s, m)
  PROVE  Safe'
<1>. USE Distinct DEF IInv, Safe, TypeOK
<1>. DEFINE D == Drains(m)
<1>a. /\ D \subseteq DOMAIN approvals
      /\ \A i \in D : approvals[i].kind # "plan"
  BY DEF Drains, Modes
<1>b. /\ DOMAIN approvals' = DOMAIN approvals \ D
      /\ \A i \in DOMAIN approvals' : approvals'[i] = approvals[i]
      /\ drained' = [drained EXCEPT ![s] = D]
      /\ UNCHANGED <<asks, reply, id, pc, kind>>
  BY DEF SetToolApprovalMode, Without, askerVars
<1>c. \A t \in Setters : drained'[t] = IF t = s THEN D ELSE drained[t]
  BY <1>b DEF SetterTypes
<1>d. drained[s] = {}
  BY DEF SetToolApprovalMode, DrainInv
<1>. HIDE DEF D
<1>1. LockInv'
  BY DEF SetToolApprovalMode, SetterStep, Without, Drains, LockInv, Askers,
       PromptTypes, AskerTypes, Kinds, ToolKinds, turnVars, askerVars
<1>2. OwnerInv'
  BY <1>a, <1>b, <1>c, <1>d DEF OwnerInv, Open
<1>3. KindInv'
  BY <1>a, <1>b, <1>c, <1>d DEF KindInv, OwnerInv, Open, AskerTypes, PromptTypes, Kinds, ToolKinds
<1>4. Answerable'
  BY <1>a, <1>b, <1>c, <1>d DEF Answerable, Open
<1>5. YoloAsksForNoTool'
  BY DEF SetToolApprovalMode, SetterStep, Without, Drains, YoloAsksForNoTool,
       Askers, OwnerInv, AskerTypes, Kinds, ToolKinds, turnVars, askerVars
<1>6. GrantedIsNotAsked'
  BY DEF SetToolApprovalMode, SetterStep, Without, Drains, GrantedIsNotAsked,
       Askers, OwnerInv, LockInv, PromptTypes, AskerTypes, Kinds, ToolKinds,
       turnVars, askerVars
<1>7. UserDecides'
  BY DEF SetToolApprovalMode, SetterStep, Without, Drains, UserDecides,
       Askers, KindInv, OwnerInv, LockInv, AskerTypes, Kinds, ToolKinds,
       turnVars, askerVars
<1>. QED
  BY <1>1, <1>2, <1>3, <1>4, <1>5, <1>6, <1>7

LEMMA SafeReleaseDrained ==
  ASSUME IInv, TypeOK', NEW s \in Setters, ReleaseDrained(s)
  PROVE  Safe'
<1>. USE Distinct DEF IInv, Safe, TypeOK
<1>1. LockInv'
  BY DEF ReleaseDrained, SetterStep, Released, LockInv, Askers, PromptTypes,
       AskerTypes, Kinds, ToolKinds, modeVars, turnVars, askerVars
<1>2. OwnerInv'
  BY DEF ReleaseDrained, SetterStep, Released, OwnerInv, Open, Askers,
       LockInv, PromptTypes, SetterTypes, AskerTypes, Kinds, ToolKinds,
       modeVars, turnVars, askerVars
<1>3. KindInv'
  BY DEF ReleaseDrained, SetterStep, Released, KindInv, Askers, OwnerInv,
       LockInv, PromptTypes, SetterTypes, AskerTypes, Kinds, ToolKinds,
       modeVars, turnVars, askerVars
<1>4. Answerable'
  BY DEF ReleaseDrained, SetterStep, Released, Answerable, Open, Askers,
       OwnerInv, LockInv, PromptTypes, SetterTypes, AskerTypes, Kinds,
       ToolKinds, modeVars, turnVars, askerVars
<1>5. YoloAsksForNoTool'
  BY DEF ReleaseDrained, SetterStep, Released, YoloAsksForNoTool, Askers,
       OwnerInv, AskerTypes, Kinds, ToolKinds, modeVars, turnVars, askerVars
<1>6. GrantedIsNotAsked'
  BY DEF ReleaseDrained, SetterStep, Released, GrantedIsNotAsked, Askers,
       OwnerInv, LockInv, PromptTypes, AskerTypes, Kinds, ToolKinds,
       modeVars, turnVars, askerVars
<1>7. UserDecides'
  BY DEF ReleaseDrained, SetterStep, Released, UserDecides, Askers, KindInv,
       OwnerInv, LockInv, AskerTypes, Kinds, ToolKinds, modeVars, turnVars,
       askerVars
<1>. QED
  BY <1>1, <1>2, <1>3, <1>4, <1>5, <1>6, <1>7

-----------------------------------------------------------------------------
LEMMA InitIInv == Init => IInv
<1>. SUFFICES ASSUME Init PROVE IInv
  OBVIOUS
<1>. USE Distinct DEF Init
<1>1. TypeOK
  <2>1. ModeTypes
    BY DEF ModeTypes, Modes, ClosedGate
  <2>2. PromptTypes
    BY DEF PromptTypes, Replies, Askers, ToolKinds
  <2>3. TurnTypes
    BY DEF TurnTypes
  <2>4. AskerTypes
    BY DEF AskerTypes, Kinds, ToolKinds, Askers, Replies
  <2>5. SetterTypes
    BY DEF SetterTypes, Modes, ClosedGate
  <2>. QED
    BY <2>1, <2>2, <2>3, <2>4, <2>5 DEF TypeOK
<1>2. TurnInv /\ DrainInv
  BY DEF TurnInv, DrainInv, Askers
<1>3. LockInv /\ OwnerInv /\ KindInv
  BY DEF LockInv, OwnerInv, KindInv, Open, Askers
<1>4. Answerable /\ YoloAsksForNoTool /\ GrantedIsNotAsked /\ UserDecides
  BY DEF Answerable, YoloAsksForNoTool, GrantedIsNotAsked, UserDecides, Askers
<1>. QED
  BY <1>1, <1>2, <1>3, <1>4 DEF IInv, Safe

LEMMA SafeStep ==
  ASSUME IInv, TypeOK', [Next]_vars
  PROVE  Safe'
<1>0. TypeOK
  BY DEF IInv
<1>1. ASSUME NEW c \in Callers, NEW k \in Kinds \ {"plan"}, Call(c, k) PROVE
     Safe'
  BY <1>1, SafeCall
<1>2. ASSUME NEW a \in Askers, Check(a) PROVE Safe'
  BY <1>2, SafeCheck
<1>3. ASSUME NEW a \in Askers, LockPrompt(a) PROVE Safe'
  BY <1>3, SafeLockPrompt
<1>4. ASSUME NEW a \in Askers, Register(a) PROVE Safe'
  BY <1>4, SafeRegister
<1>5. ASSUME NEW a \in Askers, TakeReply(a) PROVE Safe'
  BY <1>5, SafeTakeReply
<1>6. ASSUME NEW a \in Askers, Abort(a) PROVE Safe'
  BY <1>6, SafeAbort
<1>7. ASSUME NEW i \in PromptIds, NEW answer \in {"yes", "session", "no"},
     Approve(i, answer) PROVE Safe'
  BY <1>7, SafeApprove
<1>8. ASSUME NEW i \in PromptIds, AnswerQuestion(i) PROVE Safe'
  BY <1>8, SafeAnswerQuestion
<1>9. CASE StartTurn
  BY <1>9, QuietStep DEF StartTurn, modeVars, promptVars, setterVars
<1>10. CASE Cancel
  BY <1>10, QuietStep DEF Cancel, modeVars, promptVars, askerVars, setterVars
<1>11. ASSUME NEW proposal \in BOOLEAN, EndRun(proposal) PROVE Safe'
  BY <1>11, SafeEndRun
<1>12. CASE PlanDecided
  BY <1>12, QuietStep DEF PlanDecided, promptVars, askerVars, setterVars
<1>13. CASE PlanOff
  BY <1>13, QuietStep DEF PlanOff, promptVars, askerVars, setterVars
<1>14. CASE OpenWindow
  BY <1>14, QuietStep DEF OpenWindow, promptVars, askerVars, setterVars
<1>15. CASE AskReplan
  BY <1>15, SafeAskReplan
<1>16. CASE EndExecution
  BY <1>16, QuietStep DEF EndExecution, promptVars, askerVars, setterVars
<1>17. ASSUME NEW s \in Setters, NEW v \in BOOLEAN, SetPlanMode(s, v) PROVE
     Safe'
  BY <1>17, QuietStep DEF SetPlanMode, promptVars, askerVars
<1>18. ASSUME NEW s \in Setters, NEW v \in BOOLEAN, NEW yolo \in BOOLEAN,
     SetMode(s, v, yolo) PROVE Safe'
  BY <1>18, QuietStep DEF SetMode, promptVars, askerVars
<1>19. ASSUME NEW s \in Setters, SetExecutorPlan(s) PROVE Safe'
  BY <1>19, QuietStep DEF SetExecutorPlan, promptVars, askerVars
<1>20. ASSUME NEW s \in Setters, NEW m \in Modes, SetToolApprovalMode(s, m)
     PROVE Safe'
  BY <1>20, SafeSetToolApprovalMode
<1>21. ASSUME NEW s \in Setters, BuildGate(s) PROVE Safe'
  BY <1>21, QuietStep DEF BuildGate, modeVars, promptVars, askerVars
<1>22. ASSUME NEW s \in Setters, InstallGate(s) PROVE Safe'
  BY <1>22, QuietStep DEF InstallGate, promptVars, askerVars
<1>23. ASSUME NEW s \in Setters, ReleaseDrained(s) PROVE Safe'
  BY <1>23, SafeReleaseDrained
<1>24. CASE UNCHANGED vars
  BY <1>24, QuietStep DEF vars, modeVars, askerVars, setterVars
<1>. QED
  BY <1>0, StepCases, <1>1, <1>2, <1>3, <1>4, <1>5, <1>6, <1>7, <1>8, <1>9,
       <1>10, <1>11, <1>12, <1>13, <1>14, <1>15, <1>16, <1>17, <1>18, <1>19,
       <1>20, <1>21, <1>22, <1>23, <1>24

(* The prompt discipline is inductive.                                     *)
THEOREM ApprovalInvariant == Spec => []IInv
<1>1. ASSUME IInv, [Next]_vars PROVE IInv'
  <2>1. TypeOK'
    BY <1>1, TypeStep DEF IInv, Safe
  <2>2. TurnInv' /\ DrainInv'
    BY <1>1, TurnInvStep, DrainInvStep DEF IInv, Safe
  <2>3. Safe'
    BY <1>1, <2>1, SafeStep
  <2>. QED
    BY <2>1, <2>2, <2>3 DEF IInv
<1>. QED
  BY <1>1, InitIInv, PTL DEF Spec

(* Every variable keeps its type, and no session grant is one for plans,   *)
(* for any number of tool calls, setters and prompts.                      *)
THEOREM ApprovalTypeCorrect == Spec => []TypeOK
BY ApprovalInvariant, PTL DEF IInv

(* requestApproval and Ask show the user one decision at a time, and the   *)
(* holder of promptMu is the one that waits for it.                        *)
THEOREM ApprovalOnePrompt == Spec => []OnePrompt
<1>1. IInv => OnePrompt
  <2>1. SUFFICES ASSUME IInv, NEW i \in Open PROVE promptMu \in Askers /\ id[promptMu] = i
    BY DEF OnePrompt
  <2>2. PICK a \in Askers : id[a] = i
    BY <2>1 DEF IInv, Safe, OwnerInv
  <2>3. i # NoId
    BY <2>1, Distinct DEF IInv, TypeOK, PromptTypes, Open
  <2>. QED
    BY <2>1, <2>2, <2>3 DEF IInv, Safe, LockInv
<1>. QED
  BY <1>1, ApprovalInvariant, PTL

(* A call blocked on a prompt can always still get its answer: no mode     *)
(* switch, answer or cancellation strands it.                              *)
THEOREM ApprovalAnswerable == Spec => []Answerable
BY ApprovalInvariant, PTL DEF IInv, Safe

(* After a switch to yolo no tool prompt is open, and none opens.          *)
THEOREM ApprovalYolo == Spec => []YoloAsksForNoTool
BY ApprovalInvariant, PTL DEF IInv, Safe

(* A call covered by a session grant has no prompt open.                   *)
THEOREM ApprovalGranted == Spec => []GrantedIsNotAsked
BY ApprovalInvariant, PTL DEF IInv, Safe

(* Only the user decides plans, replans and questions.                     *)
THEOREM ApprovalUserDecides == Spec => []UserDecides
BY ApprovalInvariant, PTL DEF IInv, Safe

(* However calls queue and modes change, one prompt is open at a time, and *)
(* none that waits is stranded.                                            *)
THEOREM ApprovalPrompts == Spec => []OneAnswerablePrompt
BY ApprovalOnePrompt, ApprovalAnswerable, PTL DEF OneAnswerablePrompt

(* The user is asked what only the user decides, and nothing that yolo or  *)
(* a grant has decided.                                                    *)
THEOREM ApprovalAsksRightly == Spec => []AskedWhatIsTheirs
BY ApprovalYolo, ApprovalGranted, ApprovalUserDecides, PTL DEF AskedWhatIsTheirs

-----------------------------------------------------------------------------
(* The gate and the mode.                                                  *)

(* A setter that has changed the mode, and not yet installed the gate.     *)
Changing(s) == at[s] \in {"build", "install"}

(* No two frontend calls rebuild the gate at once.                         *)
OneChange == \A s, t \in Setters : Changing(s) /\ Changing(t) => s = t

(* A gate that has been built is the mode's, and so is the installed one   *)
(* while nobody is about to replace it.                                    *)
GateInv ==
  /\ \A s \in Setters : at[s] = "install" => built[s].allow = (mode # "ask")
  /\ (\A s \in Setters : ~Changing(s)) => gate.allow = (mode # "ask")

(* A step that neither changes the mode nor moves a setter to or from the  *)
(* work on the gate.                                                       *)
LEMMA GateStays ==
  ASSUME GateInv, UNCHANGED <<mode, gate, built>>,
         \A s \in Setters : at'[s] = at[s] \/ (~Changing(s) /\ at'[s] \in {"idle", "planOnly", "planThenMode", "mode"})
                                           \/ (at[s] = "release" /\ at'[s] = "idle")
  PROVE  GateInv'
BY DEF GateInv, Changing

LEMMA GateStep ==
  ASSUME TypeOK, GateInv, OneChange, OneChange', [Next]_vars
  PROVE  GateInv'
<1> USE DEF modeVars, promptVars, turnVars, askerVars, setterVars
<1>0. at \in [Setters -> {"idle", "planOnly", "planThenMode", "mode", "build", "install", "release"}]
      /\ built \in [Setters -> [allow : BOOLEAN, hard : BOOLEAN]]
  BY DEF TypeOK, SetterTypes
<1>1. CASE UNCHANGED <<mode, gate, at, built>>
  BY <1>1, GateStays
<1>2. ASSUME NEW s \in Setters, NEW v \in BOOLEAN, SetPlanMode(s, v) PROVE GateInv'
  BY <1>0, <1>2, GateStays DEF SetPlanMode, SetterStep, Changing
<1>3. ASSUME NEW s \in Setters, NEW v \in BOOLEAN, NEW yolo \in BOOLEAN, SetMode(s, v, yolo)
      PROVE  GateInv'
  BY <1>0, <1>3, GateStays DEF SetMode, SetterStep, Changing
<1>4. ASSUME NEW s \in Setters, SetExecutorPlan(s) PROVE GateInv'
  BY <1>0, <1>4, GateStays DEF SetExecutorPlan, SetterStep, Changing
<1>5. ASSUME NEW s \in Setters, NEW m \in Modes, SetToolApprovalMode(s, m) PROVE GateInv'
  <2>1. at'[s] = "build" /\ Changing(s)'
    BY <1>0, <1>5 DEF SetToolApprovalMode, SetterStep, Changing
  <2>2. \A t \in Setters : Changing(t)' => t = s
    BY <2>1 DEF OneChange
  <2>. QED
    BY <2>1, <2>2 DEF GateInv, Changing
<1>6. ASSUME NEW s \in Setters, BuildGate(s) PROVE GateInv'
  <2>1. /\ at'[s] = "install" /\ mode' = mode
        /\ built'[s].allow = (mode # "ask")
    BY <1>0, <1>6 DEF BuildGate, SetterStep, InteractiveGate
  <2>2. \A t \in Setters : Changing(t)' => t = s
    BY <2>1 DEF OneChange, Changing
  <2>. QED
    BY <2>1, <2>2 DEF GateInv, Changing
<1>7. ASSUME NEW s \in Setters, InstallGate(s) PROVE GateInv'
  <2>1. /\ at[s] = "install" /\ at'[s] = "release" /\ mode' = mode
        /\ gate'.allow = built[s].allow
    BY <1>0, <1>7 DEF InstallGate, SetterStep
  <2>2. gate'.allow = (mode # "ask")
    BY <2>1 DEF GateInv
  <2>3. \A t \in Setters : t # s => ~Changing(t) /\ at'[t] = at[t]
    BY <1>0, <1>7, <2>1 DEF OneChange, Changing, InstallGate, SetterStep
  <2>. QED
    BY <2>1, <2>2, <2>3 DEF GateInv, Changing
<1>8. ASSUME NEW s \in Setters, ReleaseDrained(s) PROVE GateInv'
  BY <1>0, <1>8, GateStays DEF ReleaseDrained, SetterStep, Changing
<1>9. \/ UNCHANGED <<mode, gate, at, built>>
      \/ \E s \in Setters, v \in BOOLEAN : SetPlanMode(s, v)
      \/ \E s \in Setters, v \in BOOLEAN, yolo \in BOOLEAN : SetMode(s, v, yolo)
      \/ \E s \in Setters : SetExecutorPlan(s)
      \/ \E s \in Setters, m \in Modes : SetToolApprovalMode(s, m)
      \/ \E s \in Setters : BuildGate(s) \/ InstallGate(s) \/ ReleaseDrained(s)
  BY StepCases DEF Call, Check, LockPrompt, Register, TakeReply, Abort, Approve, AnswerQuestion,
     StartTurn, Cancel, EndRun, PlanDecided, PlanOff, OpenWindow, AskReplan, EndExecution, vars
<1>. QED
  BY <1>1, <1>2, <1>3, <1>4, <1>5, <1>6, <1>7, <1>8, <1>9

(* However many frontend calls change modes, the gate is left behind only  *)
(* by two that rebuild it at once: while no two do, it is the mode's       *)
(* whenever the changes have settled.                                      *)
THEOREM GateLagsOnlyByTwo == Spec /\ []OneChange => []GateFollowsMode
<1>1. Init => GateInv
  <2>1. Init => gate.allow = FALSE /\ mode = "ask" /\ \A s \in Setters : at[s] = "idle"
    BY DEF Init, ClosedGate
  <2>. QED
    BY <2>1 DEF GateInv
<1>2. GateInv => GateFollowsMode
  BY DEF GateInv, Changing, GateFollowsMode, Settled
<1>. QED
  BY <1>1, <1>2, GateStep, ApprovalTypeCorrect, PTL DEF Spec
=============================================================================
