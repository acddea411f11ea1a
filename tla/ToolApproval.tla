---------------------------- MODULE ToolApproval ----------------------------
(***************************************************************************)
(* Who may let a tool call run: the permission gate the agent consults,    *)
(* the controller's approval modes, plan mode, and the prompts that block  *)
(* a turn until the user decides (internal/control/controller.go,          *)
(* internal/permission/permission.go, internal/agent/agent.go).            *)
(*                                                                         *)
(* Three kinds of goroutine meet here: the tool calls of the turn (a batch *)
(* runs several at once), the turn itself, which asks for the approval of  *)
(* a plan, and the frontend's calls (Setters) that change modes.  Every    *)
(* critical section of Controller.mu is one action.                        *)
(***************************************************************************)
EXTENDS Integers, FiniteSets

CONSTANTS
  Callers,    \* the tool calls a batch may run at once
  Turn,       \* the turn's own goroutine, which asks for plan approval
  Setters,    \* frontend goroutines that change modes
  PromptIds,  \* bound on the prompt ids alive at once
  NoId,       \* no prompt
  Nobody      \* promptMu is free

ASSUME Distinct == Turn \notin Callers /\ NoId \notin PromptIds
                   /\ Nobody \notin Callers \cup {Turn}

Askers == Callers \cup {Turn}
Modes  == {"ask", "auto", "yolo"}

(* "write": a writer that only the policy's fallback decides.              *)
(* "ruled": a call an explicit ask rule matches, allowed in plan mode.     *)
(* "question": the ask tool.  "plan": exit_plan_mode and compose's replan. *)
ToolKinds == {"write", "ruled"}
Kinds     == ToolKinds \cup {"question", "plan"}

VARIABLES
  mode,       \* Controller.toolApprovalMode
  planMode,   \* Controller.planMode
  hardDeny,   \* Controller.policy has plan mode's HardDeny rules
  execPlan,   \* Agent.planMode
  gate,       \* Agent.gate: its fallback allows writers, it hard-denies them
  window,     \* Controller.approvedPlanAutoApproveTools
  granted,    \* Controller.granted, as kinds of call
  approvals,  \* Controller.approvals: id -> kind and autoDrain
  asks,       \* Controller.asks, the ids
  reply,      \* the buffered reply channel of a prompt
  promptMu,   \* the holder of promptMu
  turn,       \* where the turn is
  cancelled,  \* the turn's context is cancelled
  pc, kind, id,  \* per asker: its place, kind of call and prompt
  decision,   \* what requestApproval last returned to the turn
  at,         \* per setter: its next step
  arg,        \* per setter: its arguments
  built,      \* per setter: the gate it has built
  drained     \* per setter: the prompts it has taken off and not yet answered

modeVars   == <<mode, planMode, hardDeny, execPlan, gate, window>>
promptVars == <<granted, approvals, asks, reply, promptMu>>
turnVars   == <<turn, cancelled>>
askerVars  == <<pc, kind, id, decision>>
setterVars == <<at, arg, built, drained>>
vars       == <<modeVars, promptVars, turnVars, askerVars, setterVars>>

(* newInteractiveGate: the policy as it is now, its fallback from the mode. *)
(* Mutated before it: the fallback of the configuration, whatever the mode. *)
RemembersAsk    == [allow |-> FALSE, hard |-> hardDeny]
InteractiveGate == [allow |-> mode # "ask", hard |-> hardDeny]

ClosedGate == [allow |-> FALSE, hard |-> FALSE]

Init ==
  /\ mode = "ask" /\ planMode = FALSE /\ hardDeny = FALSE /\ execPlan = FALSE
  /\ gate = ClosedGate
  /\ window = FALSE
  /\ granted = {}
  /\ approvals = <<>>
  /\ asks = {}
  /\ reply = [i \in PromptIds |-> "none"]
  /\ promptMu = Nobody
  /\ turn = "idle" /\ cancelled = FALSE
  /\ pc = [a \in Askers |-> "idle"]
  /\ kind = [a \in Askers |-> IF a = Turn THEN "plan" ELSE "write"]
  /\ id = [a \in Askers |-> NoId]
  /\ decision = "none"
  /\ at = [s \in Setters |-> "idle"]
  /\ arg = [s \in Setters |-> [plan |-> FALSE, mode |-> "ask"]]
  /\ built = [s \in Setters |-> ClosedGate]
  /\ drained = [s \in Setters |-> {}]

-----------------------------------------------------------------------------
(* Mutated: yolo and the window approve plans too.                         *)
BypassAll(k) == mode = "yolo" \/ window

(* approvalBypassAllowsLocked.                                             *)
Bypass(k) == k # "plan" /\ (mode = "yolo" \/ window)

(* A call is let through with no prompt, in requestApproval.               *)
LetThrough(k) == Bypass(k) \/ k \in granted

(* autoApprovalWouldAllowLocked: the policy would allow it in auto mode.   *)
AutoDrain(k) == k = "write" /\ ~hardDeny

(* The asker has its answer; only the turn's own is kept.                  *)
Finish(a, outcome) ==
  /\ pc' = [pc EXCEPT ![a] = "idle"]
  /\ id' = [id EXCEPT ![a] = NoId]
  /\ kind' = [kind EXCEPT ![a] = IF a = Turn THEN "plan" ELSE "write"]
  /\ decision' = IF a = Turn THEN outcome ELSE decision

Goto(a, place) ==
  /\ pc' = [pc EXCEPT ![a] = place]
  /\ UNCHANGED <<kind, id, decision>>

(* executeOne for a call that has to ask: a writer that plan mode or the    *)
(* gate refuses, or that the gate's fallback allows, never comes here.     *)
Call(c, k) ==
  /\ turn \in {"running", "executing"}
  /\ pc[c] = "idle"
  /\ ~cancelled
  /\ k = "write" => ~execPlan /\ ~gate.hard /\ ~gate.allow
  /\ kind' = [kind EXCEPT ![c] = k]
  /\ pc' = [pc EXCEPT ![c] = IF k = "question" THEN "queued" ELSE "checking"]
  /\ UNCHANGED <<id, decision>>
  /\ UNCHANGED <<modeVars, promptVars, turnVars, setterVars>>

(* requestApproval, the first look (and gateApprover's, just before it).   *)
Check(a) ==
  /\ pc[a] = "checking"
  /\ IF LetThrough(kind[a]) THEN Finish(a, "rule") ELSE Goto(a, "queued")
  /\ UNCHANGED <<modeVars, promptVars, turnVars, setterVars>>

(* Mutated: prompts are not serialised.                                    *)
NoPromptMu == TRUE
PromptMuFree == promptMu = Nobody

LockPrompt(a) ==
  /\ pc[a] = "queued"
  /\ PromptMuFree
  /\ promptMu' = a
  /\ Goto(a, "locked")
  /\ UNCHANGED <<modeVars, granted, approvals, asks, reply, turnVars, setterVars>>

(* An id that nothing refers to: nextID never repeats one.                 *)
InUse == DOMAIN approvals \cup asks \cup {id[a] : a \in Askers}
         \cup UNION {drained[s] : s \in Setters}

(* nextID counts up; which of the free ids that is tells nothing apart.    *)
NextId == CHOOSE i \in PromptIds : i \notin InUse

(* Mutated: the call is not looked at again after the wait for promptMu.   *)
NotLookedAtAgain(a) == FALSE
LookedAtAgain(a)    == kind[a] # "question" /\ LetThrough(kind[a])

(* Under promptMu and mu: the second look, else the prompt is registered.  *)
Register(a) ==
  /\ pc[a] = "locked"
  /\ IF LookedAtAgain(a)
     THEN /\ promptMu' = Nobody
          /\ Finish(a, "rule")
          /\ UNCHANGED <<granted, approvals, asks, reply>>
     ELSE \E i \in PromptIds \ InUse :
            /\ i = NextId
            /\ id' = [id EXCEPT ![a] = i]
            /\ IF kind[a] = "question"
               THEN asks' = asks \cup {i} /\ UNCHANGED approvals
               ELSE /\ approvals' = [j \in DOMAIN approvals \cup {i} |->
                         IF j = i
                         THEN [kind |-> kind[a], autoDrain |-> AutoDrain(kind[a])]
                         ELSE approvals[j]]
                    /\ UNCHANGED asks
            /\ pc' = [pc EXCEPT ![a] = "blocked"]
            /\ UNCHANGED <<kind, decision, granted, reply, promptMu>>
  /\ UNCHANGED <<modeVars, turnVars, setterVars>>

Without(ids) == [j \in DOMAIN approvals \ ids |-> approvals[j]]

Grantable(k) == k \in ToolKinds

(* The asker is told whether it may go on, not for how long.               *)
Told(answer) == IF answer = "session" THEN "yes" ELSE answer

(* The select takes the reply; a session grant is stored for a tool only.  *)
TakeReply(a) ==
  /\ pc[a] = "blocked"
  /\ reply[id[a]] # "none"
  /\ granted' = IF reply[id[a]] = "session" /\ Grantable(kind[a])
                THEN granted \cup {kind[a]} ELSE granted
  /\ reply' = [reply EXCEPT ![id[a]] = "none"]
  /\ promptMu' = Nobody
  /\ Finish(a, Told(reply[id[a]]))
  /\ UNCHANGED <<modeVars, approvals, asks, turnVars, setterVars>>

(* Mutated: the ask tool waits for its answer alone.                       *)
ToolSeesCancel(a) == cancelled /\ kind[a] # "question"
SeesCancel(a)     == cancelled

(* The select takes ctx.Done.                                              *)
Abort(a) ==
  /\ pc[a] = "blocked"
  /\ SeesCancel(a)
  /\ approvals' = Without({id[a]})
  /\ asks' = asks \ {id[a]}
  /\ reply' = [reply EXCEPT ![id[a]] = "none"]
  /\ promptMu' = Nobody
  /\ Finish(a, "aborted")
  /\ UNCHANGED <<modeVars, granted, turnVars, setterVars>>

(* Approve and AnswerQuestion: the user decides on a prompt that is open.  *)
Approve(i, answer) ==
  /\ i \in DOMAIN approvals
  /\ approvals' = Without({i})
  /\ reply' = [reply EXCEPT ![i] = answer]
  /\ UNCHANGED <<modeVars, granted, asks, promptMu, turnVars, askerVars, setterVars>>

AnswerQuestion(i) ==
  /\ i \in asks
  /\ asks' = asks \ {i}
  /\ reply' = [reply EXCEPT ![i] = "answer"]
  /\ UNCHANGED <<modeVars, granted, approvals, promptMu, turnVars, askerVars,
                 setterVars>>

-----------------------------------------------------------------------------
CallsDone == \A c \in Callers : pc[c] = "idle"

StartTurn ==
  /\ turn = "idle"
  /\ turn' = "running"
  /\ cancelled' = FALSE
  /\ decision' = "none"
  /\ UNCHANGED <<modeVars, promptVars, pc, kind, id, setterVars>>

Cancel ==
  /\ turn # "idle"
  /\ ~cancelled
  /\ cancelled' = TRUE
  /\ UNCHANGED <<modeVars, promptVars, turn, askerVars, setterVars>>

(* runner.Run returns: in plan mode an answer is a plan to be approved.    *)
EndRun(proposal) ==
  /\ turn = "running"
  /\ CallsDone
  /\ IF planMode /\ proposal
     THEN /\ turn' = "proposing"
          /\ pc' = [pc EXCEPT ![Turn] = "checking"]
     ELSE turn' = "idle" /\ pc' = pc
  /\ UNCHANGED <<modeVars, promptVars, cancelled, kind, id, decision, setterVars>>

Allowed(outcome) == outcome \notin {"none", "no", "aborted"}

(* The user has decided on the plan; on allow, SetPlanMode(false), locked. *)
PlanDecided ==
  /\ turn = "proposing"
  /\ pc[Turn] = "idle"
  /\ IF Allowed(decision)
     THEN turn' = "approved" /\ planMode' = FALSE /\ hardDeny' = FALSE
     ELSE turn' = "idle" /\ UNCHANGED <<planMode, hardDeny>>
  /\ UNCHANGED <<mode, execPlan, gate, window, promptVars, cancelled, askerVars,
                 setterVars>>

(* The rest of SetPlanMode(false), then the execution window opens.        *)
PlanOff ==
  /\ turn = "approved"
  /\ execPlan' = FALSE
  /\ turn' = "opening"
  /\ UNCHANGED <<mode, planMode, hardDeny, gate, window, promptVars, cancelled,
                 askerVars, setterVars>>

OpenWindow ==
  /\ turn = "opening"
  /\ window' = TRUE
  /\ turn' = "executing"
  /\ UNCHANGED <<mode, planMode, hardDeny, execPlan, gate, promptVars, cancelled,
                 askerVars, setterVars>>

(* compose asks the user for a new plan in the middle of the execution.    *)
AskReplan ==
  /\ turn = "executing"
  /\ CallsDone
  /\ pc[Turn] = "idle"
  /\ ~cancelled
  /\ Allowed(decision)
  /\ pc' = [pc EXCEPT ![Turn] = "checking"]
  /\ UNCHANGED <<modeVars, promptVars, turnVars, kind, id, decision, setterVars>>

EndExecution ==
  /\ turn = "executing"
  /\ CallsDone
  /\ pc[Turn] = "idle"
  /\ window' = FALSE
  /\ turn' = "idle"
  /\ UNCHANGED <<mode, planMode, hardDeny, execPlan, gate, promptVars, cancelled,
                 askerVars, setterVars>>

-----------------------------------------------------------------------------
SetterStep(s, next) == at' = [at EXCEPT ![s] = next]

(* SetPlanMode, the part under mu.                                         *)
SetPlanMode(s, v) ==
  /\ at[s] = "idle"
  /\ planMode' = v
  /\ hardDeny' = v
  /\ arg' = [arg EXCEPT ![s].plan = v]
  /\ SetterStep(s, "planOnly")
  /\ UNCHANGED <<mode, execPlan, gate, window, promptVars, turnVars, askerVars,
                 built, drained>>

(* SetMode, the part under mu: it leaves HardDeny as it is.                *)
SetMode(s, v, yolo) ==
  /\ at[s] = "idle"
  /\ planMode' = v
  /\ arg' = [arg EXCEPT ![s] = [plan |-> v, mode |-> IF yolo THEN "yolo" ELSE "ask"]]
  /\ SetterStep(s, "planThenMode")
  /\ UNCHANGED <<mode, hardDeny, execPlan, gate, window, promptVars, turnVars,
                 askerVars, built, drained>>

(* executor.SetPlanMode, after mu is released.                             *)
SetExecutorPlan(s) ==
  /\ at[s] \in {"planOnly", "planThenMode"}
  /\ execPlan' = arg[s].plan
  /\ arg' = [arg EXCEPT ![s].plan = FALSE]
  /\ SetterStep(s, IF at[s] = "planOnly" THEN "idle" ELSE "mode")
  /\ UNCHANGED <<mode, planMode, hardDeny, gate, window, promptVars, turnVars,
                 askerVars, built, drained>>

(* Mutated: yolo drains no more than auto does.                            *)
DrainsLikeAuto(m) ==
  IF m = "ask" THEN {} ELSE {i \in DOMAIN approvals : approvals[i].autoDrain}

(* drainApprovalsLocked: every tool prompt, or those auto would not show.  *)
Drains(m) == CASE m = "ask"  -> {}
               [] m = "auto" -> {i \in DOMAIN approvals : approvals[i].kind # "plan"
                                                        /\ approvals[i].autoDrain}
               [] m = "yolo" -> {i \in DOMAIN approvals : approvals[i].kind # "plan"}

(* SetToolApprovalMode, the part under mu: the mode and the drain.         *)
SetToolApprovalMode(s, m) ==
  /\ at[s] = "idle" \/ (at[s] = "mode" /\ m = arg[s].mode)
  /\ mode' = m
  /\ drained' = [drained EXCEPT ![s] = Drains(m)]
  /\ approvals' = Without(Drains(m))
  /\ arg' = [arg EXCEPT ![s].mode = "ask"]
  /\ SetterStep(s, "build")
  /\ UNCHANGED <<planMode, hardDeny, execPlan, gate, window, granted, asks, reply,
                 promptMu, turnVars, askerVars, built>>

(* refreshInteractiveGate: a gate is built from the state as it is ...     *)
BuildGate(s) ==
  /\ at[s] = "build"
  /\ built' = [built EXCEPT ![s] = InteractiveGate]
  /\ SetterStep(s, "install")
  /\ UNCHANGED <<modeVars, promptVars, turnVars, askerVars, arg, drained>>

(* ... and installed afterwards.                                           *)
InstallGate(s) ==
  /\ at[s] = "install"
  /\ gate' = built[s]
  /\ built' = [built EXCEPT ![s] = ClosedGate]
  /\ SetterStep(s, "release")
  /\ UNCHANGED <<mode, planMode, hardDeny, execPlan, window, promptVars, turnVars,
                 askerVars, arg, drained>>

(* Mutated: only a switch to yolo answers what it has drained.             *)
ReleasedByYolo(s) == IF mode = "yolo" THEN drained[s] ELSE {}
Released(s)       == drained[s]

(* The drained prompts are allowed; nobody reads an aborted one's channel. *)
ReleaseDrained(s) ==
  /\ at[s] = "release"
  /\ reply' = [i \in PromptIds |->
                IF i \in Released(s) /\ \E a \in Askers : id[a] = i
                THEN "drained" ELSE reply[i]]
  /\ drained' = [drained EXCEPT ![s] = {}]
  /\ SetterStep(s, "idle")
  /\ UNCHANGED <<modeVars, granted, approvals, asks, promptMu, turnVars, askerVars,
                 arg, built>>

Setter(s) ==
  \/ SetExecutorPlan(s)
  \/ at[s] = "mode" /\ SetToolApprovalMode(s, arg[s].mode)
  \/ BuildGate(s)
  \/ InstallGate(s)
  \/ ReleaseDrained(s)

Asker(a) == Check(a) \/ LockPrompt(a) \/ Register(a) \/ TakeReply(a) \/ Abort(a)

User ==
  \/ \E i \in PromptIds : \/ \E answer \in {"yes", "session", "no"} : Approve(i, answer)
                         \/ AnswerQuestion(i)
  \/ Cancel
  \/ \E s \in Setters : \/ \E v \in BOOLEAN : SetPlanMode(s, v)
                       \/ \E v, yolo \in BOOLEAN : SetMode(s, v, yolo)
                       \/ \E m \in Modes : at[s] = "idle" /\ SetToolApprovalMode(s, m)

TurnStep ==
  \/ StartTurn
  \/ \E proposal \in BOOLEAN : EndRun(proposal)
  \/ PlanDecided
  \/ PlanOff
  \/ OpenWindow
  \/ AskReplan
  \/ EndExecution

Next ==
  \/ User
  \/ TurnStep
  \/ \E c \in Callers, k \in Kinds \ {"plan"} : Call(c, k)
  \/ \E a \in Askers : Asker(a)
  \/ \E s \in Setters : Setter(s)

Spec == Init /\ [][Next]_vars

(* Go runs every runnable goroutine, and its mutexes do not starve one     *)
(* that waits; the user is free to do nothing, the calls and the model's   *)
(* rounds end once the context is cancelled.                               *)
Fairness ==
  /\ \A a \in Askers : /\ WF_vars(Check(a) \/ Register(a) \/ TakeReply(a) \/ Abort(a))
                       /\ SF_vars(LockPrompt(a))
  /\ \A s \in Setters : WF_vars(Setter(s))
  /\ WF_vars(\/ PlanDecided \/ PlanOff \/ OpenWindow
             \/ cancelled /\ (EndRun(FALSE) \/ EndExecution))

FairSpec == Spec /\ Fairness

-----------------------------------------------------------------------------
Replies == {"none", "yes", "session", "no", "answer", "drained"}

ModeTypes ==
  /\ mode \in Modes
  /\ planMode \in BOOLEAN /\ hardDeny \in BOOLEAN /\ execPlan \in BOOLEAN
  /\ gate \in [allow : BOOLEAN, hard : BOOLEAN]
  /\ window \in BOOLEAN

PromptTypes ==
  /\ granted \in SUBSET ToolKinds
  /\ DOMAIN approvals \in SUBSET PromptIds
  /\ \A i \in DOMAIN approvals :
       approvals[i] \in [kind : ToolKinds \cup {"plan"}, autoDrain : BOOLEAN]
  /\ asks \in SUBSET PromptIds
  /\ reply \in [PromptIds -> Replies]
  /\ promptMu \in Askers \cup {Nobody}

TurnTypes ==
  /\ turn \in {"idle", "running", "proposing", "approved", "opening", "executing"}
  /\ cancelled \in BOOLEAN

AskerTypes ==
  /\ pc \in [Askers -> {"idle", "checking", "queued", "locked", "blocked"}]
  /\ kind \in [Askers -> Kinds]
  /\ id \in [Askers -> PromptIds \cup {NoId}]
  /\ decision \in Replies \cup {"rule", "aborted"}

SetterTypes ==
  /\ at \in [Setters -> {"idle", "planOnly", "planThenMode", "mode", "build",
                         "install", "release"}]
  /\ arg \in [Setters -> [plan : BOOLEAN, mode : Modes]]
  /\ built \in [Setters -> [allow : BOOLEAN, hard : BOOLEAN]]
  /\ drained \in [Setters -> SUBSET PromptIds]

(* Every variable keeps its type; a session grant is never one for plans.  *)
TypeOK == ModeTypes /\ PromptTypes /\ TurnTypes /\ AskerTypes /\ SetterTypes

Open == DOMAIN approvals \cup asks

(* At most one user decision is outstanding, whatever the batch, compose   *)
(* and the mode switches do, and it is that of the holder of promptMu.     *)
OnePrompt == \A i \in Open : promptMu \in Askers /\ id[promptMu] = i

(* A call that waits for a decision can still get it: its prompt is open,  *)
(* or its reply has been sent, or a mode switch is about to send it.       *)
Answerable ==
  \A a \in Askers : pc[a] = "blocked" =>
    \/ id[a] \in Open
    \/ reply[id[a]] # "none"
    \/ \E s \in Setters : id[a] \in drained[s]

(* The user sees one prompt at a time, and whoever waits can be answered.  *)
OneAnswerablePrompt == OnePrompt /\ Answerable

(* In yolo mode no tool call is waiting for the user, not even one that    *)
(* was queued behind another prompt when the mode was switched.            *)
YoloAsksForNoTool ==
  mode = "yolo" => \A i \in DOMAIN approvals : approvals[i].kind = "plan"

(* A call that a session grant covers is not prompted, even when the grant *)
(* was given to the prompt it was queued behind.                           *)
GrantedIsNotAsked == \A i \in DOMAIN approvals : approvals[i].kind \notin granted

(* Plans, replans and questions are decided by the user: no mode, session  *)
(* grant or execution window decides one.                                  *)
UserDecides ==
  /\ decision \in {"none", "yes", "no", "aborted"}
  /\ \A c \in Callers : pc[c] = "blocked" /\ kind[c] = "question"
                        => reply[id[c]] \in {"none", "answer"}
  /\ pc[Turn] = "blocked" => reply[id[Turn]] \in {"none", "yes", "session", "no"}

(* The user is asked what is the user's to decide, and nothing that a mode *)
(* or a grant has decided.                                                 *)
AskedWhatIsTheirs == YoloAsksForNoTool /\ GrantedIsNotAsked /\ UserDecides

(* No mode change is under way.                                            *)
Settled == (\A s \in Setters : at[s] = "idle") /\ turn # "approved"

(* GUIDE.md:114: in Ask mode the gate "Prompts for fallback writer          *)
(* approvals", and allows them in the others.  This holds when a frontend  *)
(* makes one mode change at a time; two at once leave the gate behind.     *)
GateFollowsMode == Settled => gate.allow = (mode # "ask")

(* A cancelled turn comes to its end, with calls blocked on a prompt or    *)
(* queued behind one.                                                      *)
CancelEnds == cancelled /\ turn # "idle" ~> turn = "idle"

(* A call that is waiting for the user when yolo is switched on goes on.   *)
YoloReleases ==
  \A c \in Callers : mode = "yolo" /\ pc[c] = "blocked" /\ kind[c] \in ToolKinds
                   ~> pc[c] # "blocked"

(* Waiting for a prompt ends by a cancel, and by yolo.                     *)
WaitsEnd == CancelEnds /\ YoloReleases

-----------------------------------------------------------------------------
(* What comments of the code claim, and the code does not do.              *)

(* GUIDE.md:117: Plan "keeps the next work read-only until a plan is       *)
(* approved or Plan is turned off".  When the user turns plan mode on      *)
(* while an approved plan turns it off, the executor may keep the latter.  *)
PlanIsReadOnly == Settled /\ planMode => execPlan

(* controller.go:1625: with plan mode on, writer tools "are hard-denied at *)
(* the permission layer".  The gate keeps the policy it was built with.    *)
PlanHardDenies == Settled /\ planMode => gate.hard

(* controller.go:1628: "When plan mode is off, HardDeny is cleared so      *)
(* normal operation resumes".  A gate built in plan mode keeps it.         *)
PlanOffClears == Settled /\ ~planMode => ~gate.hard
=============================================================================
