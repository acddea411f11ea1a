----------------------------- MODULE BotGateway -----------------------------
(***************************************************************************)
(* The gateway of the chat bots (internal/bot/gateway.go, session.go):     *)
(* one loop for each platform takes the messages of all its chats and runs *)
(* the turn of each to its end; every conversation has a controller of its *)
(* own, the first one a controller built beforehand; a reaper closes the   *)
(* idle ones; Stop closes all.                                             *)
(*                                                                         *)
(* A conversation is a key <<platform, user>>.  Building a controller may  *)
(* fail.  A turn may ask for an approval, and is over when it has its      *)
(* answer, is cancelled or runs out of time.  Whether a conversation has   *)
(* been idle for long enough is a flag that time sets.  The allowlist, and *)
(* commands that change nothing here, are left out.                        *)
(***************************************************************************)
EXTENDS Integers, Sequences, SequencesExt, FiniteSetsExt

CONSTANTS
  Platforms,    \* the platforms
  Users,        \* the users of each
  Buffer,       \* how many messages an adapter's channel holds
  MaxMessages,  \* bound on the messages
  MaxBuilds     \* bound on the controllers built

ASSUME GatewayBounds == Buffer \in Nat \ {0} /\ MaxMessages \in Nat /\ MaxBuilds \in Nat

Keys == Platforms \X Users
Kinds == {"text", "stop", "approve"}
Numbers == 1..MaxMessages
Controllers == 1..MaxBuilds
None == 0

VARIABLES
  inbox,        \* Adapter.Messages of each platform
  stopped,      \* Stop has been called
  loop,         \* each platform's loop: where it is, its message, its controller
  active,       \* SessionManager.active
  pending,      \* SessionManager.pending
  controllers,  \* the controller of each conversation
  prewarm,      \* the one built beforehand: where that is, and it
  ctrl,         \* each controller: whether it is open, its turn is running, a
                \* cancel of it is known, and it has been idle for long
  built,        \* how many controllers have been built
  sent,         \* how many messages have come
  mail,         \* each message: its conversation, its kind, what became of it
  served        \* history: the conversations each controller has served

sessionVars == <<active, pending>>
ctrlVars == <<controllers, prewarm, ctrl, built, served>>
mailVars == <<inbox, sent, mail>>
vars == <<mailVars, stopped, loop, sessionVars, ctrlVars>>

Message(k, kind) == [key |-> k, kind |-> kind, fate |-> "queued"]
Over(fate)       == [key |-> <<>>, kind |-> "none", fate |-> fate]

Waiting == [at |-> "waiting", n |-> None, c |-> None, asks |-> FALSE, cancelled |-> FALSE]
Unbuilt == [open |-> FALSE, running |-> FALSE, cancel |-> FALSE, stale |-> FALSE]
Fresh   == [Unbuilt EXCEPT !.open = TRUE]

Init ==
  /\ inbox = [p \in Platforms |-> <<>>] /\ sent = 0
  /\ mail = [n \in Numbers |-> Over("unsent")]
  /\ stopped = FALSE
  /\ loop = [p \in Platforms |-> Waiting]
  /\ active = {} /\ pending = [k \in Keys |-> <<>>]
  /\ controllers = [k \in Keys |-> None]
  /\ prewarm = [at |-> "building", c |-> None]
  /\ ctrl = [c \in Controllers |-> Unbuilt] /\ built = 0
  /\ served = [c \in Controllers |-> {}]

InHand(n) == mail[n].fate \in {"queued", "pending", "taken"}
Key(p) == mail[loop[p].n].key
Of(p) == loop[p].c

At(p, place) == loop[p].at = place
Goto(p, place) == loop' = [loop EXCEPT ![p].at = place]

-----------------------------------------------------------------------------
(* The adapters: a message that finds the channel full is dropped.         *)

Receive(k, kind) ==
  /\ ~stopped /\ sent < MaxMessages
  /\ sent' = sent + 1
  /\ IF Len(inbox[k[1]]) < Buffer
     THEN /\ inbox' = [inbox EXCEPT ![k[1]] = Append(@, sent')]
          /\ mail' = [mail EXCEPT ![sent'] = Message(k, kind)]
     ELSE /\ mail' = [mail EXCEPT ![sent'] = Over("dropped")]
          /\ UNCHANGED inbox
  /\ UNCHANGED <<stopped, loop, sessionVars, ctrlVars>>

-----------------------------------------------------------------------------
(* The loop of a platform: dispatchLoop, handleMessage.                    *)

First(p) == mail[Head(inbox[p])]

TakeFrom(p) ==
  /\ At(p, "waiting") /\ inbox[p] # <<>>
  /\ inbox' = [inbox EXCEPT ![p] = Tail(@)]
  /\ UNCHANGED <<sent, stopped>>

Handled(n) == mail' = [mail EXCEPT ![n] = Over("done")]

Cancelled(c) ==
  [p \in Platforms |->
     IF loop[p].c = c /\ loop[p].at \in {"ready", "turn"}
     THEN [loop[p] EXCEPT !.cancelled = TRUE] ELSE loop[p]]

\* ForceRelease.
Forget(k) ==
  /\ active' = active \ {k}
  /\ pending' = [pending EXCEPT ![k] = <<>>]

(* handleSlashCommand: /stop, and /new, which also tells the controller to *)
(* begin a session.                                                        *)
StopCommand(p) ==
  /\ TakeFrom(p)
  /\ First(p).kind = "stop"
  /\ LET c == controllers[First(p).key]
     IN loop' = IF c # None /\ ctrl[c].cancel THEN Cancelled(c) ELSE loop
  /\ Forget(First(p).key)
  /\ Handled(Head(inbox[p]))
  /\ UNCHANGED ctrlVars

(* /approve, /deny and /answer: they settle a prompt of the controller.    *)
ApproveCommand(p) ==
  /\ TakeFrom(p)
  /\ First(p).kind = "approve"
  /\ LET c == controllers[First(p).key]
     IN loop' = [q \in Platforms |-> IF c # None /\ loop[q].c = c
                                     THEN [loop[q] EXCEPT !.asks = FALSE] ELSE loop[q]]
  /\ Handled(Head(inbox[p]))
  /\ UNCHANGED <<sessionVars, ctrlVars>>

(* TryAcquire: a conversation that has a turn makes the message wait.      *)
TakeText(p) ==
  /\ TakeFrom(p)
  /\ First(p).kind = "text"
  /\ LET n == Head(inbox[p])
         k == First(p).key
     IN IF k \in active
        THEN /\ pending' = [pending EXCEPT ![k] = Append(@, n)]
             /\ mail' = [mail EXCEPT ![n].fate = "pending"]
             /\ UNCHANGED <<active, loop>>
        ELSE /\ active' = active \cup {k}
             /\ mail' = [mail EXCEPT ![n].fate = "taken"]
             /\ loop' = [loop EXCEPT ![p] = [Waiting EXCEPT !.at = "lookup", !.n = n]]
             /\ UNCHANGED pending
  /\ UNCHANGED ctrlVars

-----------------------------------------------------------------------------
(* getOrCreateSession.                                                     *)

Use(p, c) == loop' = [loop EXCEPT ![p].at = "found", ![p].c = c]

Touch(c) == [ctrl EXCEPT ![c].stale = FALSE]

\* Mutated: a controller is used without its entry in the table.
RegisterNone(k, c) == controllers
Register(k, c)     == [controllers EXCEPT ![k] = c]

Serve(c, k) ==
  /\ controllers' = Register(k, c)
  /\ served' = [served EXCEPT ![c] = @ \cup {k}]

LookupFound(p) ==
  /\ At(p, "lookup") /\ controllers[Key(p)] # None
  /\ Use(p, controllers[Key(p)])
  /\ ctrl' = Touch(controllers[Key(p)])
  /\ UNCHANGED <<mailVars, stopped, sessionVars, controllers, prewarm, built, served>>

\* Mutated: the slot keeps the controller that was claimed.
KeepSlot == prewarm
FreeSlot == [at |-> "claimed", c |-> None]

Claim(p) ==
  /\ At(p, "lookup") /\ controllers[Key(p)] = None /\ prewarm.c # None
  /\ Use(p, prewarm.c)
  /\ prewarm' = FreeSlot
  /\ ctrl' = Touch(prewarm.c)
  /\ Serve(prewarm.c, Key(p))
  /\ UNCHANGED <<mailVars, stopped, sessionVars, built>>

LookupNone(p) ==
  /\ At(p, "lookup") /\ controllers[Key(p)] = None /\ prewarm.c = None
  /\ Goto(p, "building")
  /\ UNCHANGED <<mailVars, stopped, sessionVars, ctrlVars>>

\* A controller more.
Built == /\ built < MaxBuilds
         /\ built' = built + 1
         /\ ctrl' = [ctrl EXCEPT ![built'] = Fresh]

(* boot.Build, without the lock, and the entry in the table.               *)
BuildDone(p) ==
  /\ At(p, "building")
  /\ Built
  /\ Use(p, built')
  /\ Serve(built', Key(p))
  /\ UNCHANGED <<mailVars, stopped, sessionVars, prewarm>>

BuildFail(p) ==
  /\ At(p, "building")
  /\ Goto(p, "ending")
  /\ UNCHANGED <<mailVars, stopped, sessionVars, ctrlVars>>

(* prewarmSession: a goroutine of its own.                                 *)
PrewarmDone ==
  /\ prewarm.at = "building"
  /\ Built
  /\ prewarm' = [at |-> "parked", c |-> built']
  /\ UNCHANGED <<mailVars, stopped, loop, sessionVars, controllers, served>>

PrewarmFail ==
  /\ prewarm.at = "building"
  /\ prewarm' = [at |-> "failed", c |-> None]
  /\ UNCHANGED <<mailVars, stopped, loop, sessionVars, controllers, ctrl, built, served>>

-----------------------------------------------------------------------------
(* runTurn.                                                                *)

\* The sink, the time-out, and what /stop and Stop cancel.
Prepare(p) ==
  /\ At(p, "found")
  /\ Goto(p, "ready")
  /\ ctrl' = [ctrl EXCEPT ![Of(p)].cancel = TRUE, ![Of(p)].stale = FALSE]
  /\ UNCHANGED <<mailVars, stopped, sessionVars, controllers, prewarm, built, served>>

RunTurn(p) ==
  /\ At(p, "ready")
  /\ Goto(p, "turn")
  /\ ctrl' = [ctrl EXCEPT ![Of(p)].running = TRUE]
  /\ UNCHANGED <<mailVars, stopped, sessionVars, controllers, prewarm, built, served>>

(* The turn asks for an approval, and blocks.                              *)
AskUser(p) ==
  /\ At(p, "turn") /\ ~loop[p].asks /\ ~loop[p].cancelled
  /\ loop' = [loop EXCEPT ![p].asks = TRUE]
  /\ UNCHANGED <<mailVars, stopped, sessionVars, ctrlVars>>

\* Mutated: a turn of a bot may take any time.
NeverTimesOut(p) == FALSE
MayTimeOut(p)    == At(p, "turn") /\ ~loop[p].cancelled

TimeOut(p) ==
  /\ MayTimeOut(p)
  /\ loop' = [loop EXCEPT ![p].cancelled = TRUE]
  /\ UNCHANGED <<mailVars, stopped, sessionVars, ctrlVars>>

TurnReturn(p) ==
  /\ At(p, "turn") /\ (~loop[p].asks \/ loop[p].cancelled)
  /\ Goto(p, "ending")
  /\ ctrl' = [ctrl EXCEPT ![Of(p)].running = FALSE]
  /\ UNCHANGED <<mailVars, stopped, sessionVars, controllers, prewarm, built, served>>

\* Mutated: a turn that got no controller does not release the conversation.
ReleaseIfServed(p) == IF Of(p) = None THEN active ELSE active \ {Key(p)}
Release(p)         == active \ {Key(p)}

(* The deferred Release: what waited is the next turn, as one message.     *)
EndTurn(p) ==
  /\ At(p, "ending")
  /\ LET waited == pending[Key(p)]
     IN /\ mail' = [n \in Numbers |->
                      IF n = loop[p].n THEN Over("done")
                      ELSE IF n \in Range(waited) THEN [mail[n] EXCEPT !.fate = "taken"]
                      ELSE mail[n]]
        /\ IF waited = <<>>
           THEN active' = Release(p) /\ loop' = [loop EXCEPT ![p] = Waiting]
           ELSE /\ loop' = [loop EXCEPT ![p] = [Waiting EXCEPT !.at = "lookup", !.n = Head(waited)]]
                /\ UNCHANGED active
  /\ pending' = [pending EXCEPT ![Key(p)] = <<>>]
  /\ UNCHANGED <<inbox, sent, stopped, ctrlVars>>

-----------------------------------------------------------------------------
(* The reaper, time, and Stop.                                             *)

\* A loop has the controller, and its turn has not begun: this takes no time.
Between(c) == \E p \in Platforms : loop[p].c = c /\ loop[p].at \in {"found", "ready"}

Age(c) ==
  /\ \E k \in Keys : controllers[k] = c
  /\ ~ctrl[c].stale /\ ~Between(c)
  /\ ctrl' = [ctrl EXCEPT ![c].stale = TRUE]
  /\ UNCHANGED <<mailVars, stopped, loop, sessionVars, controllers, prewarm, built, served>>

\* Mutated: idle is whatever got no message for long.
IdleIfStale(c) == ctrl[c].stale
Idle(c)        == ctrl[c].stale /\ ~ctrl[c].running

\* Controller.Close.
Shut(state) == [state EXCEPT !.open = FALSE, !.stale = FALSE]

Reap(k) ==
  /\ controllers[k] # None
  /\ Idle(controllers[k])
  /\ loop' = Cancelled(controllers[k])
  /\ ctrl' = [ctrl EXCEPT ![controllers[k]] = Shut(@)]
  /\ controllers' = [controllers EXCEPT ![k] = None]
  /\ UNCHANGED <<mailVars, stopped, sessionVars, prewarm, built, served>>

Known == ({controllers[k] : k \in Keys} \cup {prewarm.c}) \ {None}

Stop ==
  /\ ~stopped
  /\ stopped' = TRUE
  /\ loop' = [p \in Platforms |-> IF loop[p].c \in Known /\ ctrl[loop[p].c].cancel
                                  THEN Cancelled(loop[p].c)[p] ELSE loop[p]]
  /\ ctrl' = [c \in Controllers |-> IF c \in Known THEN Shut(ctrl[c]) ELSE ctrl[c]]
  /\ controllers' = [k \in Keys |-> None]
  /\ prewarm' = IF prewarm.c = None THEN prewarm ELSE [at |-> "closed", c |-> None]
  /\ UNCHANGED <<mailVars, sessionVars, built, served>>

-----------------------------------------------------------------------------

Loop(p) ==
  \/ StopCommand(p) \/ ApproveCommand(p) \/ TakeText(p)
  \/ LookupFound(p) \/ Claim(p) \/ LookupNone(p) \/ BuildDone(p) \/ BuildFail(p)
  \/ Prepare(p) \/ RunTurn(p) \/ TurnReturn(p) \/ EndTurn(p)

Next ==
  \/ \E k \in Keys, kind \in Kinds : Receive(k, kind)
  \/ \E p \in Platforms : Loop(p) \/ AskUser(p) \/ TimeOut(p)
  \/ PrewarmDone \/ PrewarmFail
  \/ \E c \in Controllers : Age(c)
  \/ \E k \in Keys : Reap(k)
  \/ Stop

Spec == Init /\ [][Next]_vars

(* A loop goes on, except that a turn may go on for ever by itself; its    *)
(* timer goes off; and a turn that is cancelled returns.                   *)
GoesOn(p) == TimeOut(p) \/ (Loop(p) /\ (At(p, "turn") => loop[p].cancelled))

FairSpec == Spec /\ \A p \in Platforms : WF_vars(GoesOn(p))

-----------------------------------------------------------------------------
(* Properties.                                                             *)

(* The variables keep their types; a loop has a message and a controller   *)
(* when it needs them.                                                     *)
TypeOK ==
  /\ \A p \in Platforms :
       /\ inbox[p] \in Seq(Numbers) /\ Len(inbox[p]) <= Buffer
       /\ loop[p] \in [at : {"waiting", "lookup", "building", "found", "ready", "turn", "ending"},
                       n : Numbers \cup {None}, c : Controllers \cup {None},
                       asks : BOOLEAN, cancelled : BOOLEAN]
       /\ loop[p].n = None <=> At(p, "waiting")
       /\ loop[p].at \in {"found", "ready", "turn"} => loop[p].c # None
  /\ controllers \in [Keys -> Controllers \cup {None}]
  /\ \A c \in Controllers : ctrl[c].running => \E p \in Platforms : loop[p].c = c /\ At(p, "turn")
  /\ \A n \in Numbers : InHand(n) <=> mail[n].key \in Keys

(* A controller serves one conversation in its life, also the one that was *)
(* built beforehand, which the loops of two platforms may want at a time.  *)
OneConversation ==
  /\ \A c \in Controllers : Cardinality(served[c]) <= 1
  /\ prewarm.c # None => served[prewarm.c] = {}

(* No open controller is beyond the reach of the reaper and of Stop.       *)
NoneForgotten ==
  ~stopped => \A c \in Controllers : ctrl[c].open => c \in Known

(* A conversation is busy for as long as a loop is at work on a message of *)
(* it, whether it got a controller, was stopped or ran out of time.        *)
BusyIsWorkedOn == active = {Key(p) : p \in {q \in Platforms : ~At(q, "waiting")}}

(* The tables of the gateway are true, of controllers and of work.         *)
TablesAreTrue == NoneForgotten /\ BusyIsWorkedOn

(* The reaper closes no controller that a loop has in hand, from the look  *)
(* at the table to the end of the turn (reapIdleSessions).                 *)
ReaperSparesUsed ==
  [][\A k \in Keys : Reap(k) =>
       \A p \in Platforms : loop[p].at \in {"found", "ready", "turn"} => loop[p].c # controllers[k]]_vars

(* Every message that an adapter has handed over is taken, in the end, and *)
(* its turn ends, even if the model hangs or the user never answers what   *)
(* the turn asks (the comment at the time-out of runTurn).                 *)
EveryMessageIsHandled ==
  (\E n \in Numbers : InHand(n)) ~> (\A n \in Numbers : ~InHand(n))

(* What a comment of runTurn says (internal/bot/gateway.go:692): "/stop    *)
(* can still cancel at once".  The loop that would take the command runs   *)
(* the turn.                                                               *)
StopCancels ==
  [][\A p \in Platforms : TimeOut(p) =>
       \A n \in Range(inbox[p]) : mail[n].key = Key(p) => mail[n].kind # "stop"]_vars

(* What the comment of Stop says (internal/bot/gateway.go:308): it "stops  *)
(* all adapters and closes all sessions".  A loop that is building, or has *)
(* messages left, opens one afterwards.                                    *)
StopCloses ==
  stopped /\ (\A p \in Platforms : At(p, "waiting") /\ inbox[p] = <<>>)
    => \A c \in Controllers : ~ctrl[c].open

=============================================================================
