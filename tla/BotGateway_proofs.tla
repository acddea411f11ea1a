------------------------- MODULE BotGateway_proofs -------------------------
(***************************************************************************)
(* The conversations of BotGateway and their controllers, for any number   *)
(* of platforms, users, messages and controllers.                          *)
(***************************************************************************)
EXTENDS BotGateway, FiniteSetTheorems, TLAPS

Places == {"waiting", "lookup", "building", "found", "ready", "turn", "ending"}
Fates  == {"unsent", "queued", "dropped", "pending", "taken", "done"}
Loops  == [at : Places, n : Numbers \cup {None}, c : Controllers \cup {None},
           asks : BOOLEAN, cancelled : BOOLEAN]
Mails  == [key : Keys \cup {<<>>}, kind : Kinds \cup {"none"}, fate : Fates]
States == [open : BOOLEAN, running : BOOLEAN, cancel : BOOLEAN, stale : BOOLEAN]
Slots  == [at : {"building", "claimed", "parked", "failed", "closed"},
           c : Controllers \cup {None}]

MailTypes ==
  /\ inbox \in [Platforms -> Seq(Numbers)] /\ sent \in Nat
  /\ mail \in [Numbers -> Mails]
  /\ stopped \in BOOLEAN

LoopTypes ==
  /\ loop \in [Platforms -> Loops]
  /\ active \subseteq Keys /\ pending = [k \in Keys |-> <<>>]

CtrlTypes ==
  /\ controllers \in [Keys -> Controllers \cup {None}]
  /\ prewarm \in Slots
  /\ ctrl \in [Controllers -> States] /\ built \in Nat
  /\ served \in [Controllers -> SUBSET Keys]

(* A message that is in hand has a conversation; those in an inbox are     *)
(* apart, and a loop is at work on one that it has taken.                  *)
Fits(n, p) == n \in Numbers /\ n <= sent /\ mail[n].key \in Keys /\ mail[n].key[1] = p

MailInv ==
  /\ \A n \in Numbers : InHand(n) <=> mail[n].key \in Keys
  /\ \A n \in Numbers : n > sent => mail[n].fate = "unsent"
  /\ \A p \in Platforms : \A i \in 1..Len(inbox[p]) :
       Fits(inbox[p][i], p) /\ mail[inbox[p][i]].fate = "queued"
  /\ \A p \in Platforms : \A i, j \in 1..Len(inbox[p]) : inbox[p][i] = inbox[p][j] => i = j
  /\ \A p \in Platforms : Len(inbox[p]) <= Buffer

LoopInv ==
  \A p \in Platforms :
    /\ ~At(p, "waiting") => Fits(loop[p].n, p) /\ mail[loop[p].n].fate = "taken"
    /\ At(p, "waiting") => loop[p].n = None
    /\ loop[p].at \in {"waiting", "lookup", "building"} => loop[p].c = None
    /\ loop[p].at \in {"found", "ready", "turn"} => loop[p].c # None

(* A controller has served what the table and the loops say it serves, and *)
(* nothing before it was built.                                            *)
ServedInv ==
  /\ \A c \in Controllers : \A k, l \in served[c] : k = l
  /\ \A c \in Controllers : c > built => served[c] = {} /\ ~ctrl[c].open
  /\ \A k \in Keys : controllers[k] # None => k \in served[controllers[k]]
  /\ \A p \in Platforms : loop[p].c # None => Key(p) \in served[loop[p].c]
  /\ \A p \in Platforms : At(p, "building") => controllers[Key(p)] = None
  /\ prewarm.c # None => prewarm.c <= built /\ served[prewarm.c] = {}
  /\ prewarm.at = "building" => prewarm.c = None

(* A controller that a loop has in hand is not idle.                       *)
HeldInv ==
  /\ \A p \in Platforms : loop[p].at \in {"found", "ready"} => ~ctrl[loop[p].c].stale
  /\ \A p \in Platforms : At(p, "turn") => ctrl[loop[p].c].running
  /\ \A c \in Controllers : ctrl[c].running => \E p \in Platforms : loop[p].c = c /\ At(p, "turn")

Basics == MailTypes /\ LoopTypes /\ CtrlTypes /\ MailInv /\ LoopInv
IInv == Basics /\ BusyIsWorkedOn /\ ServedInv /\ HeldInv /\ NoneForgotten

-----------------------------------------------------------------------------

LEMMA PairsAreKeys ==
  /\ <<>> \notin Keys
  /\ \A k \in Keys : k[1] \in Platforms
BY DEF Keys

LEMMA InitIInv == Init => IInv
<1> SUFFICES ASSUME Init PROVE IInv
  OBVIOUS
<1> USE DEF Init, None
<1>1. MailTypes /\ LoopTypes /\ CtrlTypes
  <2>1. MailTypes
    <3>0. <<>> \in Seq(Numbers)
      OBVIOUS
    <3>1. inbox \in [Platforms -> Seq(Numbers)] /\ sent \in Nat /\ stopped \in BOOLEAN
      BY <3>0
    <3>2. Over("unsent") \in Mails
      BY DEF Over, Mails, Fates
    <3> QED
      BY <3>1, <3>2 DEF MailTypes
  <2>2. LoopTypes
    BY DEF LoopTypes, Loops, Places, Waiting
  <2>3. CtrlTypes
    BY DEF CtrlTypes, States, Slots, Unbuilt
  <2> QED
    BY <2>1, <2>2, <2>3
<1>2. MailInv /\ LoopInv
  BY GatewayBounds, PairsAreKeys DEF MailInv, LoopInv, InHand, Over, At, Waiting, Numbers
<1>3. BusyIsWorkedOn
  BY DEF BusyIsWorkedOn, At, Waiting
<1>4. ServedInv
  BY DEF ServedInv, Unbuilt, Waiting, At, Controllers
<1>5. HeldInv /\ NoneForgotten
  BY DEF HeldInv, NoneForgotten, Unbuilt, Waiting, At
<1> QED
  BY <1>1, <1>2, <1>3, <1>4, <1>5 DEF IInv, Basics

-----------------------------------------------------------------------------
(* What the steps of a loop do to its places.                              *)

SamePlaces ==
  /\ loop' \in [Platforms -> Loops]
  /\ \A p \in Platforms : loop'[p].at = loop[p].at /\ loop'[p].n = loop[p].n /\ loop'[p].c = loop[p].c

LEMMA CancelledPlaces ==
  ASSUME LoopTypes, NEW c, NEW p \in Platforms
  PROVE  /\ Cancelled(c)[p] \in Loops
         /\ Cancelled(c)[p].at = loop[p].at /\ Cancelled(c)[p].n = loop[p].n
         /\ Cancelled(c)[p].c = loop[p].c
BY DEF LoopTypes, Loops, Cancelled

LEMMA PlacesKept ==
  ASSUME IInv,
         \/ \E p \in Platforms : StopCommand(p) \/ ApproveCommand(p) \/ AskUser(p) \/ TimeOut(p)
         \/ \E k \in Keys : Reap(k)
         \/ Stop
  PROVE  SamePlaces
<1> USE DEF IInv, Basics, LoopTypes
<1>0. ASSUME loop' = loop PROVE SamePlaces
  BY <1>0 DEF SamePlaces
<1>1. ASSUME NEW c, loop' = Cancelled(c) PROVE SamePlaces
  <2>1. loop' \in [Platforms -> Loops]
    BY <1>1, CancelledPlaces DEF Cancelled
  <2> QED
    BY <1>1, <2>1, CancelledPlaces DEF SamePlaces
<1>2. ASSUME NEW p \in Platforms, StopCommand(p) PROVE SamePlaces
  BY <1>0, <1>1, <1>2 DEF StopCommand
<1>3. ASSUME NEW p \in Platforms, ApproveCommand(p) PROVE SamePlaces
  BY <1>3 DEF ApproveCommand, SamePlaces, Loops
<1>4. ASSUME NEW p \in Platforms, AskUser(p) PROVE SamePlaces
  BY <1>4 DEF AskUser, SamePlaces, Loops
<1>5. ASSUME NEW p \in Platforms, TimeOut(p) PROVE SamePlaces
  BY <1>5 DEF TimeOut, SamePlaces, Loops
<1>6. ASSUME NEW k \in Keys, Reap(k) PROVE SamePlaces
  BY <1>1, <1>6 DEF Reap
<1>7. ASSUME Stop PROVE SamePlaces
  <2>1. loop' \in [Platforms -> Loops]
    BY <1>7, CancelledPlaces DEF Stop
  <2> QED
    BY <1>7, <2>1, CancelledPlaces DEF Stop, SamePlaces
<1> QED
  BY <1>2, <1>3, <1>4, <1>5, <1>6, <1>7

(* The head of an inbox, and what stays in it.                             *)
LEMMA HeadAndTail ==
  ASSUME IInv, NEW p \in Platforms, inbox[p] # <<>>
  PROVE  /\ Fits(Head(inbox[p]), p) /\ mail[Head(inbox[p])].fate = "queued"
         /\ Tail(inbox[p]) \in Seq(Numbers) /\ Len(Tail(inbox[p])) <= Buffer
         /\ \A i \in 1..Len(Tail(inbox[p])) :
              /\ i + 1 \in 1..Len(inbox[p]) /\ Tail(inbox[p])[i] = inbox[p][i + 1]
              /\ Tail(inbox[p])[i] # Head(inbox[p])
<1>1. inbox[p] \in Seq(Numbers) /\ Len(inbox[p]) \in Nat \ {0} /\ 1 \in 1..Len(inbox[p])
  BY DEF IInv, Basics, MailTypes
<1>2. Head(inbox[p]) = inbox[p][1]
  BY <1>1
<1>3. Tail(inbox[p]) \in Seq(Numbers) /\ Len(Tail(inbox[p])) = Len(inbox[p]) - 1
  BY <1>1
<1>4. \A i \in 1..Len(Tail(inbox[p])) : i + 1 \in 1..Len(inbox[p]) /\ Tail(inbox[p])[i] = inbox[p][i + 1]
  BY <1>1, <1>3
<1>5. Len(Tail(inbox[p])) <= Buffer
  BY <1>1, <1>3, GatewayBounds DEF IInv, Basics, MailInv
<1> QED
  BY <1>1, <1>2, <1>3, <1>4, <1>5 DEF IInv, Basics, MailInv

(* Two loops are never at work on one conversation.                        *)
LEMMA LoopsApart ==
  ASSUME IInv, NEW p \in Platforms, NEW q \in Platforms, ~At(p, "waiting"), ~At(q, "waiting"),
         Key(p) = Key(q)
  PROVE  p = q
BY DEF IInv, Basics, LoopInv, Fits, Key

LEMMA TakeTextIs ==
  ASSUME IInv, NEW p \in Platforms, TakeText(p)
  PROVE  LET n == Head(inbox[p])
         IN /\ At(p, "waiting") /\ mail[n].key \notin active
            /\ active' = active \cup {mail[n].key} /\ pending' = pending
            /\ mail' = [mail EXCEPT ![n].fate = "taken"]
            /\ loop' = [loop EXCEPT ![p] = [Waiting EXCEPT !.at = "lookup", !.n = n]]
<1>1. At(p, "waiting") /\ inbox[p] # <<>>
  BY DEF TakeText, TakeFrom
<1>2. Fits(Head(inbox[p]), p)
  BY <1>1, HeadAndTail
<1>3. mail[Head(inbox[p])].key \notin active
  <2> SUFFICES ASSUME mail[Head(inbox[p])].key \in active PROVE FALSE
    OBVIOUS
  <2>1. PICK q \in Platforms : ~At(q, "waiting") /\ mail[Head(inbox[p])].key = Key(q)
    BY DEF IInv, BusyIsWorkedOn
  <2>2. Key(q)[1] = q
    BY <2>1 DEF IInv, Basics, LoopInv, Fits, Key
  <2> QED
    BY <1>1, <1>2, <2>1, <2>2 DEF Fits
<1> QED
  BY <1>1, <1>3 DEF TakeText, First

LEMMA EndTurnIs ==
  ASSUME IInv, NEW p \in Platforms, EndTurn(p)
  PROVE  /\ At(p, "ending") /\ pending' = pending
         /\ mail' = [n \in Numbers |-> IF n = loop[p].n THEN Over("done") ELSE mail[n]]
         /\ active' = active \ {Key(p)} /\ loop' = [loop EXCEPT ![p] = Waiting]
<1>1. At(p, "ending") /\ Key(p) \in Keys
  BY DEF EndTurn, IInv, Basics, LoopInv, Fits, Key, At
<1>2. pending[Key(p)] = <<>> /\ Range(<<>>) = {}
  BY <1>1 DEF IInv, Basics, LoopTypes, Range
<1>3. pending' = pending
  BY <1>1, <1>2 DEF EndTurn, IInv, Basics, LoopTypes
<1> QED
  BY <1>1, <1>2, <1>3 DEF EndTurn, Release

-----------------------------------------------------------------------------
(* The steps by what they leave alone.                                     *)

LEMMA NextCases ==
  ASSUME Next
  PROVE  \/ \E k \in Keys, kind \in Kinds : Receive(k, kind)
         \/ \E p \in Platforms : StopCommand(p) \/ ApproveCommand(p)
         \/ \E p \in Platforms : TakeText(p)
         \/ \E p \in Platforms : LookupFound(p) \/ Claim(p) \/ LookupNone(p)
         \/ \E p \in Platforms : BuildDone(p) \/ BuildFail(p)
         \/ \E p \in Platforms : Prepare(p) \/ RunTurn(p) \/ TurnReturn(p) \/ EndTurn(p)
         \/ \E p \in Platforms : AskUser(p) \/ TimeOut(p)
         \/ PrewarmDone \/ PrewarmFail
         \/ \E c \in Controllers : Age(c)
         \/ \E k \in Keys : Reap(k)
         \/ Stop
BY DEF Next, Loop

(* A step of the loop that neither takes a message nor ends a turn.        *)
Inner(p) ==
  \/ LookupFound(p) \/ Claim(p) \/ LookupNone(p) \/ BuildDone(p) \/ BuildFail(p)
  \/ Prepare(p) \/ RunTurn(p) \/ TurnReturn(p)

LEMMA InnerIs ==
  ASSUME IInv, NEW p \in Platforms, Inner(p)
  PROVE  /\ ~At(p, "waiting") /\ UNCHANGED <<mailVars, stopped, sessionVars>>
         /\ loop'[p].n = loop[p].n /\ loop'[p].at \in Places \ {"waiting"}
         /\ loop' \in [Platforms -> Loops]
         /\ \A q \in Platforms \ {p} : loop'[q] = loop[q]
<1> USE DEF IInv, Basics, LoopTypes, CtrlTypes, Places, mailVars, sessionVars
<1>1. CASE LookupFound(p)
  <2>1. Key(p) \in Keys
    BY <1>1 DEF LookupFound, At, LoopInv, Fits, Key
  <2> QED
    BY ZenonT(30), <1>1, <2>1 DEF LookupFound, At, Use, Loops
<1>2. CASE Claim(p)
  <2>1. prewarm.c \in Controllers
    BY <1>2 DEF Claim, Slots
  <2>2. loop' = [loop EXCEPT ![p].at = "found", ![p].c = prewarm.c] /\ At(p, "lookup")
    BY <1>2 DEF Claim, Use
  <2>3. UNCHANGED <<mailVars, stopped, sessionVars>>
    BY <1>2 DEF Claim
  <2> QED
    BY <2>1, <2>2, <2>3 DEF At, Loops
<1>3. CASE LookupNone(p)
  BY <1>3 DEF LookupNone, At, Goto, Loops
<1>4. CASE BuildDone(p)
  <2>1. built' \in Controllers
    BY <1>4, GatewayBounds DEF BuildDone, Built, Controllers
  <2> QED
    BY ZenonT(30), <1>4, <2>1 DEF BuildDone, At, Use, Loops
<1>5. CASE BuildFail(p)
  BY <1>5 DEF BuildFail, At, Goto, Loops
<1>6. CASE Prepare(p)
  BY <1>6 DEF Prepare, At, Goto, Loops
<1>7. CASE RunTurn(p)
  BY <1>7 DEF RunTurn, At, Goto, Loops
<1>8. CASE TurnReturn(p)
  BY <1>8 DEF TurnReturn, At, Goto, Loops
<1> QED
  BY <1>1, <1>2, <1>3, <1>4, <1>5, <1>6, <1>7, <1>8 DEF Inner

LEMMA MailTypesStep ==
  ASSUME IInv, Next PROVE MailTypes'
<1> USE DEF IInv, Basics, MailTypes, LoopTypes, mailVars
<1>1. ASSUME NEW k \in Keys, NEW kind \in Kinds, Receive(k, kind) PROVE MailTypes'
  <2>1. sent' \in Nat /\ sent' \in Numbers
    BY <1>1, GatewayBounds DEF Receive, Numbers
  <2>2. Message(k, kind) \in Mails /\ Over("dropped") \in Mails
    BY DEF Message, Over, Mails, Fates
  <2>3. k[1] \in Platforms
    BY PairsAreKeys
  <2>4. stopped' \in BOOLEAN
    BY <1>1 DEF Receive
  <2>5. CASE Len(inbox[k[1]]) < Buffer
    <3>1. Append(inbox[k[1]], sent') \in Seq(Numbers)
      BY <2>1, <2>3
    <3>2. /\ inbox' = [inbox EXCEPT ![k[1]] = Append(inbox[k[1]], sent')]
          /\ mail' = [mail EXCEPT ![sent'] = Message(k, kind)]
      BY <1>1, <2>5 DEF Receive
    <3> QED
      BY <2>1, <2>2, <2>4, <3>1, <3>2
  <2>6. CASE ~(Len(inbox[k[1]]) < Buffer)
    BY <1>1, <2>1, <2>2, <2>3, <2>4, <2>6 DEF Receive
  <2> QED
    BY <2>5, <2>6
<1>2. ASSUME NEW p \in Platforms, TakeFrom(p), NEW m \in Mails,
             mail' = [mail EXCEPT ![Head(inbox[p])] = m]
      PROVE  MailTypes'
  BY <1>2, HeadAndTail DEF TakeFrom
<1>3. ASSUME NEW p \in Platforms, StopCommand(p) \/ ApproveCommand(p) PROVE MailTypes'
  <2>1. Over("done") \in Mails
    BY DEF Over, Mails, Fates
  <2> QED
    BY <1>2, <1>3, <2>1 DEF StopCommand, ApproveCommand, Handled
<1>4. ASSUME NEW p \in Platforms, TakeText(p) PROVE MailTypes'
  <2>1. Head(inbox[p]) \in Numbers
    BY <1>4, HeadAndTail DEF TakeText, TakeFrom, Fits
  <2>2. [mail[Head(inbox[p])] EXCEPT !.fate = "taken"] \in Mails
    BY <2>1 DEF Mails, Fates
  <2>3. mail' = [mail EXCEPT ![Head(inbox[p])] = [mail[Head(inbox[p])] EXCEPT !.fate = "taken"]]
    BY <1>4, TakeTextIs
  <2> QED
    BY <1>2, <1>4, <2>2, <2>3 DEF TakeText
<1>5. ASSUME NEW p \in Platforms, EndTurn(p) PROVE MailTypes'
  <2>1. Over("done") \in Mails
    BY DEF Over, Mails, Fates
  <2> QED
    BY <1>5, <2>1, EndTurnIs DEF EndTurn
<1>6. ASSUME NEW p \in Platforms, Inner(p) PROVE MailTypes'
  BY <1>6, InnerIs
<1>7. ASSUME UNCHANGED mailVars, stopped' \in BOOLEAN PROVE MailTypes'
  BY <1>7
<1>8. ASSUME \/ \E p \in Platforms : AskUser(p) \/ TimeOut(p)
             \/ PrewarmDone \/ PrewarmFail
             \/ \E c \in Controllers : Age(c)
             \/ \E k \in Keys : Reap(k)
             \/ Stop
      PROVE  MailTypes'
  BY <1>8, <1>7 DEF AskUser, TimeOut, PrewarmDone, PrewarmFail, Age, Reap, Stop
<1> QED
  BY NextCases, <1>1, <1>3, <1>4, <1>5, <1>6, <1>8 DEF Inner

LEMMA LoopTypesStep ==
  ASSUME IInv, Next PROVE LoopTypes'
<1> USE DEF IInv, Basics, LoopTypes, sessionVars
<1>1. ASSUME NEW k \in Keys, NEW kind \in Kinds, Receive(k, kind) PROVE LoopTypes'
  BY <1>1 DEF Receive
<1>2. ASSUME NEW p \in Platforms, StopCommand(p) PROVE LoopTypes'
  <2>1. First(p).key \in Keys
    BY <1>2, HeadAndTail DEF StopCommand, TakeFrom, First, Fits
  <2>2. active' \subseteq Keys /\ pending' = [k \in Keys |-> <<>>]
    BY <1>2, <2>1 DEF StopCommand, Forget
  <2> QED
    BY <1>2, <2>2, PlacesKept DEF SamePlaces
<1>3. ASSUME NEW p \in Platforms, ApproveCommand(p) PROVE LoopTypes'
  BY <1>3, PlacesKept DEF SamePlaces, ApproveCommand
<1>4. ASSUME NEW p \in Platforms, TakeText(p) PROVE LoopTypes'
  <2>1. Fits(Head(inbox[p]), p)
    BY <1>4, HeadAndTail DEF TakeText, TakeFrom
  <2>2. [Waiting EXCEPT !.at = "lookup", !.n = Head(inbox[p])] \in Loops
    BY <2>1 DEF Waiting, Loops, Places, Fits
  <2>3. loop' \in [Platforms -> Loops]
    BY <1>4, <2>2, TakeTextIs
  <2> QED
    BY ZenonT(30), <1>4, <2>1, <2>3, TakeTextIs DEF Fits
<1>5. ASSUME NEW p \in Platforms, EndTurn(p) PROVE LoopTypes'
  <2>1. Waiting \in Loops
    BY DEF Waiting, Loops, Places
  <2> QED
    BY <1>5, <2>1, EndTurnIs
<1>6. ASSUME NEW p \in Platforms, Inner(p) PROVE LoopTypes'
  BY <1>6, InnerIs
<1>7. ASSUME NEW p \in Platforms, AskUser(p) \/ TimeOut(p) PROVE LoopTypes'
  BY <1>7, PlacesKept DEF SamePlaces, AskUser, TimeOut
<1>8. ASSUME \/ PrewarmDone \/ PrewarmFail
             \/ \E c \in Controllers : Age(c)
      PROVE  LoopTypes'
  BY <1>8 DEF PrewarmDone, PrewarmFail, Age
<1>9. ASSUME \/ \E k \in Keys : Reap(k)
             \/ Stop
      PROVE  LoopTypes'
  BY <1>9, PlacesKept DEF SamePlaces, Reap, Stop
<1> QED
  BY NextCases, <1>1, <1>2, <1>3, <1>4, <1>5, <1>6, <1>7, <1>8, <1>9 DEF Inner

\* The controllers of the steps that change one of them.
LEMMA InHandControllers ==
  ASSUME IInv
  PROVE  /\ \A p \in Platforms : ~At(p, "waiting") => Key(p) \in Keys
         /\ \A p \in Platforms : loop[p].at \in {"found", "ready", "turn"} => loop[p].c \in Controllers
         /\ \A k \in Keys : controllers[k] # None => controllers[k] \in Controllers
         /\ prewarm.c # None => prewarm.c \in Controllers
         /\ \A c \in Known : c \in Controllers
BY DEF IInv, Basics, LoopInv, LoopTypes, CtrlTypes, Loops, Slots, Fits, Key, Known

LEMMA BuiltIs ==
  ASSUME IInv, Built
  PROVE  /\ built' = built + 1 /\ built' \in Controllers
         /\ ctrl' = [ctrl EXCEPT ![built'] = Fresh]
         /\ ctrl' \in [Controllers -> States] /\ ctrl'[built'] = Fresh
         /\ \A c \in Controllers \ {built'} : ctrl'[c] = ctrl[c]
<1>1. built' = built + 1 /\ built' \in Controllers
  BY GatewayBounds DEF Built, Controllers, IInv, Basics, CtrlTypes
<1>2. Fresh \in States
  BY DEF Fresh, Unbuilt, States
<1> QED
  BY <1>1, <1>2 DEF Built, IInv, Basics, CtrlTypes

LEMMA CtrlTypesStep ==
  ASSUME IInv, Next PROVE CtrlTypes'
<1> USE InHandControllers DEF IInv, Basics, CtrlTypes, ctrlVars
<1>1. ASSUME UNCHANGED ctrlVars PROVE CtrlTypes'
  BY <1>1
<1>2. ASSUME NEW p \in Platforms, LookupFound(p) PROVE CtrlTypes'
  <2>1. Key(p) \in Keys
    BY <1>2 DEF LookupFound, At
  <2>2. [ctrl[controllers[Key(p)]] EXCEPT !.stale = FALSE] \in States
    <3>1. controllers[Key(p)] \in Controllers
      BY <1>2, <2>1 DEF LookupFound
    <3> QED
      BY <3>1 DEF States
  <2> QED
    BY <1>2, <2>1, <2>2 DEF LookupFound, Touch
<1>3. ASSUME NEW p \in Platforms, Claim(p) PROVE CtrlTypes'
  <2>1. Key(p) \in Keys /\ prewarm.c \in Controllers
    BY <1>3 DEF Claim, At
  <2>2. [ctrl[prewarm.c] EXCEPT !.stale = FALSE] \in States
    BY <2>1 DEF States
  <2>3. FreeSlot \in Slots
    BY DEF FreeSlot, Slots
  <2> QED
    BY <1>3, <2>1, <2>2, <2>3 DEF Claim, Touch, Serve, Register
<1>4. ASSUME NEW p \in Platforms, BuildDone(p) PROVE CtrlTypes'
  <2>1. Key(p) \in Keys
    BY <1>4 DEF BuildDone, At
  <2>2. Built
    BY <1>4 DEF BuildDone
  <2> QED
    BY <1>4, <2>1, <2>2, BuiltIs DEF BuildDone, Serve, Register
<1>5. ASSUME PrewarmDone PROVE CtrlTypes'
  <2>1. Built
    BY <1>5 DEF PrewarmDone
  <2>2. [at |-> "parked", c |-> built'] \in Slots
    BY <2>1, BuiltIs DEF Slots
  <2> QED
    BY <1>5, <2>1, <2>2, BuiltIs DEF PrewarmDone
<1>6. ASSUME PrewarmFail PROVE CtrlTypes'
  <2>1. [at |-> "failed", c |-> None] \in Slots
    BY DEF Slots
  <2> QED
    BY <1>6, <2>1 DEF PrewarmFail
<1>7. ASSUME NEW p \in Platforms, Prepare(p) \/ RunTurn(p) \/ TurnReturn(p) PROVE CtrlTypes'
  <2>1. Of(p) \in Controllers
    BY <1>7 DEF Prepare, RunTurn, TurnReturn, At, Of
  <2>2. /\ [ctrl[Of(p)] EXCEPT !.cancel = TRUE, !.stale = FALSE] \in States
        /\ [ctrl[Of(p)] EXCEPT !.running = TRUE] \in States
        /\ [ctrl[Of(p)] EXCEPT !.running = FALSE] \in States
    BY <2>1 DEF States
  <2> QED
    BY <1>7, <2>1, <2>2 DEF Prepare, RunTurn, TurnReturn
<1>8. ASSUME NEW c \in Controllers, Age(c) PROVE CtrlTypes'
  <2>1. [ctrl[c] EXCEPT !.stale = TRUE] \in States
    BY DEF States
  <2> QED
    BY <1>8, <2>1 DEF Age
<1>9. \A c \in Controllers : Shut(ctrl[c]) \in States
  BY DEF Shut, States
<1>10. ASSUME NEW k \in Keys, Reap(k) PROVE CtrlTypes'
  BY <1>9, <1>10 DEF Reap
<1>11. ASSUME Stop PROVE CtrlTypes'
  <2>1. [at |-> "closed", c |-> None] \in Slots
    BY DEF Slots
  <2> QED
    BY <1>9, <1>11, <2>1 DEF Stop
<1>12. ASSUME \/ \E k \in Keys, kind \in Kinds : Receive(k, kind)
              \/ \E p \in Platforms : StopCommand(p) \/ ApproveCommand(p)
              \/ \E p \in Platforms : TakeText(p)
              \/ \E p \in Platforms : LookupNone(p) \/ BuildFail(p) \/ EndTurn(p)
              \/ \E p \in Platforms : AskUser(p) \/ TimeOut(p)
       PROVE  CtrlTypes'
  BY <1>1, <1>12
     DEF Receive, StopCommand, ApproveCommand, TakeText, LookupNone, BuildFail, EndTurn, AskUser, TimeOut
<1> QED
  BY NextCases, <1>2, <1>3, <1>4, <1>5, <1>6, <1>7, <1>8, <1>10, <1>11, <1>12

-----------------------------------------------------------------------------
(* The messages.                                                           *)

LEMMA NextNumber ==
  ASSUME NEW s \in Nat, NEW n \in Int, n <= s
  PROVE  n # s + 1 /\ n <= s + 1
OBVIOUS

LEMMA MailInvStep ==
  ASSUME IInv, Next PROVE MailInv'
<1> USE DEF MailInv, InHand, Fits
<1>0. MailTypes /\ MailInv
  BY DEF IInv, Basics
<1>1. ASSUME UNCHANGED mailVars PROVE MailInv'
  BY <1>0, <1>1 DEF mailVars
<1>2. ASSUME NEW k \in Keys, NEW kind \in Kinds, Receive(k, kind) PROVE MailInv'
  <2>1. sent' = sent + 1 /\ sent' \in Numbers /\ k[1] \in Platforms
    BY <1>0, <1>2, GatewayBounds, PairsAreKeys DEF Receive, Numbers, MailTypes
  <2>2. sent \in Nat /\ \A n \in Numbers : n \in Int
    BY <1>0, GatewayBounds DEF Numbers, MailTypes
  <2>3. CASE Len(inbox[k[1]]) < Buffer
    <3>1. /\ inbox' = [inbox EXCEPT ![k[1]] = Append(inbox[k[1]], sent')]
          /\ mail' = [mail EXCEPT ![sent'] = Message(k, kind)]
      BY <1>2, <2>3 DEF Receive
    <3>2. inbox[k[1]] \in Seq(Numbers) /\ Len(inbox[k[1]]) \in Nat
      BY <1>0, <2>1 DEF MailTypes
    <3>3. /\ Len(inbox'[k[1]]) = Len(inbox[k[1]]) + 1
          /\ inbox'[k[1]][Len(inbox[k[1]]) + 1] = sent'
          /\ \A i \in 1..Len(inbox[k[1]]) : inbox'[k[1]][i] = inbox[k[1]][i]
      BY <1>0, <2>1, <3>1, <3>2 DEF MailTypes
    <3>4. \A p \in Platforms \ {k[1]} : inbox'[p] = inbox[p]
      BY <1>0, <3>1 DEF MailTypes
    <3>5. \A n \in Numbers \ {sent'} : mail'[n] = mail[n]
      BY <1>0, <3>1 DEF MailTypes
    <3>6. mail'[sent'].key = k /\ mail'[sent'].fate = "queued"
      BY <1>0, <2>1, <3>1 DEF MailTypes, Message
    <3>7. \A p \in Platforms : \A i \in 1..Len(inbox[p]) :
            /\ inbox[p][i] \in Numbers \ {sent'} /\ inbox[p][i] <= sent /\ inbox[p][i] <= sent'
            /\ mail'[inbox[p][i]].key \in Keys /\ mail'[inbox[p][i]].key[1] = p
            /\ mail'[inbox[p][i]].fate = "queued"
      <4> TAKE p \in Platforms
      <4> TAKE i \in 1..Len(inbox[p])
      <4>1. /\ inbox[p][i] \in Numbers /\ inbox[p][i] <= sent
            /\ mail[inbox[p][i]].key \in Keys /\ mail[inbox[p][i]].key[1] = p
            /\ mail[inbox[p][i]].fate = "queued"
        BY <1>0
      <4>2. inbox[p][i] # sent' /\ inbox[p][i] <= sent'
        BY <2>1, <2>2, <4>1, NextNumber
      <4> QED
        BY <3>5, <4>1, <4>2
    <3>8. (\A n \in Numbers : InHand(n) <=> mail[n].key \in Keys)'
      BY <1>0, <3>5, <3>6
    <3>9. (\A n \in Numbers : n > sent => mail[n].fate = "unsent")'
      BY <1>0, <2>1, <2>2, <3>5 DEF MailTypes
    <3>10. ASSUME NEW p \in Platforms, NEW i \in 1..Len(inbox'[p])
           PROVE  Fits(inbox[p][i], p)' /\ mail'[inbox'[p][i]].fate = "queued"
      <4>1. CASE p # k[1]
        BY <3>4, <3>7, <3>10, <4>1
      <4>2. CASE p = k[1] /\ i = Len(inbox[k[1]]) + 1
        BY <2>1, <2>2, <3>3, <3>6, <4>2
      <4>3. CASE p = k[1] /\ i # Len(inbox[k[1]]) + 1
        <5>1. i \in 1..Len(inbox[p])
          BY <3>2, <3>3, <3>10, <4>3
        <5>2. inbox'[p][i] = inbox[p][i]
          BY <3>3, <4>3, <5>1
        <5> QED
          BY <3>7, <5>1, <5>2
      <4> QED
        BY <4>1, <4>2, <4>3
    <3>11. ASSUME NEW p \in Platforms, NEW i \in 1..Len(inbox'[p]), NEW j \in 1..Len(inbox'[p]),
                  inbox'[p][i] = inbox'[p][j]
           PROVE  i = j
      <4>1. CASE p # k[1]
        BY <1>0, <3>4, <3>11, <4>1
      <4>2. CASE p = k[1]
        <5>1. \A l \in 1..Len(inbox'[p]) :
                l = Len(inbox[p]) + 1 \/ (l \in 1..Len(inbox[p]) /\ inbox'[p][l] = inbox[p][l] /\ inbox[p][l] # sent')
          BY <3>2, <3>3, <3>7, <4>2
        <5>2. inbox'[p][Len(inbox[p]) + 1] = sent'
          BY <3>3, <4>2
        <5>3. CASE i \in 1..Len(inbox[p]) /\ j \in 1..Len(inbox[p])
          BY <1>0, <3>11, <5>1, <5>3, <3>2, <4>2
        <5>4. CASE i = Len(inbox[p]) + 1
          BY <3>11, <5>1, <5>2, <5>4
        <5>5. CASE j = Len(inbox[p]) + 1
          BY <3>11, <5>1, <5>2, <5>5
        <5> QED
          BY <3>11, <5>1, <5>3, <5>4, <5>5
      <4> QED
        BY <4>1, <4>2
    <3>12. ASSUME NEW p \in Platforms PROVE Len(inbox'[p]) <= Buffer
      BY <1>0, <2>3, <3>2, <3>3, <3>4, GatewayBounds
    <3> QED
      BY <3>8, <3>9, <3>10, <3>11, <3>12
  <2>4. CASE ~(Len(inbox[k[1]]) < Buffer)
    <3>1. inbox' = inbox /\ mail' = [mail EXCEPT ![sent'] = Over("dropped")]
      BY <1>2, <2>4 DEF Receive
    <3>2. \A n \in Numbers \ {sent'} : mail'[n] = mail[n]
      BY <1>0, <3>1 DEF MailTypes
    <3>3. mail'[sent'].key \notin Keys /\ mail'[sent'].fate = "dropped"
      BY <1>0, <2>1, <3>1, PairsAreKeys DEF MailTypes, Over
    <3>4. \A p \in Platforms : \A i \in 1..Len(inbox[p]) :
            inbox[p][i] \in Numbers \ {sent'} /\ inbox[p][i] <= sent'
      <4> TAKE p \in Platforms
      <4> TAKE i \in 1..Len(inbox[p])
      <4>1. inbox[p][i] \in Numbers /\ inbox[p][i] <= sent
        BY <1>0
      <4> QED
        BY <2>1, <2>2, <4>1, NextNumber
    <3>5. \A n \in Numbers : n > sent' => n > sent /\ n # sent'
      BY <1>0, <2>1, <2>2 DEF MailTypes
    <3> QED
      BY <1>0, <3>1, <3>2, <3>3, <3>4, <3>5
  <2> QED
    BY <2>3, <2>4
<1>3. ASSUME NEW p \in Platforms, TakeFrom(p), NEW m,
             m.key \in Keys <=> m.fate \in {"queued", "pending", "taken"},
             mail' = [mail EXCEPT ![Head(inbox[p])] = m]
      PROVE  MailInv'
  <2>1. /\ Fits(Head(inbox[p]), p)
        /\ Len(Tail(inbox[p])) <= Buffer
        /\ \A i \in 1..Len(Tail(inbox[p])) :
             /\ i + 1 \in 1..Len(inbox[p]) /\ Tail(inbox[p])[i] = inbox[p][i + 1]
             /\ Tail(inbox[p])[i] # Head(inbox[p])
    BY <1>3, HeadAndTail DEF TakeFrom
  <2>2. inbox' = [inbox EXCEPT ![p] = Tail(inbox[p])] /\ sent' = sent
    BY <1>3 DEF TakeFrom
  <2>3. mail'[Head(inbox[p])] = m /\ \A n \in Numbers \ {Head(inbox[p])} : mail'[n] = mail[n]
    BY <1>0, <1>3, <2>1 DEF MailTypes
  <2>4. inbox'[p] = Tail(inbox[p]) /\ \A q \in Platforms \ {p} : inbox'[q] = inbox[q]
    BY <1>0, <2>2 DEF MailTypes
  <2>5. \A q \in Platforms \ {p} : \A i \in 1..Len(inbox[q]) : inbox[q][i] # Head(inbox[p])
    BY <1>0, <2>1
  <2>6. (\A n \in Numbers : InHand(n) <=> mail[n].key \in Keys)'
    BY <1>0, <1>3, <2>3
  <2>7. (\A n \in Numbers : n > sent => mail[n].fate = "unsent")'
    BY <1>0, <2>1, <2>2, <2>3, GatewayBounds DEF MailTypes, Numbers
  <2>8. ASSUME NEW q \in Platforms, NEW i \in 1..Len(inbox'[q])
        PROVE  Fits(inbox[q][i], q)' /\ mail'[inbox'[q][i]].fate = "queued"
    <3>1. CASE q # p
      <4>1. i \in 1..Len(inbox[q]) /\ inbox'[q][i] = inbox[q][i]
        BY <2>4, <2>8, <3>1
      <4> QED
        BY <1>0, <2>2, <2>3, <2>5, <3>1, <4>1
    <3>2. CASE q = p
      <4>1. /\ i + 1 \in 1..Len(inbox[p]) /\ inbox'[p][i] = inbox[p][i + 1]
            /\ inbox'[p][i] # Head(inbox[p])
        BY <2>1, <2>4, <2>8, <3>2
      <4> QED
        BY <1>0, <2>2, <2>3, <3>2, <4>1
    <3> QED
      BY <3>1, <3>2
  <2>9. ASSUME NEW q \in Platforms, NEW i \in 1..Len(inbox'[q]), NEW j \in 1..Len(inbox'[q]),
               inbox'[q][i] = inbox'[q][j]
        PROVE  i = j
    <3>1. CASE q # p
      BY <1>0, <2>4, <2>9, <3>1
    <3>2. CASE q = p
      <4>1. /\ i + 1 \in 1..Len(inbox[p]) /\ inbox'[p][i] = inbox[p][i + 1]
            /\ j + 1 \in 1..Len(inbox[p]) /\ inbox'[p][j] = inbox[p][j + 1]
        BY <2>1, <2>4, <2>9, <3>2
      <4>2. i + 1 = j + 1
        BY <1>0, <2>9, <3>2, <4>1
      <4> QED
        BY <4>2
    <3> QED
      BY <3>1, <3>2
  <2>10. ASSUME NEW q \in Platforms PROVE Len(inbox'[q]) <= Buffer
    BY <1>0, <2>1, <2>4
  <2> QED
    BY <2>6, <2>7, <2>8, <2>9, <2>10
<1>4. ASSUME NEW p \in Platforms, StopCommand(p) \/ ApproveCommand(p) PROVE MailInv'
  <2>1. mail' = [mail EXCEPT ![Head(inbox[p])] = Over("done")] /\ TakeFrom(p)
    BY <1>4 DEF StopCommand, ApproveCommand, Handled
  <2>2. Over("done").key \notin Keys /\ Over("done").fate = "done"
    BY PairsAreKeys DEF Over
  <2> QED
    BY <1>3, <2>1, <2>2
<1>5. ASSUME NEW p \in Platforms, TakeText(p) PROVE MailInv'
  <2>1. TakeFrom(p) /\ mail' = [mail EXCEPT ![Head(inbox[p])] = [mail[Head(inbox[p])] EXCEPT !.fate = "taken"]]
    BY <1>5, TakeTextIs DEF TakeText
  <2>2. Fits(Head(inbox[p]), p) /\ mail[Head(inbox[p])] \in Mails
    BY <1>0, <2>1, HeadAndTail DEF TakeFrom, MailTypes
  <2>3. /\ [mail[Head(inbox[p])] EXCEPT !.fate = "taken"].key \in Keys
        /\ [mail[Head(inbox[p])] EXCEPT !.fate = "taken"].fate = "taken"
    BY <2>2 DEF Mails
  <2> QED
    BY <1>3, <2>1, <2>3
<1>6. ASSUME NEW p \in Platforms, EndTurn(p) PROVE MailInv'
  <2>1. /\ mail' = [n \in Numbers |-> IF n = loop[p].n THEN Over("done") ELSE mail[n]]
        /\ inbox' = inbox /\ sent' = sent
    BY <1>6, EndTurnIs DEF EndTurn
  <2>2. loop[p].n \in Numbers /\ loop[p].n <= sent /\ mail[loop[p].n].fate = "taken"
    BY <1>6, EndTurnIs DEF IInv, Basics, LoopInv, At
  <2>3. Over("done").key \notin Keys /\ Over("done").fate = "done"
    BY PairsAreKeys DEF Over
  <2>4. \A q \in Platforms : \A i \in 1..Len(inbox[q]) : inbox[q][i] # loop[p].n
    BY <1>0, <2>2
  <2>5. \A n \in Numbers : n > sent => n # loop[p].n
    BY <1>0, <2>2, GatewayBounds DEF MailTypes, Numbers
  <2> QED
    BY <1>0, <2>1, <2>2, <2>3, <2>4, <2>5
<1>7. ASSUME NEW p \in Platforms, Inner(p) PROVE MailInv'
  BY <1>1, <1>7, InnerIs
<1>8. ASSUME \/ \E p \in Platforms : AskUser(p) \/ TimeOut(p)
             \/ PrewarmDone \/ PrewarmFail
             \/ \E c \in Controllers : Age(c)
             \/ \E k \in Keys : Reap(k)
             \/ Stop
      PROVE  MailInv'
  BY <1>1, <1>8 DEF AskUser, TimeOut, PrewarmDone, PrewarmFail, Age, Reap, Stop
<1> QED
  BY NextCases, <1>2, <1>4, <1>5, <1>6, <1>7, <1>8 DEF Inner

-----------------------------------------------------------------------------
(* The loops.                                                              *)

(* The message of a loop is not in an inbox, and not another loop's.       *)
LEMMA MessagesApart ==
  ASSUME IInv, NEW p \in Platforms, ~At(p, "waiting")
  PROVE  /\ loop[p].n \in Numbers /\ Fits(loop[p].n, p)
         /\ \A q \in Platforms : inbox[q] # <<>> => Head(inbox[q]) # loop[p].n
         /\ \A q \in Platforms \ {p} : ~At(q, "waiting") => loop[q].n # loop[p].n
<1>1. Fits(loop[p].n, p) /\ mail[loop[p].n].fate = "taken"
  BY DEF IInv, Basics, LoopInv
<1>2. \A q \in Platforms : inbox[q] # <<>> => Head(inbox[q]) # loop[p].n
  BY <1>1, HeadAndTail
<1>3. \A q \in Platforms \ {p} : ~At(q, "waiting") => loop[q].n # loop[p].n
  BY <1>1 DEF IInv, Basics, LoopInv, Fits
<1> QED
  BY <1>1, <1>2, <1>3 DEF Fits

(* What happens to other messages does not concern a loop.                 *)
LEMMA LoopInvKept ==
  ASSUME IInv, SamePlaces, sent' \in Nat, sent <= sent',
         \A p \in Platforms : ~At(p, "waiting") => mail'[loop[p].n] = mail[loop[p].n]
  PROVE  LoopInv'
<1>1. \A n \in Numbers : n \in Int /\ (n <= sent => n <= sent')
  BY GatewayBounds DEF Numbers, IInv, Basics, MailTypes
<1> QED
  BY <1>1 DEF SamePlaces, IInv, Basics, LoopInv, At, Fits

LEMMA LoopInvStep ==
  ASSUME IInv, Next PROVE LoopInv'
<1>0. MailTypes /\ LoopTypes /\ LoopInv
  BY DEF IInv, Basics
<1>1. ASSUME loop' = loop, sent' = sent, mail' = mail PROVE LoopInv'
  BY <1>0, <1>1 DEF LoopInv, At, Fits
<1>2. ASSUME NEW k \in Keys, NEW kind \in Kinds, Receive(k, kind) PROVE LoopInv'
  <2>1. sent' = sent + 1 /\ sent' \in Nat /\ sent <= sent' /\ loop' = loop
    BY <1>0, <1>2 DEF Receive, MailTypes
  <2>2. \A n \in Numbers : n <= sent => n # sent'
    BY <1>0, <2>1, GatewayBounds DEF Numbers, MailTypes
  <2>3. \A n \in Numbers \ {sent'} : mail'[n] = mail[n]
    BY <1>0, <1>2 DEF Receive, MailTypes
  <2>4. \A p \in Platforms : ~At(p, "waiting") => mail'[loop[p].n] = mail[loop[p].n]
    BY <2>2, <2>3, MessagesApart DEF Fits
  <2>5. SamePlaces
    BY <1>0, <2>1 DEF SamePlaces, LoopTypes
  <2> QED
    BY <2>1, <2>4, <2>5, LoopInvKept
<1>3. ASSUME NEW p \in Platforms, StopCommand(p) \/ ApproveCommand(p) PROVE LoopInv'
  <2>1. inbox[p] # <<>> /\ sent' = sent /\ mail' = [mail EXCEPT ![Head(inbox[p])] = Over("done")]
    BY <1>3 DEF StopCommand, ApproveCommand, TakeFrom, Handled
  <2>2. \A q \in Platforms : ~At(q, "waiting") => mail'[loop[q].n] = mail[loop[q].n]
    BY <1>0, <2>1, MessagesApart DEF MailTypes
  <2>3. SamePlaces
    BY <1>3, PlacesKept
  <2>4. sent' \in Nat /\ sent <= sent'
    BY <1>0, <2>1 DEF MailTypes
  <2> QED
    BY <2>2, <2>3, <2>4, LoopInvKept
<1>4. ASSUME NEW p \in Platforms, TakeText(p) PROVE LoopInv'
  <2> DEFINE n == Head(inbox[p])
  <2>1. inbox[p] # <<>> /\ sent' = sent /\ At(p, "waiting")
    BY <1>4 DEF TakeText, TakeFrom
  <2>2. /\ mail' = [mail EXCEPT ![n].fate = "taken"]
        /\ loop' = [loop EXCEPT ![p] = [Waiting EXCEPT !.at = "lookup", !.n = n]]
    BY <1>4, TakeTextIs
  <2>3. Fits(n, p)
    BY <2>1, HeadAndTail
  <2>4. mail'[n].key = mail[n].key /\ mail'[n].fate = "taken"
    BY <1>0, <2>2, <2>3 DEF MailTypes, Mails, Fits
  <2>5. loop'[p].at = "lookup" /\ loop'[p].n = n /\ loop'[p].c = None
    BY <1>0, <2>2 DEF LoopTypes, Waiting
  <2>6. \A q \in Platforms \ {p} : loop'[q] = loop[q]
    BY <1>0, <2>2 DEF LoopTypes
  <2>7. \A q \in Platforms \ {p} : ~At(q, "waiting") => mail'[loop[q].n] = mail[loop[q].n]
    BY <1>0, <2>1, <2>2, MessagesApart DEF MailTypes
  <2>8. ASSUME NEW q \in Platforms \ {p}
        PROVE  /\ ~At(q, "waiting")' => Fits(loop[q].n, q)' /\ mail'[loop'[q].n].fate = "taken"
               /\ At(q, "waiting")' => loop'[q].n = None
               /\ loop'[q].at \in {"waiting", "lookup", "building"} => loop'[q].c = None
               /\ loop'[q].at \in {"found", "ready", "turn"} => loop'[q].c # None
    BY <1>0, <2>1, <2>6, <2>7, <2>8 DEF LoopInv, At, Fits
  <2>9. n \in Numbers /\ n <= sent' /\ mail'[n].key \in Keys /\ mail'[n].key[1] = p
    BY <2>1, <2>3, <2>4 DEF Fits
  <2> QED
    BY <2>4, <2>5, <2>8, <2>9 DEF LoopInv, At, Fits
<1>5. ASSUME NEW p \in Platforms, EndTurn(p) PROVE LoopInv'
  <2>1. /\ mail' = [n \in Numbers |-> IF n = loop[p].n THEN Over("done") ELSE mail[n]]
        /\ loop' = [loop EXCEPT ![p] = Waiting] /\ sent' = sent /\ ~At(p, "waiting")
    BY <1>5, EndTurnIs DEF EndTurn, At
  <2>2. \A q \in Platforms \ {p} : loop'[q] = loop[q]
    BY <1>0, <2>1 DEF LoopTypes
  <2>3. \A q \in Platforms \ {p} : ~At(q, "waiting") => mail'[loop[q].n] = mail[loop[q].n]
    BY <1>0, <2>1, MessagesApart
  <2>4. loop'[p] = Waiting
    BY <1>0, <2>1 DEF LoopTypes
  <2> QED
    BY <1>0, <2>1, <2>2, <2>3, <2>4 DEF LoopInv, At, Fits, Waiting
<1>6. ASSUME NEW p \in Platforms, Inner(p) PROVE LoopInv'
  <2>1. /\ ~At(p, "waiting") /\ mail' = mail /\ sent' = sent
        /\ loop'[p].n = loop[p].n /\ loop'[p].at \in Places \ {"waiting"}
        /\ \A q \in Platforms \ {p} : loop'[q] = loop[q]
    BY <1>6, InnerIs DEF mailVars
  <2>2. /\ loop'[p].at \in {"lookup", "building"} => loop'[p].c = None
        /\ loop'[p].at \in {"found", "ready", "turn"} => loop'[p].c # None
    <3>1. CASE LookupFound(p) \/ Claim(p) \/ BuildDone(p)
      <4>1. ASSUME NEW c \in Controllers, Use(p, c) PROVE <2>2!1 /\ <2>2!2
        BY <1>0, <4>1, GatewayBounds DEF Use, LoopTypes, Controllers, None
      <4>2. CASE LookupFound(p)
        BY <4>1, <4>2, InHandControllers DEF LookupFound, At
      <4>3. CASE Claim(p)
        BY <4>1, <4>3, InHandControllers DEF Claim
      <4>4. CASE BuildDone(p)
        BY <4>1, <4>4, BuiltIs DEF BuildDone
      <4> QED
        BY <3>1, <4>2, <4>3, <4>4
    <3>2. CASE LookupNone(p) \/ BuildFail(p)
      BY <1>0, <3>2 DEF LookupNone, BuildFail, Goto, At, LoopInv, LoopTypes, Loops
    <3>3. CASE Prepare(p) \/ RunTurn(p) \/ TurnReturn(p)
      BY <1>0, <3>3 DEF Prepare, RunTurn, TurnReturn, Goto, At, LoopInv, LoopTypes, Loops
    <3> QED
      BY <1>6, <3>1, <3>2, <3>3 DEF Inner
  <2> QED
    BY <1>0, <2>1, <2>2 DEF LoopInv, At, Fits
<1>7. ASSUME \/ \E p \in Platforms : AskUser(p) \/ TimeOut(p)
             \/ \E k \in Keys : Reap(k)
             \/ Stop
      PROVE  LoopInv'
  <2>1. mail' = mail /\ sent' = sent /\ SamePlaces
    BY <1>7, PlacesKept DEF AskUser, TimeOut, Reap, Stop, mailVars
  <2>2. sent' \in Nat /\ sent <= sent'
    BY <1>0, <2>1 DEF MailTypes
  <2> QED
    BY <2>1, <2>2, LoopInvKept
<1>8. ASSUME PrewarmDone \/ PrewarmFail \/ \E c \in Controllers : Age(c) PROVE LoopInv'
  BY <1>1, <1>8 DEF PrewarmDone, PrewarmFail, Age, mailVars
<1> QED
  BY NextCases, <1>2, <1>3, <1>4, <1>5, <1>6, <1>7, <1>8 DEF Inner

-----------------------------------------------------------------------------
(* The conversations that are busy.                                        *)

\* The messages of the loops stay what they are.
KeysKept ==
  \A p \in Platforms : ~At(p, "waiting") => ~At(p, "waiting")' /\ Key(p)' = Key(p)

LEMMA BusyKept ==
  ASSUME IInv, active' = active, KeysKept, \A p \in Platforms : At(p, "waiting") => At(p, "waiting")'
  PROVE  BusyIsWorkedOn'
BY DEF IInv, BusyIsWorkedOn, KeysKept

\* A conversation whose message is next has no turn.
LEMMA NextIsFree ==
  ASSUME IInv, NEW p \in Platforms, At(p, "waiting"), inbox[p] # <<>>
  PROVE  First(p).key \in Keys \ active
<1>1. First(p).key \in Keys /\ First(p).key[1] = p
  BY HeadAndTail DEF First, Fits
<1>2. \A q \in Platforms : ~At(q, "waiting") => Key(q)[1] = q
  BY DEF IInv, Basics, LoopInv, Fits, Key
<1> QED
  BY <1>1, <1>2 DEF IInv, BusyIsWorkedOn

LEMMA KeysKeptIs ==
  ASSUME IInv, SamePlaces,
         \A p \in Platforms : ~At(p, "waiting") => mail'[loop[p].n] = mail[loop[p].n]
  PROVE  KeysKept /\ \A p \in Platforms : At(p, "waiting") => At(p, "waiting")'
BY DEF SamePlaces, KeysKept, At, Key

LEMMA MailKept ==
  ASSUME IInv, Next
  PROVE  \A p \in Platforms : ~At(p, "waiting") /\ ~EndTurn(p) => mail'[loop[p].n] = mail[loop[p].n]
<1>0. MailTypes
  BY DEF IInv, Basics
<1> SUFFICES ASSUME NEW p \in Platforms, ~At(p, "waiting"), ~EndTurn(p)
             PROVE  mail'[loop[p].n] = mail[loop[p].n]
  OBVIOUS
<1>1. /\ loop[p].n \in Numbers /\ loop[p].n <= sent
      /\ \A q \in Platforms : inbox[q] # <<>> => Head(inbox[q]) # loop[p].n
      /\ \A q \in Platforms \ {p} : ~At(q, "waiting") => loop[q].n # loop[p].n
  BY MessagesApart DEF Fits
<1>2. ASSUME NEW k \in Keys, NEW kind \in Kinds, Receive(k, kind) PROVE mail'[loop[p].n] = mail[loop[p].n]
  <2>1. loop[p].n # sent'
    BY <1>0, <1>1, <1>2, GatewayBounds DEF Receive, MailTypes, Numbers
  <2> QED
    BY <1>0, <1>1, <1>2, <2>1 DEF Receive, MailTypes
<1>3. ASSUME NEW q \in Platforms, StopCommand(q) \/ ApproveCommand(q) PROVE mail'[loop[p].n] = mail[loop[p].n]
  BY <1>0, <1>1, <1>3 DEF StopCommand, ApproveCommand, TakeFrom, Handled, MailTypes
<1>4. ASSUME NEW q \in Platforms, TakeText(q) PROVE mail'[loop[p].n] = mail[loop[p].n]
  <2>1. inbox[q] # <<>> /\ mail' = [mail EXCEPT ![Head(inbox[q])].fate = "taken"]
    BY <1>4, TakeTextIs DEF TakeText, TakeFrom
  <2> QED
    BY <1>0, <1>1, <2>1 DEF MailTypes
<1>5. ASSUME NEW q \in Platforms, EndTurn(q) PROVE mail'[loop[p].n] = mail[loop[p].n]
  <2>1. ~At(q, "waiting") /\ mail' = [n \in Numbers |-> IF n = loop[q].n THEN Over("done") ELSE mail[n]]
    BY <1>5, EndTurnIs DEF At
  <2>2. q # p
    BY <1>5
  <2> QED
    BY <1>1, <2>1, <2>2
<1>6. ASSUME NEW q \in Platforms, Inner(q) PROVE mail' = mail
  BY <1>6, InnerIs DEF mailVars
<1>7. ASSUME \/ \E q \in Platforms : AskUser(q) \/ TimeOut(q)
             \/ PrewarmDone \/ PrewarmFail
             \/ \E c \in Controllers : Age(c)
             \/ \E k \in Keys : Reap(k)
             \/ Stop
      PROVE  mail' = mail
  BY <1>7 DEF AskUser, TimeOut, PrewarmDone, PrewarmFail, Age, Reap, Stop, mailVars
<1> QED
  BY NextCases, <1>2, <1>3, <1>4, <1>5, <1>6, <1>7 DEF Inner

\* Only the end of its turn takes a loop from its conversation.
LEMMA KeysStay ==
  ASSUME IInv, Next, NEW p \in Platforms, ~At(p, "waiting"), ~EndTurn(p)
  PROVE  ~At(p, "waiting")' /\ Key(p)' = Key(p)
<1>0. mail'[loop[p].n] = mail[loop[p].n]
  BY MailKept
<1>1. ASSUME NEW q \in Platforms, Inner(q) \/ EndTurn(q) \/ TakeText(q)
      PROVE  loop'[p].at # "waiting" /\ loop'[p].n = loop[p].n
  <2>1. CASE Inner(q)
    BY <2>1, InnerIs DEF At
  <2>2. CASE EndTurn(q)
    BY <2>2, EndTurnIs DEF At, IInv, Basics, LoopTypes
  <2>3. CASE TakeText(q)
    BY <2>3, TakeTextIs DEF At, IInv, Basics, LoopTypes
  <2> QED
    BY <1>1, <2>1, <2>2, <2>3
<1>2. ASSUME \/ \E q \in Platforms : StopCommand(q) \/ ApproveCommand(q) \/ AskUser(q) \/ TimeOut(q)
             \/ \E k \in Keys : Reap(k)
             \/ Stop
      PROVE  loop'[p].at # "waiting" /\ loop'[p].n = loop[p].n
  BY <1>2, PlacesKept DEF SamePlaces, At
<1>3. ASSUME \/ \E k \in Keys, kind \in Kinds : Receive(k, kind)
             \/ PrewarmDone \/ PrewarmFail \/ \E c \in Controllers : Age(c)
      PROVE  loop' = loop
  BY <1>3 DEF Receive, PrewarmDone, PrewarmFail, Age
<1>4. loop'[p].at # "waiting" /\ loop'[p].n = loop[p].n
  BY NextCases, <1>1, <1>2, <1>3 DEF Inner, At
<1> QED
  BY <1>0, <1>4 DEF At, Key

LEMMA BusyStep ==
  ASSUME IInv, Next PROVE BusyIsWorkedOn'
<1>0. LoopTypes /\ BusyIsWorkedOn
  BY DEF IInv, Basics
<1>1. ASSUME NEW p \in Platforms, TakeText(p) PROVE BusyIsWorkedOn'
  <2>1. /\ At(p, "waiting") /\ active' = active \cup {mail[Head(inbox[p])].key}
        /\ mail' = [mail EXCEPT ![Head(inbox[p])].fate = "taken"]
        /\ loop' = [loop EXCEPT ![p] = [Waiting EXCEPT !.at = "lookup", !.n = Head(inbox[p])]]
    BY <1>1, TakeTextIs
  <2>2. Head(inbox[p]) \in Numbers
    BY <1>1, HeadAndTail DEF TakeText, TakeFrom, Fits
  <2>3. ~At(p, "waiting")' /\ Key(p)' = mail[Head(inbox[p])].key
    BY <1>0, <2>1, <2>2 DEF LoopTypes, Waiting, At, Key, IInv, Basics, MailTypes, Mails
  <2>4. \A q \in Platforms \ {p} : /\ ~At(q, "waiting") => ~At(q, "waiting")' /\ Key(q)' = Key(q)
                                   /\ At(q, "waiting") => At(q, "waiting")'
    <3> TAKE q \in Platforms \ {p}
    <3>1. loop'[q] = loop[q]
      BY <1>0, <2>1 DEF LoopTypes
    <3>2. ~EndTurn(q)
      <4>1. ASSUME EndTurn(q) PROVE FALSE
        <5>1. loop'[q] = Waiting /\ At(q, "ending")
          BY <1>0, <4>1, EndTurnIs DEF LoopTypes
        <5> QED
          BY <3>1, <5>1 DEF At, Waiting
      <4> QED
        BY <4>1
    <3> QED
      BY <3>1, <3>2, KeysStay DEF At
  <2> QED
    BY <1>0, <2>1, <2>3, <2>4 DEF BusyIsWorkedOn
<1>2. ASSUME NEW p \in Platforms, EndTurn(p) PROVE BusyIsWorkedOn'
  <2>1. ~At(p, "waiting") /\ active' = active \ {Key(p)} /\ loop' = [loop EXCEPT ![p] = Waiting]
    BY <1>2, EndTurnIs DEF At
  <2>2. At(p, "waiting")' /\ \A q \in Platforms \ {p} : loop'[q] = loop[q]
    BY <1>0, <2>1 DEF LoopTypes, At, Waiting
  <2>3. \A q \in Platforms \ {p} : ~At(q, "waiting") => Key(q)' = Key(q) /\ Key(q) # Key(p)
    <3> TAKE q \in Platforms \ {p}
    <3>1. ASSUME ~At(q, "waiting"), EndTurn(q) PROVE FALSE
      <4>1. loop'[q] = Waiting /\ At(q, "ending")
        BY <1>0, <3>1, EndTurnIs DEF LoopTypes
      <4> QED
        BY <2>2, <4>1 DEF At, Waiting
    <3> QED
      BY <2>1, <3>1, KeysStay, LoopsApart
  <2>4. \A q \in Platforms \ {p} : At(q, "waiting")' <=> At(q, "waiting")
    BY <2>2 DEF At
  <2> QED
    BY <1>0, <2>1, <2>2, <2>3, <2>4 DEF BusyIsWorkedOn
<1>3. ASSUME \A p \in Platforms : ~EndTurn(p), active' = active,
             \A p \in Platforms : At(p, "waiting") => At(p, "waiting")'
      PROVE  BusyIsWorkedOn'
  BY <1>3, BusyKept, KeysStay DEF KeysKept
<1>4. ASSUME NEW p \in Platforms, Inner(p) PROVE BusyIsWorkedOn'
  <2>1. /\ active' = active /\ ~At(p, "waiting") /\ loop'[p].at # "waiting"
        /\ \A q \in Platforms \ {p} : loop'[q] = loop[q]
    BY <1>4, InnerIs DEF sessionVars
  <2>2. \A q \in Platforms : At(q, "waiting") => At(q, "waiting")'
    BY <2>1 DEF At
  <2>3. \A q \in Platforms : ~EndTurn(q)
    <3>1. ASSUME NEW q \in Platforms, EndTurn(q) PROVE FALSE
      <4>1. loop'[q] = Waiting /\ At(q, "ending")
        BY <1>0, <3>1, EndTurnIs DEF LoopTypes
      <4> QED
        BY <2>1, <4>1 DEF At, Waiting
    <3> QED
      BY <3>1
  <2> QED
    BY <1>3, <2>1, <2>2, <2>3
<1>5. ASSUME SamePlaces, active' = active PROVE BusyIsWorkedOn'
  <2>1. ASSUME NEW p \in Platforms, EndTurn(p) PROVE FALSE
    <3>1. loop'[p] = Waiting /\ At(p, "ending")
      BY <1>0, <2>1, EndTurnIs DEF LoopTypes
    <3> QED
      BY <1>5, <3>1 DEF At, Waiting, SamePlaces
  <2> QED
    BY <1>3, <1>5, <2>1 DEF SamePlaces, At
<1>6. ASSUME NEW p \in Platforms, StopCommand(p) PROVE BusyIsWorkedOn'
  <2>1. active' = active
    BY <1>6, NextIsFree DEF StopCommand, TakeFrom, Forget
  <2> QED
    BY <1>5, <1>6, <2>1, PlacesKept
<1>7. ASSUME \/ \E p \in Platforms : ApproveCommand(p) \/ AskUser(p) \/ TimeOut(p)
             \/ \E k \in Keys : Reap(k)
             \/ Stop
      PROVE  BusyIsWorkedOn'
  <2>1. active' = active
    BY <1>7 DEF ApproveCommand, AskUser, TimeOut, Reap, Stop, sessionVars
  <2> QED
    BY <1>5, <1>7, <2>1, PlacesKept
<1>8. ASSUME \/ \E k \in Keys, kind \in Kinds : Receive(k, kind)
             \/ PrewarmDone \/ PrewarmFail \/ \E c \in Controllers : Age(c)
      PROVE  BusyIsWorkedOn'
  <2>1. loop' = loop /\ active' = active
    BY <1>8 DEF Receive, PrewarmDone, PrewarmFail, Age, sessionVars
  <2> QED
    BY <1>0, <1>5, <2>1 DEF SamePlaces, LoopTypes
<1> QED
  BY NextCases, <1>1, <1>2, <1>4, <1>6, <1>7, <1>8 DEF Inner

-----------------------------------------------------------------------------
(* The conversations that a controller serves.                             *)

LEMMA OneLoop ==
  ASSUME IInv, NEW p \in Platforms, NEW q \in Platforms, loop[p].c # None, loop[p].c = loop[q].c
  PROVE  p = q
<1>1. ~At(p, "waiting") /\ ~At(q, "waiting") /\ loop[p].c \in Controllers
  BY DEF IInv, Basics, LoopInv, LoopTypes, Loops, At
<1>2. Key(p) = Key(q)
  BY <1>1 DEF IInv, ServedInv
<1> QED
  BY <1>1, <1>2, LoopsApart

\* A step that gives no loop and no conversation a controller.
Calm ==
  /\ served' = served /\ built' = built
  /\ \A c \in Controllers : ctrl'[c].open => ctrl[c].open
  /\ \A k \in Keys : controllers'[k] \in {controllers[k], None}
  /\ prewarm' = prewarm \/ prewarm'.c = None
  /\ \A p \in Platforms : loop'[p].c # None => loop'[p].c = loop[p].c
  /\ \A p \in Platforms : At(p, "building")' => ~At(p, "waiting") /\ controllers[Key(p)] = None

LEMMA CalmSteps ==
  ASSUME IInv, Next
  PROVE  \/ Calm \/ PrewarmDone
         \/ \E p \in Platforms : LookupFound(p) \/ Claim(p) \/ BuildDone(p)
<1>0. LoopTypes /\ LoopInv /\ CtrlTypes /\ ServedInv
  BY DEF IInv, Basics
<1>1. ASSUME UNCHANGED ctrlVars, SamePlaces PROVE Calm
  BY <1>0, <1>1 DEF ctrlVars, SamePlaces, Calm, At, ServedInv
<1>2. ASSUME NEW k \in Keys, NEW kind \in Kinds, Receive(k, kind) PROVE Calm
  BY <1>0, <1>1, <1>2 DEF Receive, SamePlaces, LoopTypes
<1>3. ASSUME NEW p \in Platforms, StopCommand(p) \/ ApproveCommand(p) \/ AskUser(p) \/ TimeOut(p) PROVE Calm
  BY <1>1, <1>3, PlacesKept DEF StopCommand, ApproveCommand, AskUser, TimeOut
<1>4. ASSUME UNCHANGED ctrlVars, NEW p \in Platforms,
             loop'[p].c = None \/ loop'[p].c = loop[p].c,
             At(p, "building")' => ~At(p, "waiting") /\ controllers[Key(p)] = None,
             \A q \in Platforms \ {p} : loop'[q] = loop[q]
      PROVE  Calm
  BY <1>0, <1>4 DEF ctrlVars, Calm, At, ServedInv
<1>5. ASSUME NEW p \in Platforms, TakeText(p) PROVE Calm
  <2>1. loop' = [loop EXCEPT ![p] = [Waiting EXCEPT !.at = "lookup", !.n = Head(inbox[p])]]
    BY <1>5, TakeTextIs
  <2> QED
    BY <1>0, <1>4, <1>5, <2>1 DEF TakeText, LoopTypes, Waiting, At
<1>6. ASSUME NEW p \in Platforms, EndTurn(p) PROVE Calm
  <2>1. loop' = [loop EXCEPT ![p] = Waiting] /\ UNCHANGED ctrlVars
    BY <1>6, EndTurnIs DEF EndTurn
  <2> QED
    BY <1>0, <1>4, <2>1 DEF LoopTypes, Waiting, At
<1>7. ASSUME NEW p \in Platforms, LookupNone(p) \/ BuildFail(p) PROVE Calm
  BY <1>0, <1>4, <1>7 DEF LookupNone, BuildFail, Goto, LoopTypes, Loops, At
<1>8. ASSUME NEW p \in Platforms, Prepare(p) \/ RunTurn(p) \/ TurnReturn(p) PROVE Calm
  <2>1. served' = served /\ built' = built /\ controllers' = controllers /\ prewarm' = prewarm
    BY <1>8 DEF Prepare, RunTurn, TurnReturn
  <2>2. \A q \in Platforms : loop'[q].c = loop[q].c /\ (At(q, "building")' => At(q, "building"))
    BY <1>0, <1>8 DEF Prepare, RunTurn, TurnReturn, Goto, LoopTypes, Loops, At
  <2>3. Of(p) \in Controllers
    BY <1>8, InHandControllers DEF Prepare, RunTurn, TurnReturn, At, Of
  <2>4. \A c \in Controllers : ctrl'[c].open = ctrl[c].open
    BY <1>0, <1>8, <2>3 DEF Prepare, RunTurn, TurnReturn, CtrlTypes, States
  <2> QED
    BY <1>0, <2>1, <2>2, <2>4 DEF Calm, ServedInv, At
<1>9. ASSUME NEW c \in Controllers, Age(c) PROVE Calm
  BY <1>0, <1>9 DEF Age, CtrlTypes, States, Calm, ServedInv, At
<1>10. ASSUME PrewarmFail PROVE Calm
  BY <1>0, <1>10 DEF PrewarmFail, Calm, ServedInv, At
<1>11. ASSUME NEW k \in Keys, Reap(k) PROVE Calm
  <2>1. SamePlaces /\ controllers[k] \in Controllers
    BY <1>11, PlacesKept, InHandControllers DEF Reap
  <2>2. \A c \in Controllers : ctrl'[c].open => ctrl[c].open
    BY <1>0, <1>11, <2>1 DEF Reap, CtrlTypes, States, Shut
  <2> QED
    BY <1>0, <1>11, <2>1, <2>2 DEF Reap, SamePlaces, Calm, ServedInv, CtrlTypes, At
<1>12. ASSUME Stop PROVE Calm
  <2>1. SamePlaces
    BY <1>12, PlacesKept
  <2>2. \A c \in Controllers : ctrl'[c].open => ctrl[c].open
    BY <1>0, <1>12 DEF Stop, CtrlTypes, States, Shut
  <2> QED
    BY <1>0, <1>12, <2>1, <2>2 DEF Stop, SamePlaces, Calm, ServedInv, CtrlTypes, At
<1> QED
  BY NextCases, <1>2, <1>3, <1>5, <1>6, <1>7, <1>8, <1>9, <1>10, <1>11, <1>12

\* A step that gives loop p the controller c for its conversation.
Gives(p, c) ==
  /\ ~At(p, "waiting") /\ c \in Controllers /\ loop'[p].c = c /\ loop'[p].at = "found" /\ Key(p)' = Key(p)
  /\ \A q \in Platforms \ {p} : loop'[q] = loop[q] /\ (~At(q, "waiting") => Key(q)' = Key(q))
  /\ ctrl'[c].stale = FALSE

LEMMA GivesIs ==
  ASSUME IInv, Next, NEW p \in Platforms, NEW c \in Controllers, Use(p, c), ctrl'[c].stale = FALSE,
         LookupFound(p) \/ Claim(p) \/ BuildDone(p)
  PROVE  Gives(p, c)
<1>1. /\ ~At(p, "waiting") /\ mail' = mail /\ loop'[p].n = loop[p].n
      /\ \A q \in Platforms \ {p} : loop'[q] = loop[q]
  BY InnerIs DEF Inner, mailVars
<1>2. loop'[p].c = c /\ loop'[p].at = "found"
  BY DEF Use, IInv, Basics, LoopTypes, Loops
<1> QED
  BY <1>1, <1>2 DEF Gives, Key

LEMMA LookupGives ==
  ASSUME IInv, Next, NEW p \in Platforms, LookupFound(p)
  PROVE  /\ Gives(p, controllers[Key(p)]) /\ Key(p) \in Keys
         /\ ctrl' = [ctrl EXCEPT ![controllers[Key(p)]].stale = FALSE]
<1>1. Key(p) \in Keys /\ controllers[Key(p)] \in Controllers
  BY InHandControllers DEF LookupFound, At
<1>2. Use(p, controllers[Key(p)]) /\ ctrl' = [ctrl EXCEPT ![controllers[Key(p)]].stale = FALSE]
  BY DEF LookupFound, Touch
<1>3. ctrl'[controllers[Key(p)]].stale = FALSE
  BY <1>1, <1>2 DEF IInv, Basics, CtrlTypes, States
<1> QED
  BY <1>1, <1>2, <1>3, GivesIs

LEMMA ClaimGives ==
  ASSUME IInv, Next, NEW p \in Platforms, Claim(p)
  PROVE  /\ Gives(p, prewarm.c) /\ Key(p) \in Keys
         /\ ctrl' = [ctrl EXCEPT ![prewarm.c].stale = FALSE]
<1>1. Key(p) \in Keys /\ prewarm.c \in Controllers
  BY InHandControllers DEF Claim, At
<1>2. Use(p, prewarm.c) /\ ctrl' = [ctrl EXCEPT ![prewarm.c].stale = FALSE]
  BY DEF Claim, Touch
<1>3. ctrl'[prewarm.c].stale = FALSE
  BY <1>1, <1>2 DEF IInv, Basics, CtrlTypes, States
<1> QED
  BY <1>1, <1>2, <1>3, GivesIs

LEMMA BuildGives ==
  ASSUME IInv, Next, NEW p \in Platforms, BuildDone(p)
  PROVE  Gives(p, built') /\ Key(p) \in Keys /\ Built
<1>1. Built /\ Use(p, built') /\ Key(p) \in Keys
  BY InHandControllers DEF BuildDone, At
<1>2. built' \in Controllers /\ ctrl'[built'].stale = FALSE
  BY <1>1, BuiltIs DEF Fresh, Unbuilt
<1> QED
  BY <1>1, <1>2, GivesIs

LEMMA ServedInvStep ==
  ASSUME IInv, Next PROVE ServedInv'
<1>0. LoopTypes /\ LoopInv /\ CtrlTypes /\ ServedInv
  BY DEF IInv, Basics
<1>1. CASE Calm
  <2>1. ASSUME NEW p \in Platforms, loop'[p].c # None PROVE Key(p)' \in served'[loop'[p].c]
    <3>1. loop'[p].c = loop[p].c /\ ~At(p, "waiting")
      BY <1>0, <1>1, <2>1 DEF Calm, LoopInv, At
    <3>2. ~EndTurn(p)
      BY <1>0, <2>1, EndTurnIs DEF LoopTypes, Waiting
    <3> QED
      BY <1>0, <1>1, <2>1, <3>1, <3>2, KeysStay DEF Calm, ServedInv
  <2>2. ASSUME NEW p \in Platforms, At(p, "building")' PROVE controllers'[Key(p)'] = None
    <3>1. ~At(p, "waiting") /\ controllers[Key(p)] = None
      BY <1>1, <2>2 DEF Calm
    <3>2. ~EndTurn(p)
      BY <1>0, <2>2, EndTurnIs DEF LoopTypes, Waiting, At
    <3>3. Key(p)' = Key(p) /\ Key(p) \in Keys
      BY <3>1, <3>2, KeysStay, InHandControllers
    <3> QED
      BY <1>1, <3>1, <3>3 DEF Calm
  <2>3. prewarm'.at = "building" => prewarm'.c = None
    BY <1>0, <1>1 DEF Calm, ServedInv
  <2> QED
    BY <1>0, <1>1, <2>1, <2>2, <2>3 DEF Calm, ServedInv
<1>2. CASE PrewarmDone
  <2>1. /\ Built /\ prewarm' = [at |-> "parked", c |-> built'] /\ prewarm.c = None
        /\ UNCHANGED <<mail, loop, controllers, served>>
    BY <1>0, <1>2 DEF PrewarmDone, ServedInv, mailVars
  <2>2. \A c \in Controllers : c > built' => c > built /\ c # built'
    BY <1>0, <2>1, BuiltIs, GatewayBounds DEF CtrlTypes, Controllers
  <2>3. served[built'] = {} /\ built' <= built'
    BY <1>0, <2>1, BuiltIs DEF ServedInv, CtrlTypes
  <2>4. \A p \in Platforms : Key(p)' = Key(p) /\ At(p, "building")' = At(p, "building")
    BY <2>1 DEF Key, At
  <2> QED
    BY <1>0, <2>1, <2>2, <2>3, <2>4, BuiltIs DEF ServedInv
<1>3. ASSUME NEW p \in Platforms, NEW c \in Controllers, Gives(p, c), Key(p) \in Keys,
             \A d \in Controllers : served'[d] = IF d = c THEN {Key(p)} ELSE served[d],
             \A k \in Keys : controllers'[k] = IF k = Key(p) THEN c ELSE controllers[k],
             served[c] \subseteq {Key(p)},
             prewarm'.c # None => prewarm'.c <= built' /\ served'[prewarm'.c] = {},
             prewarm'.at = "building" => prewarm'.c = None,
             \A d \in Controllers : d > built' => d > built /\ d # c /\ ~ctrl'[d].open
      PROVE  ServedInv'
  <2>1. \A d \in Controllers : served[d] \subseteq served'[d]
    BY <1>3
  <2>2. \A k \in Keys : controllers'[k] # None => k \in served'[controllers'[k]]
    BY <1>0, <1>3, InHandControllers DEF ServedInv
  <2>3. \A q \in Platforms \ {p} : loop'[q] = loop[q] /\ (~At(q, "waiting") => Key(q)' = Key(q))
    BY <1>3 DEF Gives
  <2>4. \A q \in Platforms : loop'[q].c # None => Key(q)' \in served'[loop'[q].c]
    <3>1. loop'[p].c = c /\ Key(p)' = Key(p)
      BY <1>3 DEF Gives
    <3>2. ASSUME NEW q \in Platforms \ {p}, loop'[q].c # None PROVE Key(q)' \in served'[loop'[q].c]
      <4>1. ~At(q, "waiting") /\ loop[q].c \in Controllers /\ loop'[q].c = loop[q].c
        BY <1>0, <2>3, <3>2 DEF LoopInv, LoopTypes, Loops, At
      <4> QED
        BY <1>0, <2>1, <2>3, <3>2, <4>1 DEF ServedInv
    <3> QED
      BY <1>3, <3>1, <3>2
  <2>5. \A q \in Platforms : At(q, "building")' => controllers'[Key(q)'] = None
    <3> SUFFICES ASSUME NEW q \in Platforms, At(q, "building")' PROVE controllers'[Key(q)'] = None
      OBVIOUS
    <3>1. q # p
      BY <1>3 DEF Gives, At
    <3>2. At(q, "building") /\ ~At(q, "waiting") /\ Key(q)' = Key(q)
      BY <2>3, <3>1 DEF At
    <3>3. Key(q) # Key(p) /\ Key(q) \in Keys
      BY <1>3, <3>1, <3>2, LoopsApart, InHandControllers DEF Gives
    <3> QED
      BY <1>0, <1>3, <3>2, <3>3 DEF ServedInv
  <2>6. \A d \in Controllers : \A k, l \in served'[d] : k = l
    BY <1>0, <1>3 DEF ServedInv
  <2>7. \A d \in Controllers : d > built' => served'[d] = {} /\ ~ctrl'[d].open
    BY <1>0, <1>3 DEF ServedInv
  <2> QED
    BY <1>3, <2>2, <2>4, <2>5, <2>6, <2>7 DEF ServedInv
<1>4. ASSUME NEW p \in Platforms, LookupFound(p) PROVE ServedInv'
  <2> DEFINE c == controllers[Key(p)]
  <2>1. /\ Gives(p, c) /\ Key(p) \in Keys /\ c \in Controllers
        /\ ctrl' = [ctrl EXCEPT ![c].stale = FALSE]
        /\ UNCHANGED <<controllers, prewarm, built, served>>
    BY <1>4, LookupGives DEF LookupFound, Gives
  <2>2. served[c] = {Key(p)}
    BY <1>0, <2>1, GatewayBounds DEF ServedInv, Controllers, None
  <2>3. \A d \in Controllers : ctrl'[d].open = ctrl[d].open
    BY <1>0, <2>1 DEF CtrlTypes, States
  <2>4. \A d \in Controllers : d > built' => d > built /\ d # c /\ ~ctrl'[d].open
    BY <1>0, <2>1, <2>2, <2>3 DEF ServedInv
  <2>5. prewarm'.c # None => prewarm'.c <= built' /\ served'[prewarm'.c] = {}
    BY <1>0, <2>1 DEF ServedInv
  <2>6. prewarm'.at = "building" => prewarm'.c = None
    BY <1>0, <2>1 DEF ServedInv
  <2>7. \A d \in Controllers : served'[d] = IF d = c THEN {Key(p)} ELSE served[d]
    BY <2>1, <2>2
  <2>8. \A k \in Keys : controllers'[k] = IF k = Key(p) THEN c ELSE controllers[k]
    BY <2>1
  <2> QED
    BY <1>3, <2>1, <2>2, <2>4, <2>5, <2>6, <2>7, <2>8
<1>5. ASSUME NEW p \in Platforms, Claim(p) PROVE ServedInv'
  <2> DEFINE c == prewarm.c
  <2>1. Gives(p, c) /\ Key(p) \in Keys /\ c \in Controllers /\ ctrl' = [ctrl EXCEPT ![c].stale = FALSE]
    BY <1>5, ClaimGives DEF Gives
  <2>2. /\ controllers' = [controllers EXCEPT ![Key(p)] = c]
        /\ served' = [served EXCEPT ![c] = served[c] \cup {Key(p)}]
        /\ prewarm' = [at |-> "claimed", c |-> None] /\ built' = built /\ c # None
    BY <1>5 DEF Claim, Serve, Register, FreeSlot
  <2>3. served[c] = {} /\ c <= built
    BY <1>0, <2>2 DEF ServedInv
  <2>4. \A d \in Controllers : ctrl'[d].open = ctrl[d].open
    BY <1>0, <2>1 DEF CtrlTypes, States
  <2>5. \A d \in Controllers : d > built' => d > built /\ d # c /\ ~ctrl'[d].open
    BY <1>0, <2>1, <2>2, <2>3, <2>4, GatewayBounds DEF ServedInv, CtrlTypes, Controllers
  <2>6. \A d \in Controllers : served'[d] = IF d = c THEN {Key(p)} ELSE served[d]
    BY <1>0, <2>1, <2>2, <2>3 DEF CtrlTypes
  <2>7. \A k \in Keys : controllers'[k] = IF k = Key(p) THEN c ELSE controllers[k]
    BY <1>0, <2>1, <2>2 DEF CtrlTypes
  <2>8. prewarm'.c = None /\ prewarm'.at # "building"
    BY <2>2
  <2> HIDE DEF c
  <2> QED
    BY <1>3, <2>1, <2>3, <2>5, <2>6, <2>7, <2>8
<1>6. ASSUME NEW p \in Platforms, BuildDone(p) PROVE ServedInv'
  <2>1. Gives(p, built') /\ Key(p) \in Keys /\ Built /\ built' \in Controllers
    BY <1>6, BuildGives, BuiltIs
  <2>2. /\ controllers' = [controllers EXCEPT ![Key(p)] = built']
        /\ served' = [served EXCEPT ![built'] = served[built'] \cup {Key(p)}]
        /\ prewarm' = prewarm
    BY <1>6 DEF BuildDone, Serve, Register
  <2>3. served[built'] = {} /\ built' = built + 1
    BY <1>0, <2>1, BuiltIs DEF ServedInv, CtrlTypes
  <2>4. \A d \in Controllers : d > built' => d > built /\ d # built' /\ ~ctrl'[d].open
    BY <1>0, <2>1, <2>3, BuiltIs, GatewayBounds DEF ServedInv, CtrlTypes, Controllers
  <2>5. \A d \in Controllers : served'[d] = IF d = built' THEN {Key(p)} ELSE served[d]
    BY <1>0, <2>1, <2>2, <2>3 DEF CtrlTypes
  <2>6. \A k \in Keys : controllers'[k] = IF k = Key(p) THEN built' ELSE controllers[k]
    BY <1>0, <2>1, <2>2 DEF CtrlTypes
  <2>7. prewarm'.c # None => prewarm'.c <= built' /\ served'[prewarm'.c] = {}
    <3> SUFFICES ASSUME prewarm.c # None PROVE prewarm.c <= built' /\ served'[prewarm.c] = {}
      BY <2>2
    <3>1. prewarm.c \in Controllers /\ prewarm.c <= built /\ served[prewarm.c] = {}
      BY <1>0, InHandControllers DEF ServedInv
    <3>2. prewarm.c <= built' /\ prewarm.c # built'
      BY <1>0, <2>3, <3>1, GatewayBounds DEF CtrlTypes, Controllers
    <3> QED
      BY <2>5, <3>1, <3>2
  <2>8. prewarm'.at = "building" => prewarm'.c = None
    BY <1>0, <2>2 DEF ServedInv
  <2> QED
    BY <1>3, <2>1, <2>3, <2>4, <2>5, <2>6, <2>7, <2>8
<1> QED
  BY CalmSteps, <1>1, <1>2, <1>4, <1>5, <1>6

-----------------------------------------------------------------------------
(* A controller that a loop has in hand is not idle, and none is lost.     *)

LEMMA HeldInvStep ==
  ASSUME IInv, Next PROVE HeldInv'
<1>0. LoopTypes /\ LoopInv /\ CtrlTypes /\ HeldInv /\ ServedInv
  BY DEF IInv, Basics
<1>1. ASSUME SamePlaces, \A c \in Controllers : ctrl'[c].running = ctrl[c].running,
             \A c \in Controllers : ctrl'[c].stale => ctrl[c].stale
      PROVE  HeldInv'
  <2>1. \A p \in Platforms : loop'[p].at = loop[p].at /\ loop'[p].c = loop[p].c
    BY <1>1 DEF SamePlaces
  <2>2. \A p \in Platforms : loop[p].at \in {"found", "ready", "turn"} => loop[p].c \in Controllers
    BY InHandControllers
  <2> QED
    BY <1>0, <1>1, <2>1, <2>2 DEF HeldInv, At
<1>2. ASSUME ctrl' = ctrl, SamePlaces PROVE HeldInv'
  BY <1>1, <1>2
<1>3. ASSUME \/ \E k \in Keys, kind \in Kinds : Receive(k, kind)
             \/ \E p \in Platforms : StopCommand(p) \/ ApproveCommand(p) \/ AskUser(p) \/ TimeOut(p)
             \/ PrewarmFail
      PROVE  HeldInv'
  <2>1. ctrl' = ctrl
    BY <1>3 DEF Receive, StopCommand, ApproveCommand, AskUser, TimeOut, PrewarmFail, ctrlVars
  <2>2. SamePlaces
    BY <1>0, <1>3, PlacesKept DEF Receive, PrewarmFail, SamePlaces, LoopTypes
  <2> QED
    BY <1>2, <2>1, <2>2
<1>4. ASSUME (\E k \in Keys : Reap(k)) \/ Stop PROVE HeldInv'
  <2>1. \A c \in Controllers : ctrl'[c].running = ctrl[c].running /\ (ctrl'[c].stale => ctrl[c].stale)
    <3>1. \A c \in Controllers : Shut(ctrl[c]).running = ctrl[c].running /\ ~Shut(ctrl[c]).stale
      BY <1>0 DEF Shut, CtrlTypes, States
    <3>2. CASE \E k \in Keys : Reap(k)
      BY <1>0, <3>1, <3>2, InHandControllers DEF Reap, CtrlTypes
    <3>3. CASE Stop
      BY <1>0, <3>1, <3>3 DEF Stop, CtrlTypes
    <3> QED
      BY <1>4, <3>2, <3>3
  <2> QED
    BY <1>1, <1>4, <2>1, PlacesKept
\* The loop p alone moves, and is at no turn before or after.
<1>5. ASSUME NEW p \in Platforms, ~At(p, "turn"), ~At(p, "turn")',
             \A q \in Platforms \ {p} : loop'[q] = loop[q],
             loop'[p].at \in {"found", "ready"} => ~ctrl'[loop'[p].c].stale,
             \A c \in Controllers : (ctrl'[c].stale => ctrl[c].stale) /\ ctrl'[c].running = ctrl[c].running
      PROVE  HeldInv'
  <2>1. \A q \in Platforms : loop[q].at \in {"found", "ready", "turn"} => loop[q].c \in Controllers
    BY InHandControllers
  <2>2. \A q \in Platforms : loop'[q].at \in {"found", "ready"} => ~ctrl'[loop'[q].c].stale
    BY <1>0, <1>5, <2>1 DEF HeldInv
  <2>3. \A q \in Platforms : At(q, "turn")' => ctrl'[loop'[q].c].running
    BY <1>0, <1>5, <2>1 DEF HeldInv, At
  <2>4. \A c \in Controllers : ctrl'[c].running => \E q \in Platforms : loop'[q].c = c /\ At(q, "turn")'
    <3> SUFFICES ASSUME NEW c \in Controllers, ctrl'[c].running
                 PROVE  \E q \in Platforms : loop'[q].c = c /\ At(q, "turn")'
      OBVIOUS
    <3>1. PICK q \in Platforms : loop[q].c = c /\ At(q, "turn")
      BY <1>0, <1>5 DEF HeldInv
    <3> QED
      BY <1>5, <3>1 DEF At
  <2> QED
    BY <2>2, <2>3, <2>4 DEF HeldInv
<1>6. ASSUME NEW p \in Platforms, TakeText(p) PROVE HeldInv'
  <2>1. At(p, "waiting") /\ loop' = [loop EXCEPT ![p] = [Waiting EXCEPT !.at = "lookup", !.n = Head(inbox[p])]]
    BY <1>6, TakeTextIs
  <2>2. ctrl' = ctrl
    BY <1>6 DEF TakeText, ctrlVars
  <2> QED
    BY <1>0, <1>5, <2>1, <2>2 DEF LoopTypes, Waiting, At
<1>7. ASSUME NEW p \in Platforms, EndTurn(p) PROVE HeldInv'
  <2>1. At(p, "ending") /\ loop' = [loop EXCEPT ![p] = Waiting]
    BY <1>7, EndTurnIs
  <2>2. ctrl' = ctrl
    BY <1>7 DEF EndTurn, ctrlVars
  <2> QED
    BY <1>0, <1>5, <2>1, <2>2 DEF LoopTypes, Waiting, At
<1>8. ASSUME NEW p \in Platforms, LookupNone(p) \/ BuildFail(p) PROVE HeldInv'
  BY <1>0, <1>5, <1>8 DEF LookupNone, BuildFail, Goto, LoopTypes, Loops, At, ctrlVars
<1>9. ASSUME NEW p \in Platforms, NEW c \in Controllers, LookupFound(p) \/ Claim(p), Gives(p, c),
             ctrl' = [ctrl EXCEPT ![c].stale = FALSE]
      PROVE  HeldInv'
  <2>1. \A d \in Controllers : (ctrl'[d].stale => ctrl[d].stale) /\ ctrl'[d].running = ctrl[d].running
    BY <1>0, <1>9 DEF CtrlTypes, States
  <2>2. At(p, "lookup")
    BY <1>9 DEF LookupFound, Claim
  <2> QED
    BY <1>5, <1>9, <2>1, <2>2 DEF Gives, At
<1>10. ASSUME NEW p \in Platforms, LookupFound(p) \/ Claim(p) PROVE HeldInv'
  BY <1>9, <1>10, LookupGives, ClaimGives DEF Gives
\* A controller more, which no loop has.
<1>11. Built => \A q \in Platforms : loop[q].c # None => loop[q].c # built' /\ loop[q].c \in Controllers
  <2> SUFFICES ASSUME Built, NEW q \in Platforms, loop[q].c # None
               PROVE  loop[q].c # built' /\ loop[q].c \in Controllers
    OBVIOUS
  <2>1. loop[q].c \in Controllers /\ Key(q) \in served[loop[q].c]
    BY <1>0 DEF LoopTypes, Loops, ServedInv
  <2>2. served[built'] = {}
    BY <1>0, BuiltIs DEF ServedInv, CtrlTypes
  <2> QED
    BY <2>1, <2>2
<1>12. ASSUME Built, NEW P \in SUBSET Platforms,
              \A q \in P : ~At(q, "turn") /\ At(q, "found")' /\ loop'[q].c = built',
              \A q \in Platforms \ P : loop'[q] = loop[q]
       PROVE  HeldInv'
  <2>1. ctrl'[built'].stale = FALSE /\ ctrl'[built'].running = FALSE /\ built' \in Controllers
    BY <1>12, BuiltIs DEF Fresh, Unbuilt
  <2>2. \A c \in Controllers \ {built'} : ctrl'[c] = ctrl[c]
    BY <1>12, BuiltIs
  <2>3. \A q \in Platforms : loop[q].at \in {"found", "ready", "turn"} => loop[q].c \in Controllers \ {built'}
    BY <1>0, <1>11, <1>12 DEF LoopInv
  <2>4. \A q \in Platforms : loop'[q].at \in {"found", "ready"} => ~ctrl'[loop'[q].c].stale
    BY <1>0, <1>12, <2>1, <2>2, <2>3 DEF HeldInv
  <2>5. \A q \in Platforms : At(q, "turn")' => ctrl'[loop'[q].c].running
    BY <1>0, <1>12, <2>2, <2>3 DEF HeldInv, At
  <2>6. \A c \in Controllers : ctrl'[c].running => \E q \in Platforms : loop'[q].c = c /\ At(q, "turn")'
    <3> SUFFICES ASSUME NEW c \in Controllers, ctrl'[c].running
                 PROVE  \E q \in Platforms : loop'[q].c = c /\ At(q, "turn")'
      OBVIOUS
    <3>1. PICK q \in Platforms : loop[q].c = c /\ At(q, "turn")
      BY <1>0, <2>1, <2>2 DEF HeldInv
    <3> QED
      BY <1>12, <3>1 DEF At
  <2> QED
    BY <2>4, <2>5, <2>6 DEF HeldInv
<1>13. ASSUME NEW p \in Platforms, BuildDone(p) PROVE HeldInv'
  <2>1. Gives(p, built') /\ Built /\ At(p, "building")
    BY <1>13, BuildGives DEF BuildDone
  <2> QED
    BY <1>12, <2>1 DEF Gives, At
<1>14. ASSUME PrewarmDone PROVE HeldInv'
  <2>1. Built /\ loop' = loop
    BY <1>14 DEF PrewarmDone
  <2>2. {} \in SUBSET Platforms /\ (\A q \in {} : FALSE) /\ \A q \in Platforms \ {} : loop'[q] = loop[q]
    BY <2>1
  <2> QED
    BY <1>12, <2>1, <2>2
\* The turn itself.
<1>15. ASSUME NEW p \in Platforms, Prepare(p) \/ RunTurn(p) \/ TurnReturn(p) PROVE HeldInv'
  <2>1. /\ loop[p].c \in Controllers /\ loop'[p].c = loop[p].c
        /\ \A q \in Platforms \ {p} : loop'[q] = loop[q]
    BY <1>0, <1>15, InHandControllers DEF Prepare, RunTurn, TurnReturn, Goto, At, LoopTypes, Loops
  <2>2. \A c \in Controllers \ {loop[p].c} : ctrl'[c] = ctrl[c]
    BY <1>0, <1>15 DEF Prepare, RunTurn, TurnReturn, Of, CtrlTypes
  <2>3. \A q \in Platforms \ {p} : loop[q].c # loop[p].c
    BY <2>1, OneLoop, GatewayBounds DEF Controllers, None
  <2>4. \A q \in Platforms : loop[q].at \in {"found", "ready", "turn"} => loop[q].c \in Controllers
    BY InHandControllers
  <2>5. ASSUME NEW q \in Platforms \ {p}
        PROVE  /\ loop'[q].at \in {"found", "ready"} => ~ctrl'[loop'[q].c].stale
               /\ At(q, "turn")' => ctrl'[loop'[q].c].running
    BY <1>0, <2>1, <2>2, <2>3, <2>4, <2>5 DEF HeldInv, At
  <2>6. ASSUME NEW c \in Controllers \ {loop[p].c}, ctrl'[c].running
        PROVE  \E q \in Platforms : loop'[q].c = c /\ At(q, "turn")'
    <3>1. PICK q \in Platforms : loop[q].c = c /\ At(q, "turn")
      BY <1>0, <2>2, <2>6 DEF HeldInv
    <3> QED
      BY <2>1, <2>6, <3>1 DEF At
  <2>7. /\ loop'[p].at \in {"found", "ready"} => ~ctrl'[loop'[p].c].stale
        /\ At(p, "turn")' => ctrl'[loop'[p].c].running
        /\ ctrl'[loop[p].c].running => At(p, "turn")'
    <3>0. ctrl[loop[p].c].running => At(p, "turn")
      BY <1>0, <2>1, <2>3 DEF HeldInv
    <3>1. CASE Prepare(p)
      BY <1>0, <2>1, <3>0, <3>1 DEF Prepare, Goto, At, Of, LoopTypes, Loops, CtrlTypes, States
    <3>2. CASE RunTurn(p)
      BY <1>0, <2>1, <3>0, <3>2 DEF RunTurn, Goto, At, Of, LoopTypes, Loops, CtrlTypes, States
    <3>3. CASE TurnReturn(p)
      BY <1>0, <2>1, <3>0, <3>3 DEF TurnReturn, Goto, At, Of, LoopTypes, Loops, CtrlTypes, States
    <3> QED
      BY <1>15, <3>1, <3>2, <3>3
  <2>8. \A c \in Controllers : ctrl'[c].running => \E q \in Platforms : loop'[q].c = c /\ At(q, "turn")'
    BY <2>1, <2>6, <2>7
  <2> QED
    BY <2>5, <2>7, <2>8 DEF HeldInv
<1>16. ASSUME NEW c \in Controllers, Age(c) PROVE HeldInv'
  <2>1. loop' = loop /\ ~Between(c) /\ ctrl' = [ctrl EXCEPT ![c].stale = TRUE]
    BY <1>16 DEF Age
  <2>2. \A d \in Controllers : ctrl'[d].running = ctrl[d].running /\ (d # c => ctrl'[d].stale = ctrl[d].stale)
    BY <1>0, <2>1 DEF CtrlTypes, States
  <2>3. \A q \in Platforms : loop[q].at \in {"found", "ready", "turn"} => loop[q].c \in Controllers
    BY InHandControllers
  <2>4. \A q \in Platforms : loop[q].at \in {"found", "ready"} => loop[q].c # c
    BY <2>1 DEF Between
  <2> QED
    BY <1>0, <2>1, <2>2, <2>3, <2>4 DEF HeldInv, At
<1> QED
  BY NextCases, <1>3, <1>4, <1>6, <1>7, <1>8, <1>10, <1>13, <1>14, <1>15, <1>16

LEMMA NoneForgottenStep ==
  ASSUME IInv, Next PROVE NoneForgotten'
<1>0. CtrlTypes /\ ServedInv /\ NoneForgotten
  BY DEF IInv, Basics
<1>1. ASSUME \A c \in Controllers : ctrl'[c].open => ctrl[c].open,
             controllers' = controllers, prewarm' = prewarm, stopped' = stopped
      PROVE  NoneForgotten'
  BY <1>0, <1>1 DEF NoneForgotten, Known
<1>2. ASSUME UNCHANGED <<stopped, ctrlVars>> PROVE NoneForgotten'
  BY <1>1, <1>2 DEF ctrlVars
<1>3. ASSUME \/ \E k \in Keys, kind \in Kinds : Receive(k, kind)
             \/ \E p \in Platforms : \/ StopCommand(p) \/ ApproveCommand(p) \/ TakeText(p)
                                    \/ LookupNone(p) \/ BuildFail(p) \/ EndTurn(p)
                                    \/ AskUser(p) \/ TimeOut(p)
      PROVE  NoneForgotten'
  BY <1>2, <1>3 DEF Receive, StopCommand, ApproveCommand, TakeText, TakeFrom, LookupNone, BuildFail, EndTurn,
                    AskUser, TimeOut
<1>4. ASSUME NEW p \in Platforms, LookupFound(p) PROVE NoneForgotten'
  <2>1. controllers[Key(p)] \in Controllers /\ ctrl' = [ctrl EXCEPT ![controllers[Key(p)]].stale = FALSE]
    BY <1>4, LookupGives DEF Gives
  <2>2. \A c \in Controllers : ctrl'[c].open = ctrl[c].open
    BY <1>0, <2>1 DEF CtrlTypes, States
  <2> QED
    BY <1>1, <1>4, <2>2 DEF LookupFound
<1>5. ASSUME NEW p \in Platforms, Prepare(p) \/ RunTurn(p) \/ TurnReturn(p) PROVE NoneForgotten'
  <2>1. Of(p) \in Controllers
    BY <1>5, InHandControllers DEF Prepare, RunTurn, TurnReturn, At, Of
  <2>2. \A c \in Controllers : ctrl'[c].open = ctrl[c].open
    BY <1>0, <1>5, <2>1 DEF Prepare, RunTurn, TurnReturn, CtrlTypes, States
  <2> QED
    BY <1>1, <1>5, <2>2 DEF Prepare, RunTurn, TurnReturn
<1>6. ASSUME NEW p \in Platforms, Claim(p) PROVE NoneForgotten'
  <2>1. /\ Key(p) \in Keys /\ prewarm.c \in Controllers /\ controllers[Key(p)] = None
        /\ controllers' = [controllers EXCEPT ![Key(p)] = prewarm.c] /\ stopped' = stopped
    BY <1>6, ClaimGives DEF Claim, Serve, Register, Gives
  <2>2. \A c \in Controllers : ctrl'[c].open = ctrl[c].open
    BY <1>0, <1>6, <2>1, ClaimGives DEF CtrlTypes, States
  <2>3. controllers'[Key(p)] = prewarm.c /\ \A k \in Keys \ {Key(p)} : controllers'[k] = controllers[k]
    BY <1>0, <2>1 DEF CtrlTypes
  <2>4. Known \subseteq Known'
    BY <2>1, <2>3 DEF Known
  <2> QED
    BY <1>0, <2>1, <2>2, <2>4 DEF NoneForgotten
<1>7. ASSUME NEW p \in Platforms, BuildDone(p) PROVE NoneForgotten'
  <2>1. /\ Key(p) \in Keys /\ Built /\ controllers[Key(p)] = None /\ prewarm' = prewarm
        /\ controllers' = [controllers EXCEPT ![Key(p)] = built'] /\ stopped' = stopped
    BY <1>0, <1>7, BuildGives DEF BuildDone, Serve, Register, ServedInv
  <2>2. controllers'[Key(p)] = built' /\ \A k \in Keys \ {Key(p)} : controllers'[k] = controllers[k]
    BY <1>0, <2>1 DEF CtrlTypes
  <2>3. built' # None
    BY <2>1, BuiltIs, GatewayBounds DEF Controllers, None
  <2>4. Known \cup {built'} \subseteq Known'
    BY <2>1, <2>2, <2>3 DEF Known
  <2> QED
    BY <1>0, <2>1, <2>4, BuiltIs DEF NoneForgotten
<1>8. ASSUME PrewarmDone PROVE NoneForgotten'
  <2>1. /\ Built /\ prewarm' = [at |-> "parked", c |-> built'] /\ prewarm.c = None
        /\ controllers' = controllers /\ stopped' = stopped
    BY <1>0, <1>8 DEF PrewarmDone, ServedInv
  <2>2. built' # None
    BY <2>1, BuiltIs, GatewayBounds DEF Controllers, None
  <2>3. Known \cup {built'} \subseteq Known'
    BY <2>1, <2>2 DEF Known
  <2> QED
    BY <1>0, <2>1, <2>3, BuiltIs DEF NoneForgotten
<1>9. ASSUME PrewarmFail PROVE NoneForgotten'
  <2>1. /\ prewarm.c = None /\ prewarm'.c = None
        /\ ctrl' = ctrl /\ controllers' = controllers /\ stopped' = stopped
    BY <1>0, <1>9 DEF PrewarmFail, ServedInv
  <2> QED
    BY <1>0, <2>1 DEF NoneForgotten, Known
<1>10. ASSUME NEW c \in Controllers, Age(c) PROVE NoneForgotten'
  <2>1. \A d \in Controllers : ctrl'[d].open = ctrl[d].open
    BY <1>0, <1>10 DEF Age, CtrlTypes, States
  <2> QED
    BY <1>1, <1>10, <2>1 DEF Age
<1>11. ASSUME NEW k \in Keys, Reap(k) PROVE NoneForgotten'
  <2>1. /\ controllers[k] \in Controllers /\ controllers' = [controllers EXCEPT ![k] = None]
        /\ ctrl' = [ctrl EXCEPT ![controllers[k]] = Shut(ctrl[controllers[k]])]
        /\ prewarm' = prewarm /\ stopped' = stopped
    BY <1>11, InHandControllers DEF Reap
  <2>2. ~ctrl'[controllers[k]].open /\ \A c \in Controllers \ {controllers[k]} : ctrl'[c] = ctrl[c]
    BY <1>0, <2>1 DEF CtrlTypes, States, Shut
  <2>3. \A l \in Keys : controllers[l] # controllers[k] => controllers'[l] = controllers[l]
    BY <1>0, <2>1 DEF CtrlTypes
  <2>4. Known \ {controllers[k]} \subseteq Known'
    BY <2>1, <2>3 DEF Known
  <2> QED
    BY <1>0, <2>1, <2>2, <2>4 DEF NoneForgotten
<1>12. ASSUME Stop PROVE NoneForgotten'
  BY <1>12 DEF Stop, NoneForgotten
<1> QED
  BY NextCases, <1>3, <1>4, <1>5, <1>6, <1>7, <1>8, <1>9, <1>10, <1>11, <1>12

-----------------------------------------------------------------------------
(* The theorems.                                                           *)

LEMMA Stutter ==
  ASSUME IInv, UNCHANGED vars PROVE IInv'
<1>1. Basics'
  BY DEF IInv, Basics, MailTypes, LoopTypes, CtrlTypes, MailInv, LoopInv, InHand, Fits, At,
         vars, mailVars, sessionVars, ctrlVars
<1>2. BusyIsWorkedOn' /\ NoneForgotten'
  BY DEF IInv, BusyIsWorkedOn, NoneForgotten, Known, At, Key, vars, mailVars, sessionVars, ctrlVars
<1>3. ServedInv' /\ HeldInv'
  BY DEF IInv, ServedInv, HeldInv, At, Key, vars, mailVars, sessionVars, ctrlVars
<1> QED
  BY <1>1, <1>2, <1>3 DEF IInv

(* The strengthening of the invariants is inductive: what a loop has, what *)
(* a controller has served and what the table says agree at every step.    *)
THEOREM Inductive == Spec => []IInv
<1>1. IInv /\ [Next]_vars => IInv'
  <2> SUFFICES ASSUME IInv, Next PROVE IInv'
    BY Stutter
  <2>1. Basics'
    BY MailTypesStep, LoopTypesStep, CtrlTypesStep, MailInvStep, LoopInvStep DEF Basics
  <2> QED
    BY <2>1, BusyStep, ServedInvStep, HeldInvStep, NoneForgottenStep DEF IInv
<1> QED
  BY <1>1, InitIInv, PTL DEF Spec

(* The variables keep their types; a loop has a message and a controller   *)
(* when it needs them, and a turn that runs is a loop's.                   *)
THEOREM TypeCorrect == Spec => []TypeOK
<1>1. IInv => TypeOK
  <2> SUFFICES ASSUME IInv PROVE TypeOK
    OBVIOUS
  <2>1. ASSUME NEW p \in Platforms
        PROVE  /\ inbox[p] \in Seq(Numbers) /\ Len(inbox[p]) <= Buffer
               /\ loop[p] \in Loops
               /\ loop[p].n = None <=> At(p, "waiting")
               /\ loop[p].at \in {"found", "ready", "turn"} => loop[p].c # None
    BY GatewayBounds
       DEF IInv, Basics, MailTypes, LoopTypes, MailInv, LoopInv, Fits, Numbers, None
  <2>2. controllers \in [Keys -> Controllers \cup {None}]
    BY DEF IInv, Basics, CtrlTypes
  <2>3. \A c \in Controllers : ctrl[c].running => \E p \in Platforms : loop[p].c = c /\ At(p, "turn")
    BY DEF IInv, HeldInv
  <2>4. \A n \in Numbers : InHand(n) <=> mail[n].key \in Keys
    BY DEF IInv, Basics, MailInv
  <2> QED
    BY <2>1, <2>2, <2>3, <2>4 DEF TypeOK, Loops, Places
<1> QED
  BY <1>1, Inductive, PTL

(* However the loops of the platforms race for the controller that was     *)
(* built beforehand, none serves two conversations.                        *)
THEOREM ServesOne == Spec => []OneConversation
<1>1. IInv => OneConversation
  <2> SUFFICES ASSUME IInv PROVE OneConversation
    OBVIOUS
  <2>1. \A c \in Controllers : Cardinality(served[c]) <= 1
    <3> TAKE c \in Controllers
    <3>1. \A k, l \in served[c] : k = l
      BY DEF IInv, ServedInv
    <3>2. CASE served[c] = {}
      <4>1. Cardinality({}) = 0
        BY FS_EmptySet
      <4> QED
        BY <3>2, <4>1
    <3>3. CASE \E k : served[c] = {k}
      <4>1. PICK k : served[c] = {k}
        BY <3>3
      <4>2. Cardinality({k}) = 1
        BY FS_Singleton
      <4> QED
        BY <4>1, <4>2
    <3> QED
      BY <3>1, <3>2, <3>3
  <2> QED
    BY <2>1 DEF OneConversation, IInv, ServedInv
<1> QED
  BY <1>1, Inductive, PTL

(* Until Stop, no open controller is lost to the reaper.                   *)
THEOREM LosesNone == Spec => []NoneForgotten
<1>1. IInv => NoneForgotten
  BY DEF IInv
<1> QED
  BY <1>1, Inductive, PTL

(* A conversation is busy exactly while a loop works on it.                *)
THEOREM BusyIsWork == Spec => []BusyIsWorkedOn
<1>1. IInv => BusyIsWorkedOn
  BY DEF IInv
<1> QED
  BY <1>1, Inductive, PTL

(* The reaper closes no controller that a loop has in hand.                *)
THEOREM Spares == Spec => ReaperSparesUsed
<1>1. ASSUME IInv, NEW k \in Keys, Reap(k), NEW p \in Platforms,
             loop[p].at \in {"found", "ready", "turn"}, loop[p].c = controllers[k]
      PROVE  FALSE
  BY <1>1 DEF IInv, HeldInv, Reap, Idle, At
<1>2. IInv => [\A k \in Keys : Reap(k) =>
                 \A p \in Platforms : loop[p].at \in {"found", "ready", "turn"} => loop[p].c # controllers[k]]_vars
  BY <1>1
<1> QED
  BY <1>2, Inductive, PTL DEF ReaperSparesUsed

(* The session table and the locks say what the loops do: no controller is *)
(* lost, and a conversation is busy only while it is worked on.            *)
THEOREM TrueTables == Spec => []TablesAreTrue
BY LosesNone, BusyIsWork, PTL DEF TablesAreTrue
=============================================================================
