---------------------------- MODULE SessionFiles ----------------------------
(***************************************************************************)
(* The life of a conversation (internal/control/controller.go, with        *)
(* Session and its files in internal/agent): turns that append to it, the  *)
(* saves at the end of a turn and every half minute of one, compaction in  *)
(* a turn and on request, /new, /clear, /branch, /switch and resume, and   *)
(* the end of the process at any moment.                                   *)
(*                                                                         *)
(* A message is the set of the things it tells: <<t, n>> is what was said  *)
(* n-th in turn t, and a summary tells all that it replaced.  A file is    *)
(* written whole (temporary file, then rename), and a save never fails.    *)
(* The read of the session and the copy of its messages are one step of a  *)
(* save: what a session that has been left tells changes no more.          *)
(***************************************************************************)
EXTENDS Integers, Sequences, SequencesExt

CONSTANTS
  MaxPaths,     \* bound on the session files
  MaxTurns,     \* bound on the turns
  MaxParts,     \* bound on the messages the model adds in a turn
  MaxCalls,     \* bound on the calls of a frontend that leave the conversation
  MaxCompacts,  \* bound on the compactions asked for
  MaxCrashes,   \* bound on the ends of the process
  Ops           \* the calls looked at

Switches == {"new", "clear", "branch", "switch"}

ASSUME SessionBounds ==
  /\ {MaxPaths, MaxTurns, MaxParts, MaxCalls, MaxCompacts, MaxCrashes} \subseteq Nat
  /\ Ops \subseteq Switches \cup {"resume", "reload"}

Paths == 1..MaxPaths
NoPath == 0
NoFile == [saved |-> FALSE, list |-> <<>>]
Savers == {"turn", "autosave", "compact", "front"}

VARIABLES
  running,   \* Controller.running
  path,      \* Controller.sessionPath
  list,      \* the messages of the executor's session
  file,      \* the session files
  minted,    \* files 1..minted have had their name
  turn,      \* the turn: where it is, its number, Len(list) when it began,
             \* the messages it has added, whether it has compacted
  saver,     \* every save in flight: where it is, its path and its messages
  compact,   \* the compaction asked for: where it is, the messages it read
  front,     \* the frontend's call: what, where it is, its file, its messages
  budget,    \* the calls, compactions and ends of the process still to come
  born,      \* history: what was told in the conversation of each file
  home,      \* history: the file of each turn
  finished,  \* history: the turns that have ended
  exposed,   \* history: the turns that compacted, or ended during an autosave
  cleared,   \* history: the files that ClearSession has removed
  overlaps   \* history: what was under way together

pastVars == <<born, home, finished, exposed, cleared>>
diskVars == <<file, minted>>
sessionVars == <<running, path, list, diskVars, turn, saver, compact, front, budget,
                 pastVars, overlaps>>

Tells(ms) == UNION Range(ms)

Idle(s) == saver[s].at = "idle"

Quiet == [at |-> "idle", path |-> NoPath, list |-> <<>>]

NoTurn == [at |-> "idle", id |-> 0, start |-> 0, parts |-> 0, folded |-> FALSE]

NoCall == [op |-> "none", at |-> "idle", path |-> NoPath, list |-> <<>>]

SessionInit ==
  /\ running = FALSE /\ path = NoPath /\ list = <<>>
  /\ file = [p \in Paths |-> NoFile] /\ minted = 0
  /\ turn = NoTurn
  /\ saver = [s \in Savers |-> Quiet]
  /\ compact = [at |-> "idle", list |-> <<>>]
  /\ front = NoCall
  /\ budget = [calls |-> MaxCalls, compacts |-> MaxCompacts, crashes |-> MaxCrashes]
  /\ born = [p \in Paths |-> {}]
  /\ home = [t \in 1..MaxTurns |-> NoPath]
  /\ finished = {} /\ exposed = {} /\ cleared = {} /\ overlaps = {}

-----------------------------------------------------------------------------
(* A save: snapshot reads the path, then the session and its messages, and *)
(* then replaces the file.                                                 *)

Ask(s) == saver' = [saver EXCEPT ![s].at = "asked"]

\* Mutated: a conversation without a file is saved as well.
Anyhow  == FALSE
Unnamed == path = NoPath

ReadPath(s) ==
  /\ saver[s].at = "asked"
  /\ saver' = [saver EXCEPT ![s] =
                 IF Unnamed THEN Quiet
                 ELSE [at |-> "located", path |-> path, list |-> <<>>]]
  /\ UNCHANGED <<running, path, list, diskVars, turn, compact, front, budget, pastVars>>

CopyMessages(s) ==
  /\ saver[s].at = "located"
  /\ saver' = [saver EXCEPT ![s] =
                 IF list = <<>> THEN Quiet ELSE [@ EXCEPT !.at = "copied", !.list = list]]
  /\ UNCHANGED <<running, path, list, diskVars, turn, compact, front, budget, pastVars>>

ReplaceFile(s) ==
  /\ saver[s].at = "copied"
  /\ file' = [file EXCEPT ![saver[s].path] = [saved |-> TRUE, list |-> saver[s].list]]
  /\ saver' = [saver EXCEPT ![s] = Quiet]
  /\ UNCHANGED <<running, path, list, minted, turn, compact, front, budget, pastVars>>

Save(s) == ReadPath(s) \/ CopyMessages(s) \/ ReplaceFile(s)

(* The ticker of a turn: it saves again once its last save is through.     *)
AutosaveTick ==
  /\ running /\ Idle("autosave")
  /\ Ask("autosave")
  /\ UNCHANGED <<running, path, list, diskVars, turn, compact, front, budget, pastVars>>

-----------------------------------------------------------------------------
(* A turn.                                                                 *)

Mint == minted < MaxPaths /\ minted' = minted + 1

\* Mutated: what is folded away leaves no summary.
Cuts(ms) == {SubSeq(ms, k + 1, Len(ms)) : k \in 2..(Len(ms) - 1)}

\* A fold keeps at least the last message, and frees something.
Folds(ms) == {<<Tells(SubSeq(ms, 1, k))>> \o SubSeq(ms, k + 1, Len(ms))
                : k \in 2..(Len(ms) - 1)}

(* runGuarded.                                                             *)
TurnBegin ==
  /\ ~running /\ turn.id < MaxTurns
  /\ running' = TRUE
  /\ turn' = [NoTurn EXCEPT !.at = "open", !.id = turn.id + 1]
  /\ UNCHANGED <<path, list, diskVars, saver, compact, front, budget, pastVars>>

(* ensureSessionPath.                                                      *)
TurnOpen ==
  /\ turn.at = "open"
  /\ IF path = NoPath THEN Mint /\ path' = minted' ELSE UNCHANGED <<minted, path>>
  /\ turn' = [turn EXCEPT !.at = "count"]
  /\ UNCHANGED <<running, list, file, saver, compact, front, budget, pastVars>>

(* startMessages.                                                          *)
TurnCount ==
  /\ turn.at = "count"
  /\ turn' = [turn EXCEPT !.at = "ask", !.start = Len(list)]
  /\ home' = [home EXCEPT ![turn.id] = path]
  /\ UNCHANGED <<running, path, list, diskVars, saver, compact, front, budget,
                 born, finished, exposed, cleared>>

(* The message of the user, then those of the model and its tools.         *)
TurnAdd ==
  /\ turn.at \in {"ask", "work"} /\ turn.parts <= MaxParts
  /\ list' = Append(list, {<<turn.id, turn.parts>>})
  /\ turn' = [turn EXCEPT !.at = "work", !.parts = @ + 1]
  /\ born' = [born EXCEPT ![path] = @ \cup {<<turn.id, turn.parts>>}]
  /\ UNCHANGED <<running, path, diskVars, saver, compact, front, budget,
                 home, finished, exposed, cleared>>

(* maybeCompact.                                                           *)
TurnFold ==
  /\ turn.at = "work" /\ ~turn.folded
  /\ list' \in Folds(list)
  /\ turn' = [turn EXCEPT !.folded = TRUE]
  /\ UNCHANGED <<running, path, diskVars, saver, compact, front, budget, pastVars>>

\* Mutated: the last message of a turn is not worth a save.
SaveLater(n) == n > turn.start + MaxParts
Changed(n) == n > turn.start

(* The turn ends, by itself, cancelled or refused by a hook: it is saved   *)
(* when the conversation has grown.                                        *)
TurnEnd ==
  /\ turn.at \in {"ask", "work"}
  /\ turn' = [turn EXCEPT !.at = "saving"]
  /\ IF Changed(Len(list)) THEN Ask("turn") ELSE UNCHANGED saver
  /\ exposed' = IF turn.folded \/ ~Idle("autosave")
                THEN exposed \cup {turn.id} ELSE exposed
  /\ UNCHANGED <<running, path, list, diskVars, compact, front, budget,
                 born, home, finished, cleared>>

TurnOver ==
  /\ turn.at = "saving" /\ Idle("turn")
  /\ running' = FALSE
  /\ turn' = [NoTurn EXCEPT !.id = turn.id]
  /\ finished' = finished \cup {turn.id}
  /\ UNCHANGED <<path, list, diskVars, saver, compact, front, budget,
                 born, home, exposed, cleared>>

Turn == TurnBegin \/ TurnOpen \/ TurnCount \/ TurnAdd \/ TurnFold \/ TurnEnd \/ TurnOver

-----------------------------------------------------------------------------
(* /compact: a goroutine of its own, whatever else runs.                   *)

CompactBegin ==
  /\ compact.at = "idle" /\ budget.compacts > 0
  /\ Folds(list) # {}
  /\ compact' = [at |-> "summarizing", list |-> list]
  /\ budget' = [budget EXCEPT !.compacts = @ - 1]
  /\ UNCHANGED <<running, path, list, diskVars, turn, saver, front, pastVars>>

(* Replace, on the session of now, with what was read then.                *)
CompactReplace ==
  /\ compact.at = "summarizing"
  /\ list' \in Folds(compact.list)
  /\ compact' = [at |-> "saving", list |-> <<>>]
  /\ Ask("compact")
  /\ UNCHANGED <<running, path, diskVars, turn, front, budget, pastVars>>

(* The archive could not be written.                                       *)
CompactFail ==
  /\ compact.at = "summarizing"
  /\ compact' = [at |-> "idle", list |-> <<>>]
  /\ UNCHANGED <<running, path, list, diskVars, turn, saver, front, budget, pastVars>>

CompactOver ==
  /\ compact.at = "saving" /\ Idle("compact")
  /\ compact' = [at |-> "idle", list |-> <<>>]
  /\ UNCHANGED <<running, path, list, diskVars, turn, saver, front, budget, pastVars>>

Compact == CompactBegin \/ CompactReplace \/ CompactFail \/ CompactOver

-----------------------------------------------------------------------------
(* The calls that leave the conversation.  Those of Switches look whether  *)
(* a turn runs; the resume of the server ("resume") and of the desktop     *)
(* ("reload") do not.  Clear removes the file, reload reads the other one  *)
(* before anything else, and the rest begin with a save.                   *)

FrontFrame == UNCHANGED <<running, turn, compact>>

MayCall(op) ==
  /\ op \in Switches => ~running
  /\ op = "branch" => list # <<>>

FrontCall(op) ==
  /\ front.at = "idle" /\ budget.calls > 0
  /\ MayCall(op)
  /\ front' = [NoCall EXCEPT !.op = op, !.path = path,
                 !.at = CASE op = "clear"  -> "remove"
                          [] op = "reload" -> "load"
                          [] OTHER         -> "save"]
  /\ IF op \in {"clear", "reload"} THEN UNCHANGED saver ELSE Ask("front")
  /\ budget' = [budget EXCEPT !.calls = @ - 1]
  /\ FrontFrame /\ UNCHANGED <<path, list, diskVars, pastVars>>

(* removeSessionArtifacts.                                                 *)
FrontRemove ==
  /\ front.at = "remove"
  /\ file' = IF front.path = NoPath THEN file ELSE [file EXCEPT ![front.path] = NoFile]
  /\ cleared' = cleared \cup ({front.path} \ {NoPath})
  /\ front' = [front EXCEPT !.at = "swap"]
  /\ FrontFrame
  /\ UNCHANGED <<path, list, minted, saver, budget, born, home, finished, exposed>>

\* Mutated: the call does not wait for its save.
SaveBegun   == TRUE
SaveThrough == Idle("front")

FrontSaved ==
  /\ front.at = "save" /\ SaveThrough
  /\ front' = [front EXCEPT !.at = CASE front.op = "new"                 -> "swap"
                                     [] front.op = "branch"              -> "copy"
                                     [] front.op \in {"switch", "resume"} -> "load"
                                     [] front.op = "reload"              -> "adopt"]
  /\ FrontFrame /\ UNCHANGED <<path, list, diskVars, saver, budget, pastVars>>

\* Mutated: the fresh conversation keeps the old file.
SameFile == path' = path /\ UNCHANGED minted
FreshFile == Mint /\ path' = minted'

(* New and clear: the fresh session and its file, under one lock.          *)
FrontSwap ==
  /\ front.at = "swap"
  /\ FreshFile
  /\ list' = <<>>
  /\ front' = NoCall
  /\ FrontFrame /\ UNCHANGED <<file, saver, budget, pastVars>>

(* Branch writes the copy to a file of its own.                            *)
FrontCopy ==
  /\ front.at = "copy"
  /\ Mint
  /\ file' = [file EXCEPT ![minted'] = [saved |-> TRUE, list |-> list]]
  /\ born' = [born EXCEPT ![minted'] = Tells(list)]
  /\ front' = [front EXCEPT !.at = "adopt", !.path = minted', !.list = list]
  /\ FrontFrame
  /\ UNCHANGED <<path, list, saver, budget, home, finished, exposed, cleared>>

(* LoadSession.                                                            *)
FrontLoad(p) ==
  /\ front.at = "load" /\ file[p].saved
  /\ front' = [front EXCEPT !.path = p, !.list = file[p].list,
                            !.at = IF front.op = "reload" THEN "save" ELSE "adopt"]
  /\ IF front.op = "reload" THEN Ask("front") ELSE UNCHANGED saver
  /\ FrontFrame /\ UNCHANGED <<path, list, diskVars, budget, pastVars>>

\* Nothing to load, or no such branch.
FrontGiveUp ==
  /\ front.at = "load"
  /\ front' = NoCall
  /\ FrontFrame /\ UNCHANGED <<path, list, diskVars, saver, budget, pastVars>>

(* SetSession, and then, under another lock, the path.                     *)
FrontAdopt ==
  /\ front.at = "adopt"
  /\ list' = front.list
  /\ front' = [front EXCEPT !.at = "bind"]
  /\ FrontFrame /\ UNCHANGED <<path, diskVars, saver, budget, pastVars>>

\* Mutated: the adopted conversation is kept in the file of the one it left.
SamePath == path
ItsPath  == front.path

FrontBind ==
  /\ front.at = "bind"
  /\ path' = ItsPath
  /\ front' = NoCall
  /\ FrontFrame /\ UNCHANGED <<list, diskVars, saver, budget, pastVars>>

Frontend ==
  \/ \E op \in Ops : FrontCall(op)
  \/ FrontRemove \/ FrontSaved \/ FrontSwap \/ FrontCopy
  \/ \E p \in Paths : FrontLoad(p)
  \/ FrontGiveUp \/ FrontAdopt \/ FrontBind

(* The process ends and starts again, with no conversation: what a file    *)
(* does not tell is gone.                                                  *)
Crash ==
  /\ budget.crashes > 0
  /\ budget' = [budget EXCEPT !.crashes = @ - 1]
  /\ running' = FALSE /\ path' = NoPath /\ list' = <<>>
  /\ turn' = [NoTurn EXCEPT !.id = turn.id]
  /\ saver' = [s \in Savers |-> Quiet]
  /\ compact' = [at |-> "idle", list |-> <<>>]
  /\ front' = NoCall
  /\ born' = [p \in Paths |-> Tells(file[p].list)]
  /\ UNCHANGED <<diskVars, home, finished, exposed, cleared>>

-----------------------------------------------------------------------------
(* What runs beside a call of a frontend, or beside a compaction, in the   *)
(* state that is entered.                                                  *)
Beside ==
  {k \in {"turn", "autosave", "compact"} :
     /\ front'.at # "idle"
     /\ CASE k = "turn"     -> running'
          [] k = "autosave" -> saver'["autosave"].at # "idle"
          [] k = "compact"  -> compact'.at # "idle"}
  \cup {k \in {"compacted turn"} : compact'.at # "idle" /\ running'}
  \cup {k \in {"reloaded itself"} :
          front'.op = "reload" /\ front'.at = "save" /\ front'.path = path'}

SessionNext ==
  /\ Turn \/ AutosaveTick \/ Compact \/ Frontend \/ Crash \/ \E s \in Savers : Save(s)
  /\ overlaps' = overlaps \cup Beside

SessionSpec == SessionInit /\ [][SessionNext]_sessionVars

-----------------------------------------------------------------------------
(* Properties.                                                             *)

Messages == Seq(SUBSET ((1..MaxTurns) \X (0..MaxParts)))

(* The variables keep their types.                                         *)
SessionTypes ==
  /\ running \in BOOLEAN /\ path \in 0..minted /\ minted \in 0..MaxPaths
  /\ list \in Messages /\ compact.list \in Messages /\ front.list \in Messages
  /\ \A p \in Paths : file[p].list \in Messages /\ born[p] \subseteq (1..MaxTurns) \X (0..MaxParts)
  /\ \A s \in Savers : saver[s].list \in Messages
  /\ \A s \in Savers : saver[s].at \in {"located", "copied"} => saver[s].path \in 1..minted

\* Nothing ran beside a call that left the conversation.
Alone == overlaps \cap {"turn", "autosave", "compact"} = {}

(* A session file tells only what was said in its own conversation (or in  *)
(* the one it branched from), whatever calls, saves, folds and crashes     *)
(* there have been, unless a turn, an autosave or a compaction was under   *)
(* way beside a call that left the conversation.                           *)
FileIsItsOwn == Alone => \A p \in Paths : Tells(file[p].list) \subseteq born[p]

(* The conversation in memory tells all that was said in it since it was   *)
(* begun, branched, loaded: folds summarise and never forget.  A           *)
(* compaction beside a turn, and a reload of the conversation it leaves,   *)
(* are the exceptions.                                                     *)
NothingForgotten ==
  /\ overlaps = {} /\ path # NoPath /\ front.at # "bind"
  => Tells(list) = born[path]

(* Once a turn has ended, what it added is in its file: a crash loses no   *)
(* finished turn.  A turn that compacted may have left the conversation no *)
(* longer than it was, and is not saved; and an autosave under way when a  *)
(* turn ends can put its older copy back.                                  *)
TurnIsSaved(t) ==
  home[t] \notin cleared =>
    {a \in born[home[t]] : a[1] = t} \subseteq Tells(file[home[t]].list)

FinishedTurnsAreSaved ==
  overlaps = {} => \A t \in finished \ exposed : home[t] # NoPath => TurnIsSaved(t)

(* A conversation is left with all it tells in its file.                   *)
LeftIsSaved ==
  /\ Alone /\ path # NoPath
  /\ front.at \in {"swap", "adopt"} /\ front.op # "clear"
  => Tells(list) \subseteq Tells(file[path].list)

(* A conversation that was cleared stays so: its file does not come back.  *)
ClearedStaysGone == Alone => \A p \in cleared : ~file[p].saved

(* What was said is kept: in memory, and once its turn is over on disk.    *)
TurnsAreKept == NothingForgotten /\ FinishedTurnsAreSaved

(* A conversation is left as the user asked: saved, or gone for good.      *)
LeftAsAsked == LeftIsSaved /\ ClearedStaysGone

(* What the comment of Snapshot says (internal/control/controller.go:2281):*)
(* "Called after every turn so a crash loses at most one in-flight prompt".*)
EveryTurnIsSaved ==
  \A t \in finished : overlaps = {} /\ home[t] # NoPath => TurnIsSaved(t)

=============================================================================
