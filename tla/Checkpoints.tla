---------------------------- MODULE Checkpoints -----------------------------
(***************************************************************************)
(* Checkpoints and rewind (internal/checkpoint/checkpoint.go and the       *)
(* rewind, fork and summarize calls of internal/control/controller.go):    *)
(* every turn opens a checkpoint that keeps the length the conversation    *)
(* had, and each file as it was before the turn first touched it.          *)
(*                                                                         *)
(* Turns, rewinds, forks, summaries, compactions, restarts of the          *)
(* application and files that cannot be restored, in any order.  A rewind  *)
(* and a turn do not overlap.  Files change by the tools of a turn only;   *)
(* what they hold is the number of the turn that wrote it, or Absent.  A   *)
(* message is the number of the turn that added it, or a Summary; the      *)
(* system prompt is left out.                                              *)
(***************************************************************************)
EXTENDS Integers, Sequences, FiniteSets, SequencesExt

CONSTANTS
  Files,       \* the files the tools write
  MaxTurns,    \* bound on the turns begun
  MaxEdits,    \* bound on the writes of the tools
  MaxMute,     \* bound on the turns that end without an answer
  MaxRewinds,  \* bound on the rewinds
  MaxFolds,    \* bound on the compactions and summaries
  MaxRestarts  \* bound on the restarts

ASSUME CheckpointBounds ==
  {MaxTurns, MaxEdits, MaxMute, MaxRewinds, MaxFolds, MaxRestarts} \subseteq Nat

Numbers   == 0..(MaxTurns - 1)   \* of turns, as the controller counts them
Absent    == 0                   \* a nil Content
Untouched == -1
NoBound   == -1
Summary   == 0

VARIABLES
  fs,        \* the workspace
  log,       \* the messages of the session
  running,   \* a turn runs
  cpTurn,    \* Controller.cpTurn
  bound,     \* Controller.cpBound
  done,      \* Store.done
  cur,       \* Store.cur, a sequence of at most one checkpoint
  disk,      \* the checkpoint of each turn-<n>.json, as a sequence of at most one
  saved,     \* the messages in the session's file
  begun,     \* how many turns have begun
  budget,    \* the writes, mute turns, rewinds, folds and restarts to come
  startFs,   \* history: the workspace when a turn last had that number
  startLog,  \* history: the messages then
  soiled,    \* history: the numbers whose files no rewind is sure to restore
  lost,      \* history: the numbers whose files are not sure after a restart
  stale,     \* history: the numbers whose boundary may mean another place
  ahead      \* history: the numbers of turns that began with messages the
             \* session's file does not begin with, and still does not

storeVars == <<done, cur, disk>>
pastVars  == <<startFs, startLog>>
vars == <<fs, log, running, cpTurn, bound, storeVars, saved, begun, budget,
          pastVars, soiled, lost, stale, ahead>>

Init ==
  /\ fs = [f \in Files |-> Absent] /\ log = <<>> /\ running = FALSE
  /\ cpTurn = 0 /\ bound = [t \in Numbers |-> NoBound]
  /\ done = <<>> /\ cur = <<>> /\ disk = [t \in Numbers |-> <<>>]
  /\ saved = <<>> /\ begun = 0
  /\ budget = [edits |-> MaxEdits, mute |-> MaxMute, rewinds |-> MaxRewinds, folds |-> MaxFolds, restarts |-> MaxRestarts]
  /\ startFs = [t \in Numbers |-> fs] /\ startLog = [t \in Numbers |-> <<>>]
  /\ soiled = {} /\ lost = {} /\ stale = {} /\ ahead = {}

-----------------------------------------------------------------------------
(* The store.                                                              *)

\* done and cur; the sort by turn keeps the order of two equals (sort.Slice is
\* an insertion sort at such lengths).
Checkpoints == done \o cur

\* What load reads back: every file, sorted by turn.
Kept   == {t \in Numbers : disk[t] # <<>>}
Nth(i) == CHOOSE t \in Kept : Cardinality({u \in Kept : u < t}) = i - 1
OnDisk == [i \in 1..Cardinality(Kept) |-> disk[Nth(i)][1]]

Taken(cps) == {cps[i].turn : i \in DOMAIN cps}

Touching(cps, f, t) ==
  {i \in DOMAIN cps : cps[i].turn >= t /\ cps[i].files[f] # Untouched}

Before(cps, i, j) ==
  cps[i].turn < cps[j].turn \/ (cps[i].turn = cps[j].turn /\ i <= j)

(* RestoreCode: a file goes back to its earliest snapshot of turn t or     *)
(* later; one that no such turn touched stays as it is.                    *)
Earliest(cps, f, t) ==
  CHOOSE i \in Touching(cps, f, t) : \A j \in Touching(cps, f, t) : Before(cps, i, j)

Restored(cps, t, bad) ==
  [f \in Files |-> IF f \in bad \/ Touching(cps, f, t) = {} THEN fs[f]
                   ELSE cps[Earliest(cps, f, t)].files[f]]

NextTurn(cps) == IF cps = <<>> THEN 0 ELSE 1 + CHOOSE n \in Taken(cps) : \A m \in Taken(cps) : m <= n

-----------------------------------------------------------------------------
(* Turns.                                                                  *)

\* Mutated: a file that is there already is not written again.
PersistOnce(t, cp) == IF disk[t] = <<>> THEN [disk EXCEPT ![t] = cp] ELSE disk
Persist(t, cp)     == [disk EXCEPT ![t] = cp]

Opened(cp) == <<cp>>

(* beginCheckpoint.                                                        *)
BeginCheckpoint ==
  /\ ~running /\ begun < MaxTurns /\ cpTurn \in Numbers
  /\ begun' = begun + 1
  /\ cpTurn' = cpTurn + 1
  /\ bound' = [bound EXCEPT ![cpTurn] = Len(log)]
  /\ done' = done \o cur
  /\ cur' = Opened([turn |-> cpTurn, index |-> Len(log),
                    files |-> [f \in Files |-> Untouched]])
  /\ disk' = Persist(cpTurn, cur')
  /\ startFs' = [startFs EXCEPT ![cpTurn] = fs]
  /\ startLog' = [startLog EXCEPT ![cpTurn] = log]
  /\ stale' = stale \ {cpTurn}
  /\ ahead' = IF IsPrefix(log, saved) THEN ahead \ {cpTurn} ELSE ahead \cup {cpTurn}
  /\ soiled' = IF cpTurn \in Taken(Checkpoints) /\ fs # startFs[cpTurn]
               THEN soiled \cup 0..cpTurn ELSE soiled
  /\ lost' = IF \E t \in Numbers : t > cpTurn /\ disk[t] # <<>>
             THEN lost \cup 0..cpTurn ELSE lost
  /\ UNCHANGED <<fs, saved>>

(* The checkpoint, then the message of the user.                           *)
TurnBegin ==
  /\ BeginCheckpoint
  /\ running' = TRUE
  /\ log' = Append(log, begun')
  /\ UNCHANGED budget

MuteTurn == budget.mute > 0 /\ budget' = [budget EXCEPT !.mute = @ - 1]

(* A hook of the user refuses the message: the checkpoint stays.           *)
TurnBlocked ==
  /\ BeginCheckpoint /\ MuteTurn
  /\ UNCHANGED <<running, log>>

\* Mutated: every touch of the turn is kept, and the last one stays.
LastTouch(f)  == TRUE
FirstTouch(f) == cur[1].files[f] = Untouched

(* A writer tool: the snapshot, then the write.                            *)
Edit(f) ==
  /\ running
  /\ budget.edits > 0 /\ budget' = [budget EXCEPT !.edits = @ - 1]
  /\ cur' = IF FirstTouch(f) THEN <<[cur[1] EXCEPT !.files[f] = fs[f]]>> ELSE cur
  /\ disk' = Persist(cur[1].turn, cur')
  /\ fs' = [fs EXCEPT ![f] = begun]
  /\ UNCHANGED <<log, running, cpTurn, bound, done, saved, begun,
                 pastVars, soiled, lost, stale, ahead>>

(* An answer, or none when the turn was cancelled or has failed.           *)
(* snapshotActivityIfChanged: a conversation that is no longer than before *)
(* the turn, after a fold, is not saved.                                   *)
TurnEnd ==
  /\ running
  /\ running' = FALSE
  /\ \/ log' = Append(log, begun) /\ UNCHANGED budget
     \/ UNCHANGED log /\ MuteTurn
  /\ IF Len(log') > cur[1].index
     THEN saved' = log' /\ ahead' = {}
     ELSE UNCHANGED <<saved, ahead>>
  /\ UNCHANGED <<fs, cpTurn, bound, storeVars, begun, pastVars, soiled, lost,
                 stale>>

(* snapshot, which leaves an empty conversation out: the autosave of a     *)
(* turn that runs, or the application switches or closes the session.      *)
(* Only a save that a restart may find matters.                            *)
Save ==
  /\ log # <<>> /\ budget.restarts > 0
  /\ saved' = log /\ ahead' = {}
  /\ UNCHANGED <<fs, log, running, cpTurn, bound, storeVars, begun, budget, pastVars,
                 soiled, lost, stale>>

-----------------------------------------------------------------------------
(* What restructures the conversation.                                     *)

Known == Taken(Checkpoints) \cup Kept

(* A compaction, of a turn or asked for: the boundaries stay as they are.  *)
Fold ==
  /\ budget.folds > 0
  /\ budget' = [budget EXCEPT !.folds = @ - 1]
  /\ \E k \in 2..(Len(log) - 1) : log' = <<Summary>> \o SubSeq(log, k + 1, Len(log))
  /\ IF running THEN UNCHANGED <<saved, ahead>> ELSE saved' = log' /\ ahead' = {}
  /\ stale' = stale \cup Known
  /\ UNCHANGED <<fs, running, cpTurn, bound, storeVars, begun, pastVars, soiled, lost>>

(* The save at the end of a call.                                          *)
SaveAfter == IF log' = <<>> THEN UNCHANGED <<saved, ahead>> ELSE saved' = log' /\ ahead' = {}

DropBounds == [t \in Numbers |-> NoBound]

SummarizedFrom(b) ==
  IF b < Len(log) THEN Append(SubSeq(log, 1, b), Summary) ELSE log

SummarizedUpTo(b) ==
  IF b > 0 /\ b <= Len(log) THEN <<Summary>> \o SubSeq(log, b + 1, Len(log)) ELSE log

(* summarizeAt.                                                            *)
Summarize(t) ==
  /\ ~running /\ bound[t] # NoBound /\ budget.folds > 0
  /\ budget' = [budget EXCEPT !.folds = @ - 1]
  /\ log' \in {SummarizedFrom(bound[t]), SummarizedUpTo(bound[t])}
  /\ bound' = DropBounds
  /\ SaveAfter
  /\ stale' = stale \cup Known
  /\ UNCHANGED <<fs, running, cpTurn, storeVars, begun, pastVars, soiled, lost>>

-----------------------------------------------------------------------------
(* Rewind.  The files come first: one that cannot be restored ends the     *)
(* call before the conversation is touched.                                *)

Scopes == {"code", "conversation", "both"}

\* The files it writes back or deletes; any of them may fail.
Tried(t, scope) ==
  IF scope = "conversation" THEN {} ELSE {f \in Files : Touching(Checkpoints, f, t) # {}}

\* Mutated: a boundary is taken for the place of the turn's first message.
CutAfter(t)  == SubSeq(log, 1, bound[t] + 1)
Truncated(t) == SubSeq(log, 1, bound[t])

MayTruncate(t) == bound[t] # NoBound /\ bound[t] <= Len(log)

(* s.Messages[:boundary], the counter and the boundaries, and the save.    *)
Truncate(t) ==
  /\ log' = Truncated(t)
  /\ cpTurn' = t
  /\ bound' = [u \in Numbers |-> IF u >= t THEN NoBound ELSE bound[u]]
  /\ SaveAfter
  /\ stale' = stale \cup {u \in Known : u > t \/ bound[u] > bound[t]}

Rewind(t, scope, bad) ==
  /\ ~running /\ t \in Taken(Checkpoints) /\ budget.rewinds > 0
  /\ budget' = [budget EXCEPT !.rewinds = @ - 1]
  /\ fs' = IF scope = "conversation" THEN fs ELSE Restored(Checkpoints, t, bad)
  /\ IF scope # "code" /\ bad = {} /\ MayTruncate(t)
     THEN Truncate(t)
     ELSE UNCHANGED <<log, cpTurn, bound, saved, stale, ahead>>
  /\ soiled' = soiled \cup {u \in Known : u > t}
  /\ UNCHANGED <<running, storeVars, begun, pastVars, lost>>

\* Mutated: the fork takes the message that comes next as well.
ForkedOneMore(t) == SubSeq(log, 1, bound[t] + 1)

(* ForkSession: the messages of the branch; the session stays as it is.    *)
Forked(t) ==
  SubSeq(log, 1, IF bound[t] > Len(log) THEN Len(log) ELSE bound[t])

(* The application ends, at any moment, and resumes what was saved of the  *)
(* session.                                                                *)
Restart ==
  /\ budget.restarts > 0
  /\ budget' = [budget EXCEPT !.restarts = @ - 1]
  /\ running' = FALSE
  /\ log' = saved
  /\ done' = OnDisk /\ cur' = <<>>
  /\ cpTurn' = NextTurn(OnDisk)
  /\ bound' = [t \in Numbers |-> IF disk[t] = <<>> THEN NoBound ELSE disk[t][1].index]
  /\ soiled' = soiled \cup lost
  /\ stale' = stale \cup ahead /\ ahead' = {}
  /\ UNCHANGED <<fs, disk, saved, begun, pastVars, lost>>

Next ==
  \/ TurnBegin \/ TurnBlocked
  \/ \E f \in Files : Edit(f)
  \/ TurnEnd \/ Save \/ Fold
  \/ \E t \in Numbers : Summarize(t)
  \/ \E t \in Numbers, scope \in Scopes : \E bad \in SUBSET Tried(t, scope) : Rewind(t, scope, bad)
  \/ Restart

Spec == Init /\ [][Next]_vars

\* The files are alike.
Symmetry == Permutations(Files)

-----------------------------------------------------------------------------
(* Properties.                                                             *)

Contents == 0..MaxTurns
Checkpoint == [turn : Numbers, index : Nat, files : [Files -> Contents \cup {Untouched}]]

(* The variables keep their types.                                         *)
TypeOK ==
  /\ fs \in [Files -> Contents] /\ log \in Seq(Contents) /\ saved \in Seq(Contents)
  /\ running \in BOOLEAN /\ cpTurn \in 0..MaxTurns /\ begun \in Contents
  /\ bound \in [Numbers -> Nat \cup {NoBound}]
  /\ Checkpoints \in Seq(Checkpoint) /\ Len(cur) <= 1
  /\ disk \in [Numbers -> Seq(Checkpoint)]
  /\ soiled \cup stale \cup ahead \subseteq Numbers

(* A rewind of the code to a turn leaves every file as it was when that    *)
(* turn began (RestoreCode), whatever turns, compactions, earlier rewinds  *)
(* and restarts there were, except for the numbers a rewind went back      *)
(* beyond, those up to a number that was given again to a turn that began  *)
(* with other files, and, after a restart, those up to a number given      *)
(* again while later checkpoints were left on disk.                        *)
CodeIsRestored ==
  \A t \in Taken(Checkpoints) \ soiled : Restored(Checkpoints, t, {}) = startFs[t]

(* A rewind of the conversation is possible, and leaves the messages the   *)
(* turn began with, unless a fold, a rewind beyond it, or one to a         *)
(* boundary below its own that a restart brought back, moved them, or the  *)
(* application ended before the messages it began with were saved: a turn  *)
(* that folds and ends no longer than it began leaves the file behind.     *)
LogIsRestored ==
  \A t \in Numbers \ stale :
    bound[t] # NoBound => MayTruncate(t) /\ Truncated(t) = startLog[t]

(* A fork begins with the messages the turn began with, under the same     *)
(* conditions.                                                             *)
ForkIsExact ==
  \A t \in Numbers \ stale : bound[t] # NoBound => Forked(t) = startLog[t]

(* A rewind and a fork go back to the same conversation, that of the turn. *)
TalkIsRestored == LogIsRestored /\ ForkIsExact

(* A restart changes no answer: the checkpoints on disk restore what those *)
(* in memory restore.                                                      *)
DiskRestoresTheSame ==
  \A t \in Taken(Checkpoints) \ (soiled \cup lost) :
    Restored(OnDisk, t, {}) = Restored(Checkpoints, t, {})

(* The boundaries the controller keeps are those a restart finds.          *)
BoundsSurvive ==
  \A t \in Numbers : bound[t] # NoBound => disk[t] # <<>> /\ disk[t][1].index = bound[t]

(* A restart finds what was there before it: files and boundaries.         *)
RestartChangesNothing == DiskRestoresTheSame /\ BoundsSurvive

(* What the comment of RestoreCode says                                    *)
(* (internal/checkpoint/checkpoint.go:238): "RestoreCode reverts the       *)
(* workspace to its state at the start of turn `fromTurn`".                *)
RestoreIsExact ==
  [][\A t \in Numbers :
       Rewind(t, "code", {}) => fs' = startFs[t]]_vars

=============================================================================
