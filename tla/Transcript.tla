----------------------------- MODULE Transcript -----------------------------
(***************************************************************************)
(* The messages of a conversation (internal/agent): the run loop appends   *)
(* to them, maintenance between two model calls trims and prunes old tool  *)
(* results and folds the older middle into a summary (compact.go,          *)
(* prune.go), the user asks for folds, a save copies them at any moment    *)
(* and a restart loads the copy (save.go).                                 *)
(*                                                                         *)
(* The system prompt, which every fold keeps, is left out.  The prompt the *)
(* provider counts is any number.  A summary is the set of the messages it *)
(* was made from; one the model could not be asked for tells nothing.      *)
(* Maintenance is one step: its archive is written before it changes the   *)
(* messages, and its summary is asked for from messages nothing changes.   *)
(***************************************************************************)
EXTENDS WireHistory, FiniteSetsExt

CONSTANTS
  TailBudget,    \* defaultTailTokens, in the weights below
  WorthFolding,  \* minFoldTokens
  Sizes,         \* the sizes of tool results looked at
  MaxMessages,   \* bound on the messages added
  MaxOld,        \* bound on the messages of a file of an earlier version
  MaxNew,        \* bound on the messages added to such a file
  MaxNudges,     \* bound on the messages of the user within a turn and on
                 \* those that are pasted
  MaxFolds,      \* bound on the folds the user asks for
  MaxCrashes     \* bound on the ends of the process

ASSUME TranscriptBounds ==
  /\ {TailBudget, WorthFolding, MaxMessages, MaxOld, MaxNew, MaxNudges,
      MaxFolds, MaxCrashes} \subseteq Nat
  /\ MaxNew <= MaxMessages
  /\ Sizes \subseteq {"short", "long", "huge"}

MinKeep == 2   \* minRecentKeep

VARIABLES
  list,     \* Session.Messages
  phase,    \* where the run loop is
  then,     \* where it goes on after maintenance
  latch,    \* consecutiveCompacts, compactStuck, softCompactNoticed
  archive,  \* the messages in the archive, with their text at that time
  bounds,   \* the turn boundaries the controller offers for a summary
  marks,    \* those in the checkpoint files
  disk,     \* the messages in the session's file
  added,    \* how many messages have been added
  budget,   \* the nudges, folds, restarts and saves still to come
  past,     \* history: the messages added, and of the short ones of the user
            \* their order
  diskPast, \* history: the same for the file
  row,      \* history: automatic folds since the prompt was last small
  clean     \* history: nothing has severed a call from its results

foldVars == <<latch, archive, row>>
diskVars == <<disk, diskPast>>
transcriptVars == <<list, phase, then, foldVars, bounds, marks, diskVars, added, budget, past, clean>>

Call(id) == [id |-> id, named |-> TRUE, cut |-> FALSE]
Batches == {<<Call(1)>>, <<Call(2), Call(1)>>, <<Call(NoId), Call(NoId)>>}

Numbers(ms) == {m.n : m \in Range(ms)}
Told(ms) == UNION {m.tells : m \in Range(ms)}

\* History: a message more.
Remember(m) ==
  [owed |-> past.owed \cup {m.n},
   asked |-> IF m.role = "user" /\ m.text = "brief" THEN Append(past.asked, m.n) ELSE past.asked]

(* Session.Add.                                                            *)
Add(m) ==
  /\ added < MaxMessages
  /\ added' = added + 1
  /\ list' = Append(list, m)
  /\ past' = Remember(m)

\* Files an earlier version may have left.
OldCalls ==
  Batches \cup {<<Call(1), Call(1)>>, <<[Call(1) EXCEPT !.named = FALSE]>>,
                <<[Call(NoId) EXCEPT !.named = FALSE]>>, <<[Call(1) EXCEPT !.cut = TRUE]>>}
OldMessages ==
  {Message("user", 0)}
  \cup {[Message("assistant", 0) EXCEPT !.calls = cs] : cs \in OldCalls}
  \cup {[Message("tool", 0) EXCEPT !.to = r.id, !.named = r.named] : r \in [id : {NoId, 1, 2}, named : BOOLEAN]}
OldFiles ==
  UNION {{[i \in 1..k |-> [ms[i] EXCEPT !.n = -i]] : ms \in [1..k -> OldMessages]} : k \in 1..MaxOld}

IsUserTurn(m) == m.role = "user" /\ m.text = "brief" /\ m.tells = {}
UserTurns(ms) == Only(ms, {m \in Range(ms) : IsUserTurn(m)})
NumbersOf(ms) == [i \in DOMAIN ms |-> ms[i].n]

Start(ms) ==
  /\ list = Stored(ms) /\ disk = ms
  /\ past = [owed |-> Numbers(ms), asked |-> NumbersOf(UserTurns(ms))]
  /\ diskPast = past
  /\ clean = Whole(list)

TranscriptInit ==
  /\ \/ Start(<<>>) /\ added = 0
     \/ \E ms \in OldFiles : Start(ms) /\ added = MaxMessages - MaxNew
  /\ phase = "idle" /\ then = "idle"
  /\ latch = [compacts |-> 0, stuck |-> FALSE, noticed |-> FALSE]
  /\ archive = {} /\ bounds = {} /\ marks = {}
  /\ budget = [nudges |-> MaxNudges, folds |-> MaxFolds, crashes |-> MaxCrashes, saves |-> Min({1, MaxCrashes})]
  /\ row = 0

-----------------------------------------------------------------------------
(* The run loop.                                                           *)

Goes(place, next) == phase' = place /\ then' = next

NudgeTaken == budget.nudges > 0 /\ budget' = [budget EXCEPT !.nudges = @ - 1]

(* A turn begins: beginCheckpoint, and the message of the user.            *)
Ask(text) ==
  /\ phase = "idle"
  /\ Add([Message("user", added + 1) EXCEPT !.text = text])
  /\ bounds' = bounds \cup {Len(list)} /\ marks' = marks \cup {Len(list)}
  /\ IF text = "brief" THEN UNCHANGED budget ELSE NudgeTaken
  /\ Goes("step", "step")
  /\ UNCHANGED <<foldVars, diskVars, clean>>

(* A steer, or the word on a stream that broke off.                        *)
Nudge ==
  /\ phase = "step" /\ NudgeTaken
  /\ Add(Message("user", added + 1))
  /\ UNCHANGED <<phase, then, foldVars, bounds, marks, diskVars, clean>>

(* An answer; it is the last one, or the host has asked for a better one.  *)
Answer(next) ==
  /\ phase = "step"
  /\ Add(Message("assistant", added + 1))
  /\ Goes("review", next)
  /\ UNCHANGED <<foldVars, bounds, marks, diskVars, budget, clean>>

AskTools(calls) ==
  /\ phase = "step" /\ added + Len(calls) < MaxMessages
  /\ Add([Message("assistant", added + 1) EXCEPT !.calls = calls])
  /\ Goes("tools", "step")
  /\ UNCHANGED <<foldVars, bounds, marks, diskVars, budget, clean>>

\* Mutated: the loop looks for a result more than there are calls.
ResultsInLate(k, calls) == k > Len(calls)
ResultsIn(k, calls)     == k = Len(calls)

(* The results of the batch are added one after the other.                 *)
AddResult(text) ==
  /\ phase = "tools"
  /\ LET a == CHOOSE i \in DOMAIN list : Asks(list[i]) /\ RunEnd(list, i) = Len(list)
         k == Len(list) - a + 1
     IN /\ Add([Result(list[a].calls[k], added + 1) EXCEPT !.text = text])
        /\ Goes(IF ResultsIn(k, list[a].calls) THEN "review" ELSE "tools", "step")
  /\ UNCHANGED <<foldVars, bounds, marks, diskVars, budget, clean>>

(* A cancel, an error of the provider, or the last step allowed.           *)
LeaveTurn ==
  /\ phase = "step"
  /\ Goes("idle", "idle")
  /\ UNCHANGED <<list, foldVars, bounds, marks, diskVars, added, budget, past, clean>>

-----------------------------------------------------------------------------
(* What a fold takes.                                                      *)

IsSummary(m) == m.role = "summary"
PinnableUserTurn(m) == m.role = "user" /\ m.text = "brief"

Weight(m) == CASE m.text \in {"long", "trimmed"} -> 2
               [] m.text \in {"huge", "pasted"} -> 3
               [] OTHER -> 1

WeightFrom(ms, i) ==
  LET sum[k \in i..Len(ms)] == IF k = i THEN 0 ELSE sum[k - 1] + Weight(ms[k])
  IN sum[Len(ms)]

PinnedPrefixLen(ms) ==
  LET first == IF ms # <<>> /\ PinnableUserTurn(ms[1]) THEN 1 ELSE 0
  IN Max({h \in first..Len(ms) : \A i \in (first + 1)..h : IsSummary(ms[i])})

\* Mutated: the tail may begin with the results of a call that is folded.
AnyStart(ms, head, start) == start
AlignedStart(ms, head, start) ==
  IF start = Len(ms) THEN start
  ELSE Max({j \in head..start : j = head \/ ~IsTool(ms[j + 1])})

(* tailStart.                                                              *)
TailStart(ms, head) ==
  LET fits == {i \in (head + 1)..(Len(ms) - 1) :
                 Len(ms) - i <= MinKeep \/ WeightFrom(ms, i) <= TailBudget}
  IN AlignedStart(ms, head, IF fits = {} THEN Len(ms) ELSE Min(fits))

(* planCompaction: there is something between the prefix and the tail.     *)
Plan(ms) ==
  LET head == PinnedPrefixLen(ms)
      start == TailStart(ms, head)
  IN [head |-> head, start |-> IF start < head THEN head ELSE start, ok |-> start > head]

\* The messages with their plan: the parts the functions below look at.
Parts(ms) ==
  LET plan == Plan(ms)
  IN [all |-> ms, ok |-> plan.ok,
      head |-> SubSeq(ms, 1, plan.head),
      region |-> SubSeq(ms, plan.head + 1, plan.start),
      tail |-> SubSeq(ms, plan.start + 1, Len(ms))]

(* partitionFold.                                                          *)
Keeps(m) == IsSummary(m) \/ PinnableUserTurn(m)
Kept(parts)   == Only(parts.region, {m \in Range(parts.region) : Keeps(m)})
Folded(parts) == Only(parts.region, {m \in Range(parts.region) : ~Keeps(m)})

\* latestCompactionSummary, when it is among the pinned messages.
PreviousSummary(parts) ==
  IF \E m \in Range(parts.region \o parts.tail) : IsSummary(m) THEN 0
  ELSE Max({0} \cup {i \in DOMAIN parts.head : IsSummary(parts.head[i])})

Previous(parts) ==
  IF PreviousSummary(parts) = 0 THEN {} ELSE parts.head[PreviousSummary(parts)].tells

\* Mutated: the summarizer is not shown the summary that is replaced.
FreshDigest(parts) == Numbers(parts.region) \cup Told(parts.region)
Digest(parts) == Numbers(parts.region) \cup Told(parts.region) \cup Previous(parts)

Summary(tells) == [Message("summary", 0) EXCEPT !.tells = tells]

\* Mutated: the messages that were to be kept go with the others.
KeepNothing(parts, tells) == parts.head \o <<Summary(tells)>> \o parts.tail
FoldedList(parts, tells) ==
  (IF PreviousSummary(parts) = 0 THEN parts.head
   ELSE RemoveAt(parts.head, PreviousSummary(parts)))
  \o Kept(parts) \o <<Summary(tells)>> \o parts.tail

(* compact goes on: there is something to fold, and it is worth it.        *)
Compacts(parts, force) ==
  /\ parts.ok /\ Folded(parts) # <<>>
  /\ force \/ WeightFrom(Folded(parts), 0) >= WorthFolding

\* What a summarizer that cannot be had, and one that can, tells.
Digests(parts) == {{}, Digest(parts)}

\* Mutated: only what has been summarized is archived.
ArchiveDigested(parts, tells) == IF tells = {} THEN {} ELSE Range(Folded(parts))
ArchiveFolded(parts, tells)   == Range(Folded(parts))

-----------------------------------------------------------------------------
(* Maintenance, and folds the user asks for.                               *)

(* SoftTrimLargeResults.                                                   *)
SoftTrimmed(region) ==
  [i \in DOMAIN region |-> IF IsTool(region[i]) /\ region[i].text = "huge"
                           THEN [region[i] EXCEPT !.text = "trimmed"] ELSE region[i]]

(* PruneStaleToolResults.                                                  *)
IsStale(m) == IsTool(m) /\ m.text \in {"long", "trimmed", "huge"}
Pruned(region) ==
  [i \in DOMAIN region |-> IF IsStale(region[i]) THEN [region[i] EXCEPT !.text = "elided"]
                           ELSE region[i]]

WithRegion(parts, region) == parts.head \o region \o parts.tail

\* Each pass plans anew; there is no region when there is nothing to fold.
TrimmedList(ms) == LET parts == Parts(ms) IN WithRegion(parts, SoftTrimmed(parts.region))
PrunedList(ms)  == LET parts == Parts(ms) IN WithRegion(parts, Pruned(parts.region))
Stale(ms) == {m \in Range(Parts(ms).region) : IsStale(m)}

(* maybeCompact with a prompt at the trigger or above: trim, prune, fold.  *)
(* The archive can be written or not; relief says that pruning alone has   *)
(* brought the prompt below the trigger.  A fold that is not worth it, or  *)
(* finds nothing, counts as one.                                           *)
Review(force, archives) ==
  LET trimmed == TrimmedList(list)
      prunes == Stale(trimmed) # {} /\ archives
      ms == IF prunes THEN PrunedList(trimmed) ELSE trimmed
      kept == IF prunes THEN archive \cup Stale(trimmed) ELSE archive
      parts == Parts(ms)
  IN
  \/ /\ \/ prunes /\ ~force                      \* relief
        \/ Compacts(parts, force) /\ ~archives    \* an error
     /\ list' = ms /\ archive' = kept
     /\ UNCHANGED <<latch, row>>
  \/ /\ Compacts(parts, force) => archives
     /\ latch' = [latch EXCEPT !.compacts = @ + 1, !.stuck = latch.compacts >= 1]
     /\ IF Compacts(parts, force)
        THEN \E tells \in Digests(parts) :
               /\ list' = FoldedList(parts, tells)
               /\ archive' = kept \cup ArchiveFolded(parts, tells)
               /\ row' = row + 1
        ELSE list' = ms /\ archive' = kept /\ UNCHANGED row

\* Mutated: a prompt between the marks releases the latch the first time.
ReleaseEarly(l) == [l EXCEPT !.noticed = TRUE, !.compacts = 0, !.stuck = FALSE]
NoticeOnce(l)   == [l EXCEPT !.noticed = TRUE]

(* A prompt below the trigger: between the soft mark and the trigger it is *)
(* noticed, once.                                                          *)
Relax(between) ==
  /\ UNCHANGED <<list, archive>>
  /\ IF between /\ ~latch.noticed
     THEN latch' = NoticeOnce(latch) /\ UNCHANGED row
     ELSE latch' = [compacts |-> 0, stuck |-> FALSE, noticed |-> FALSE] /\ row' = 0

MaybeCompact ==
  /\ phase = "review"
  /\ Goes(then, then)
  /\ \/ UNCHANGED <<list, foldVars>>   \* no usage is known, or the latch holds
     \/ \E between \in BOOLEAN : Relax(between)
     \/ ~latch.stuck /\ \E force, archives \in BOOLEAN : Review(force, archives)
  /\ UNCHANGED <<bounds, marks, diskVars, added, budget, past, clean>>

FoldAsked == budget.folds > 0 /\ budget' = [budget EXCEPT !.folds = @ - 1]

(* CompactNow, between turns.                                              *)
CompactNow ==
  /\ phase = "idle" /\ FoldAsked
  /\ LET parts == Parts(list)
     IN /\ Compacts(parts, TRUE)
        /\ \E tells \in Digests(parts) :
             /\ list' = FoldedList(parts, tells)
             /\ archive' = archive \cup ArchiveFolded(parts, tells)
  /\ UNCHANGED <<phase, then, latch, row, bounds, marks, diskVars, added, past, clean>>

\* The summary of a part of the conversation, in the words of a user message.
Recap(ms) == [Message("user", 0) EXCEPT !.tells = Numbers(ms) \cup Told(ms)]

Severs(ms, b) == b < Len(ms) /\ IsTool(ms[b + 1])

(* summarizeAt, whose archive may fail; on an error nothing changes.       *)
Summarized(ms, region) ==
  /\ phase = "idle" /\ FoldAsked
  /\ list' = ms
  /\ bounds' = {}
  /\ disk' = list'
  /\ \E archives \in BOOLEAN : archive' = IF archives THEN archive \cup Range(region) ELSE archive
  /\ past' = [past EXCEPT !.asked = NumbersOf(UserTurns(ms))]
  /\ diskPast' = past'
  /\ UNCHANGED <<phase, then, latch, row, marks, added>>

SummarizeFrom(b) ==
  /\ b \in bounds /\ b < Len(list)
  /\ LET region == SubSeq(list, b + 1, Len(list))
     IN Summarized(Append(SubSeq(list, 1, b), Recap(region)), region)
  /\ clean' = (clean /\ ~Severs(list, b))

SummarizeUpTo(b) ==
  /\ b \in bounds /\ 0 < b /\ b <= Len(list)
  /\ LET region == SubSeq(list, 1, b)
     IN Summarized(<<Recap(region)>> \o SubSeq(list, b + 1, Len(list)), region)
  /\ clean' = (clean /\ ~Severs(list, b))

-----------------------------------------------------------------------------
(* The file.                                                               *)

(* Session.Save: at the end of a turn, and at any moment of it.  Only the  *)
(* last save before a restart matters, so there is one for each.           *)
Save ==
  /\ budget.saves > 0
  /\ budget' = [budget EXCEPT !.saves = @ - 1]
  /\ disk' = list /\ diskPast' = past
  /\ UNCHANGED <<list, phase, then, foldVars, bounds, marks, added, past, clean>>

(* The process ends; LoadSession, and the boundaries of the checkpoints.   *)
Restart ==
  /\ budget.crashes > 0
  /\ budget' = [budget EXCEPT !.crashes = @ - 1, !.saves = Min({1, budget.crashes - 1})]
  /\ list' = Stored(disk) /\ past' = diskPast
  /\ Goes("idle", "idle")
  /\ latch' = [compacts |-> 0, stuck |-> FALSE, noticed |-> FALSE] /\ row' = 0
  /\ bounds' = marks
  /\ UNCHANGED <<archive, marks, diskVars, added, clean>>

TranscriptNext ==
  \/ \E text \in {"brief", "pasted"} : Ask(text)
  \/ Nudge \/ LeaveTurn
  \/ \E next \in {"idle", "step"} : Answer(next)
  \/ \E calls \in Batches : AskTools(calls)
  \/ \E text \in Sizes : AddResult(text)
  \/ MaybeCompact
  \/ CompactNow
  \/ \E b \in bounds : SummarizeFrom(b) \/ SummarizeUpTo(b)
  \/ Save \/ Restart

TranscriptSpec == TranscriptInit /\ [][TranscriptNext]_transcriptVars

-----------------------------------------------------------------------------
(* Properties.                                                             *)

Roles == {"user", "assistant", "tool", "summary"}
Texts == {"brief", "pasted", "short", "long", "huge", "trimmed", "elided"}
History == {list, disk}

(* The variables keep their types; the loop is only where it can be.       *)
TranscriptTypes ==
  /\ \A ms \in History : \A m \in Range(ms) :
       /\ m.role \in Roles /\ m.text \in Texts /\ m.n \in -MaxOld..MaxMessages
       /\ m.calls # <<>> => m.role = "assistant"
       /\ m.text \in {"long", "huge", "trimmed", "elided"} => IsTool(m)
  /\ phase \in {"idle", "step", "tools", "review"} /\ then \in {"idle", "step"}
  /\ phase = "tools" => \E i \in DOMAIN list : /\ Asks(list[i]) /\ RunEnd(list, i) = Len(list)
                                            /\ Len(list) - i < Len(list[i].calls)
  /\ bounds \subseteq marks /\ marks \subseteq Nat
  /\ row \in Nat /\ added \in 0..MaxMessages

(* Whatever the turns, the folds, the prunes and the ends of the process   *)
(* in mid-turn have made of the messages, and whatever file they began     *)
(* with, a request answers every tool call, in order, right after it, has  *)
(* no other tool message, no result twice and no arguments that were cut   *)
(* off (NormalizeMessages).                                                *)
WireContract ==
  LET sent == Wire(list)
  IN /\ Whole(sent)
     /\ \A i, j \in DOMAIN sent : sent[i].n = sent[j].n /\ sent[i].n # 0 => i = j
     /\ \A m \in Range(sent) : \A c \in Range(m.calls) : ~c.cut

(* The repair is a repair once and for all: a second one changes nothing,  *)
(* a history that needs none is left alone by either way through it, and   *)
(* what a load has repaired is sent as what was saved would be.            *)
RepairIsStable ==
  LET sent == Wire(disk)
      loaded == Stored(disk)
  IN /\ Wire(sent) = sent /\ Stored(loaded) = loaded
     /\ Wire(loaded) = sent
     /\ \A drop \in BOOLEAN : FastPath(disk, drop) => SlowPath(disk, drop) = disk

(* A load keeps every message of the file, in its order                    *)
(* (NormalizeSessionMessages).                                             *)
LoadKeepsAll ==
  LET real(ms) == NumbersOf(Only(ms, {m \in Range(ms) : m.n # 0}))
  IN real(Stored(disk)) = real(disk)

(* A repair mends what is broken, once, and drops nothing of a file.       *)
RepairIsSound == RepairIsStable /\ LoadKeepsAll

(* Between two steps of the loop the messages are sent as they are: no     *)
(* fold has parted a call from its results, and no save or end of the      *)
(* process in the middle of a batch of tools either, so that no result     *)
(* that is there is withheld and none is made up; unless the user has had  *)
(* a part summarized that begins or ends within a turn.                    *)
SentInFull ==
  clean /\ phase # "tools" => NumbersOf(Wire(list)) = NumbersOf(list)

(* What a message said is in the conversation, told by a summary that is   *)
(* in it, or in the archive, also when the summarizer or the archive       *)
(* fails.                                                                  *)
NothingLost ==
  past.owed \subseteq Numbers(list) \cup Told(list) \cup {m.n : m \in archive}

(* No fold but one the user asked for at a turn takes a short message of   *)
(* the user's, and they keep their order (partitionFold).                  *)
UserTurnsKept == NumbersOf(UserTurns(list)) = past.asked

(* What the summaries of the conversation tell, those that replace them    *)
(* tell, unless the model could not be asked for one.                      *)
SummariesGrow ==
  [][Restart \/ Told(list) \subseteq Told(list') \/ Summary({}) \in Range(list')]_transcriptVars

(* What was said outlives the folds: found again, in the user's words and  *)
(* in what the summaries tell.                                             *)
FoldsKeepAll == [](NothingLost /\ UserTurnsKept) /\ SummariesGrow

(* Maintenance that does not help stops: after two automatic folds there   *)
(* is none before the prompt has been below the trigger (compactStuck).    *)
FoldingStops == row <= 2

(* What a comment of pinnedPrefixLen says (internal/agent/compact.go:466): *)
(* "a later fold never re-summarizes an earlier summary into nothing".     *)
NoSummaryToNothing ==
  [][MaybeCompact => Told(list) \subseteq Told(list')]_transcriptVars

(* What a comment of compact says (internal/agent/compact.go:314): "the    *)
(* updated one replaces it".  The old one stays when a message of the user *)
(* stands between it and the first.                                        *)
OneSummary == Cardinality({i \in DOMAIN list : IsSummary(list[i])}) <= 1

(* What the comment of PruneStaleToolResults says                          *)
(* (internal/agent/prune.go:34): "archiving the originals first".  A       *)
(* result that the pass before has trimmed is archived trimmed.            *)
OriginalsArchived ==
  \A m \in Range(list) :
    m.text = "elided" => \E o \in archive : o.n = m.n /\ o.text \in {"long", "huge"}

(* What the comments of SummarizeFrom and SummarizeUpTo say                *)
(* (internal/agent/compact.go:356, 384): "the split never severs a         *)
(* tool_call/result pair".  A boundary recorded before a fold does.        *)
NeverSevered == [][clean => clean']_transcriptVars

=============================================================================
