------------------------ MODULE Checkpoints_proofs ------------------------
(***************************************************************************)
(* The conversation after rewinds, forks and restarts, for any number of   *)
(* files, turns, rewinds, folds and restarts.                              *)
(***************************************************************************)
EXTENDS Checkpoints, SequenceTheorems, FiniteSetTheorems, WellFoundedInduction, TLAPS

Messages == Seq(Contents)

Types ==
  /\ log \in Messages /\ saved \in Messages /\ begun \in Contents
  /\ startLog \in [Numbers -> Messages]
  /\ bound \in [Numbers -> Nat \cup {NoBound}]
  /\ disk = [t \in Numbers |-> disk[t]]
  /\ \A t \in Numbers : disk[t] # <<>> => disk[t][1].index \in Nat

(* While a turn runs, its checkpoint is the one on disk.                   *)
RunInv ==
  running =>
    /\ cur = <<cur[1]>> /\ DOMAIN cur[1] = {"turn", "index", "files"}
    /\ cur[1].turn \in Numbers /\ disk[cur[1].turn] = cur

(* L begins with the messages turn t began with, as its checkpoint says.   *)
Agrees(L, t) ==
  /\ disk[t][1].index <= Len(L) /\ Len(startLog[t]) = disk[t][1].index
  /\ \A i \in 1..disk[t][1].index : L[i] = startLog[t][i]

(* So do the messages; and the file that a restart reads, unless the turn  *)
(* began ahead of it.                                                      *)
TalkInv ==
  \A t \in Numbers \ stale :
    disk[t] # <<>> => Agrees(log, t) /\ (t \notin ahead => Agrees(saved, t))

(* A turn whose boundary is gone and that is not stale is the next one,    *)
(* and no turn after it has a boundary.                                    *)
GapInv ==
  \A t \in Numbers \ stale :
    disk[t] # <<>> /\ bound[t] = NoBound =>
      t = cpTurn /\ \A u \in Numbers : u >= t => bound[u] = NoBound

IInv == Types /\ RunInv /\ TalkInv /\ GapInv /\ BoundsSurvive

USE CheckpointBounds

LEMMA SameMessages ==
  ASSUME NEW s \in Messages, NEW u \in Messages, Len(s) = Len(u),
         \A i \in 1..Len(s) : s[i] = u[i]
  PROVE  s = u
BY DEF Messages

(* What SubSeq makes of a prefix.                                          *)
LEMMA PrefixOf ==
  ASSUME NEW L \in Messages, NEW b \in Nat, b <= Len(L)
  PROVE  /\ SubSeq(L, 1, b) \in Messages /\ Len(SubSeq(L, 1, b)) = b
         /\ \A i \in 1..b : SubSeq(L, 1, b)[i] = L[i]
BY DEF Messages

LEMMA PrefixIs ==
  ASSUME NEW s \in Messages, NEW u \in Messages, IsPrefix(s, u)
  PROVE  Len(s) <= Len(u) /\ \A i \in 1..Len(s) : u[i] = s[i]
<1>1. Len(s) \in Nat /\ Len(s) <= Len(u) /\ SubSeq(s, 1, Len(s)) = SubSeq(u, 1, Len(s))
  BY DEF IsPrefix, Messages
<1>2. \A i \in 1..Len(s) : SubSeq(s, 1, Len(s))[i] = s[i] /\ SubSeq(u, 1, Len(s))[i] = u[i]
  BY <1>1, PrefixOf
<1> QED
  BY <1>1, <1>2

LEMMA InitIInv == Init => IInv
<1> SUFFICES ASSUME Init PROVE IInv
  OBVIOUS
<1>1. Types
  BY DEF Init, Types, Messages, NoBound, Contents
<1> QED
  BY <1>1 DEF Init, IInv, RunInv, TalkInv, GapInv, BoundsSurvive

-----------------------------------------------------------------------------
(* Turns.                                                                  *)

(* A checkpoint is opened; the message of the user follows, or does not.   *)
LEMMA BeginStep ==
  ASSUME IInv, BeginCheckpoint, log' = Append(log, begun') \/ log' = log
  PROVE  IInv'
<1>0. Types /\ TalkInv /\ GapInv /\ BoundsSurvive /\ ~running /\ cpTurn \in Numbers
  BY DEF IInv, BeginCheckpoint
<1>. DEFINE cp == [turn |-> cpTurn, index |-> Len(log), files |-> [f \in Files |-> Untouched]]
<1>1. /\ cur' = <<cp>> /\ cur'[1] = cp /\ saved' = saved
      /\ begun' = begun + 1 /\ cpTurn' = cpTurn + 1
      /\ bound' = [bound EXCEPT ![cpTurn] = Len(log)]
      /\ disk' = [disk EXCEPT ![cpTurn] = cur']
      /\ startLog' = [startLog EXCEPT ![cpTurn] = log]
      /\ stale' = stale \ {cpTurn}
      /\ cpTurn \in ahead' \/ IsPrefix(log, saved)
      /\ \A t \in Numbers \ {cpTurn} : t \in ahead' <=> t \in ahead
  BY DEF BeginCheckpoint, Opened, Persist
<1>2. /\ DOMAIN cp = {"turn", "index", "files"} /\ cp.turn = cpTurn /\ cp.index = Len(log)
      /\ cp.index \in Nat
  BY <1>0 DEF Types, Messages
<1> HIDE DEF cp
<1>3. /\ disk'[cpTurn] = cur' /\ disk'[cpTurn] # <<>> /\ disk'[cpTurn][1] = cp
      /\ bound'[cpTurn] = Len(log) /\ startLog'[cpTurn] = log
      /\ \A t \in Numbers \ {cpTurn} :
           disk'[t] = disk[t] /\ bound'[t] = bound[t] /\ startLog'[t] = startLog[t]
  BY <1>0, <1>1 DEF Types
<1>4. /\ log' \in Messages /\ Len(log) <= Len(log') /\ Len(log) \in Nat /\ Len(log') \in Nat
      /\ \A i \in 1..Len(log) : log'[i] = log[i]
  <2>1. begun' \in Contents
    BY <1>0, <1>1 DEF Types, Contents, BeginCheckpoint
  <2>2. log \in Messages /\ Len(log) \in Nat
    BY <1>0 DEF Types, Messages
  <2>3. CASE log' = Append(log, begun')
    BY <2>1, <2>2, <2>3 DEF Messages
  <2> QED
    BY <2>2, <2>3
<1>5. Types'
  <2>1. begun' \in Contents /\ saved' \in Messages
    BY <1>0, <1>1 DEF Types, Contents, BeginCheckpoint
  <2>2. startLog' \in [Numbers -> Messages] /\ bound' \in [Numbers -> Nat \cup {NoBound}]
    BY <1>0, <1>1, <1>4 DEF Types
  <2>3. disk' = [t \in Numbers |-> disk'[t]]
    BY <1>0, <1>1 DEF Types
  <2>4. \A t \in Numbers : disk'[t] # <<>> => disk'[t][1].index \in Nat
    BY <1>0, <1>2, <1>3 DEF Types
  <2> QED
    BY <1>4, <2>1, <2>2, <2>3, <2>4 DEF Types
<1>6. RunInv'
  BY <1>0, <1>1, <1>2, <1>3 DEF RunInv
<1>7. IsPrefix(log, saved) => Len(log) <= Len(saved) /\ \A i \in 1..Len(log) : saved[i] = log[i]
  BY <1>0, PrefixIs DEF Types
<1>8. TalkInv'
  <2> SUFFICES ASSUME NEW t \in Numbers \ stale', disk'[t] # <<>>
               PROVE  Agrees(log, t)' /\ (t \notin ahead' => Agrees(saved, t)')
    BY DEF TalkInv
  <2>1. CASE t = cpTurn
    BY <1>1, <1>2, <1>3, <1>4, <1>7, <2>1 DEF Agrees
  <2>2. CASE t # cpTurn
    <3>1. Agrees(log, t) /\ (t \notin ahead => Agrees(saved, t)) /\ disk[t][1].index \in Nat
      BY <1>0, <1>1, <1>3, <2>2 DEF TalkInv, Types
    <3>2. disk'[t] = disk[t] /\ startLog'[t] = startLog[t] /\ (t \in ahead' <=> t \in ahead)
      BY <1>1, <1>3, <2>2
    <3>3. Agrees(log, t)'
      BY <1>4, <3>1, <3>2 DEF Agrees
    <3>4. t \notin ahead' => Agrees(saved, t)'
      BY <1>1, <3>1, <3>2 DEF Agrees
    <3> QED
      BY <3>3, <3>4
  <2> QED
    BY <2>1, <2>2
<1>9. GapInv'
  <2> SUFFICES ASSUME NEW t \in Numbers \ stale', disk'[t] # <<>>, bound'[t] = NoBound
               PROVE  FALSE
    BY DEF GapInv
  <2>1. t # cpTurn
    BY <1>3, <1>4 DEF NoBound
  <2> QED
    BY <1>0, <1>1, <1>3, <2>1 DEF GapInv
<1>10. BoundsSurvive'
  BY <1>0, <1>2, <1>3 DEF BoundsSurvive
<1> QED
  BY <1>5, <1>6, <1>8, <1>9, <1>10 DEF IInv

LEMMA TurnBeginStep == ASSUME IInv, TurnBegin PROVE IInv'
BY BeginStep DEF TurnBegin

LEMMA TurnBlockedStep == ASSUME IInv, TurnBlocked PROVE IInv'
BY BeginStep DEF TurnBlocked

LEMMA EditStep == ASSUME IInv, NEW f \in Files, Edit(f) PROVE IInv'
<1>0. Types /\ RunInv /\ TalkInv /\ GapInv /\ BoundsSurvive /\ running
  BY DEF IInv, Edit
<1>. DEFINE k == cur[1].turn
<1>1. /\ disk' = [disk EXCEPT ![k] = cur'] /\ k \in Numbers /\ disk[k] = cur
      /\ UNCHANGED <<log, running, cpTurn, bound, saved, begun, startLog, stale, ahead>>
  BY <1>0 DEF Edit, Persist, RunInv, pastVars
<1>2. /\ cur' = <<cur'[1]>> /\ DOMAIN cur'[1] = {"turn", "index", "files"}
      /\ cur'[1].turn = k /\ cur'[1].index = cur[1].index
  <2>1. CASE FirstTouch(f)
    <3>1. cur' = <<[cur[1] EXCEPT !.files[f] = fs[f]]>>
      BY <2>1 DEF Edit
    <3>2. cur'[1] = [cur[1] EXCEPT !.files[f] = fs[f]]
      BY <3>1
    <3> QED
      BY <1>0, <3>1, <3>2 DEF RunInv
  <2>2. CASE ~FirstTouch(f)
    <3>1. cur' = cur
      BY <2>2 DEF Edit
    <3> QED
      BY <1>0, <3>1 DEF RunInv
  <2> QED
    BY <2>1, <2>2
<1>3. \A t \in Numbers : /\ disk'[t] # <<>> <=> disk[t] # <<>>
                         /\ disk[t] # <<>> => disk'[t][1].index = disk[t][1].index
  <2>1. disk'[k] = cur' /\ cur # <<>> /\ cur' # <<>> /\ disk[k][1] = cur[1]
    BY <1>0, <1>1, <1>2 DEF Types, RunInv
  <2> QED
    BY <1>0, <1>1, <1>2, <2>1 DEF Types
<1>4. Types'
  <2>1. disk' = [t \in Numbers |-> disk'[t]]
    BY <1>0, <1>1 DEF Types
  <2> QED
    BY <1>0, <1>1, <1>3, <2>1 DEF Types
<1>5. RunInv'
  BY <1>0, <1>1, <1>2 DEF RunInv, Types
<1>6. TalkInv'
  BY <1>0, <1>1, <1>3 DEF TalkInv, Agrees
<1>7. GapInv' /\ BoundsSurvive'
  BY <1>0, <1>1, <1>3 DEF GapInv, BoundsSurvive
<1> QED
  BY <1>4, <1>5, <1>6, <1>7 DEF IInv

(* A turn ends; the messages are saved, or the file stays as it is.        *)
LEMMA TurnEndStep == ASSUME IInv, TurnEnd PROVE IInv'
<1>0. Types /\ TalkInv /\ GapInv /\ BoundsSurvive
  BY DEF IInv
<1>1. /\ running' = FALSE /\ (log' = Append(log, begun) \/ log' = log)
      /\ (saved' = log' /\ ahead' = {}) \/ UNCHANGED <<saved, ahead>>
      /\ UNCHANGED <<cpTurn, bound, disk, begun, startLog, stale>>
  BY DEF TurnEnd, storeVars, pastVars
<1>2. /\ log' \in Messages /\ Len(log) <= Len(log') /\ Len(log) \in Nat /\ Len(log') \in Nat
      /\ \A i \in 1..Len(log) : log'[i] = log[i]
  <2>1. log \in Messages /\ begun \in Contents /\ Len(log) \in Nat
    BY <1>0 DEF Types, Messages
  <2>2. CASE log' = Append(log, begun)
    BY <2>1, <2>2 DEF Messages
  <2> QED
    BY <1>1, <2>1, <2>2
<1>3. Types'
  BY <1>0, <1>1, <1>2 DEF Types
<1>4. RunInv'
  BY <1>1 DEF RunInv
<1>5. TalkInv'
  <2> SUFFICES ASSUME NEW t \in Numbers \ stale, disk[t] # <<>>
               PROVE  Agrees(log, t)' /\ (t \notin ahead' => Agrees(saved, t)')
    BY <1>1 DEF TalkInv
  <2>1. Agrees(log, t) /\ (t \notin ahead => Agrees(saved, t)) /\ disk[t][1].index \in Nat
    BY <1>0 DEF TalkInv, Types
  <2>2. Agrees(log, t)'
    BY <1>1, <1>2, <2>1 DEF Agrees
  <2> QED
    BY <1>1, <2>1, <2>2 DEF Agrees
<1>6. GapInv' /\ BoundsSurvive'
  BY <1>0, <1>1 DEF GapInv, BoundsSurvive
<1> QED
  BY <1>3, <1>4, <1>5, <1>6 DEF IInv

LEMMA SaveStep == ASSUME IInv, Save PROVE IInv'
<1>1. /\ saved' = log /\ ahead' = {}
      /\ UNCHANGED <<log, running, cpTurn, bound, cur, disk, begun, startLog, stale>>
  BY DEF Save, storeVars, pastVars
<1>2. TalkInv'
  BY <1>1 DEF IInv, TalkInv, Agrees
<1> QED
  BY <1>1, <1>2 DEF IInv, Types, RunInv, GapInv, BoundsSurvive

-----------------------------------------------------------------------------
(* What restructures the conversation makes every boundary stale.          *)

LEMMA AllStale ==
  ASSUME IInv, stale' = stale \cup Known, disk' = disk
  PROVE  TalkInv' /\ GapInv'
BY DEF TalkInv, GapInv, Known, Kept

LEMMA FoldStep == ASSUME IInv, Fold PROVE IInv'
<1>0. Types /\ RunInv /\ BoundsSurvive
  BY DEF IInv
<1>1. /\ saved' = saved \/ saved' = log'
      /\ stale' = stale \cup Known
      /\ UNCHANGED <<running, cpTurn, bound, done, cur, disk, begun, startLog>>
  BY DEF Fold, storeVars, pastVars
<1>2. log' \in Messages
  <2>1. PICK k \in 2..(Len(log) - 1) : log' = <<Summary>> \o SubSeq(log, k + 1, Len(log))
    BY DEF Fold
  <2>2. SubSeq(log, k + 1, Len(log)) \in Messages
    <3>1. Len(log) \in Nat /\ \A i \in (k + 1)..Len(log) : log[i] \in Contents
      BY <1>0 DEF Types, Messages
    <3> QED
      BY <3>1, SubSeqProperties DEF Messages
  <2>3. <<Summary>> \in Messages
    BY DEF Messages, Summary, Contents
  <2> QED
    BY <2>1, <2>2, <2>3 DEF Messages
<1>3. Types'
  BY <1>0, <1>1, <1>2 DEF Types
<1>4. RunInv' /\ BoundsSurvive'
  BY <1>0, <1>1, <1>2 DEF RunInv, BoundsSurvive
<1> QED
  BY <1>1, <1>3, <1>4, AllStale DEF IInv

LEMMA SummarizeStep == ASSUME IInv, NEW t \in Numbers, Summarize(t) PROVE IInv'
<1>0. Types /\ BoundsSurvive /\ bound[t] \in Nat
  BY DEF IInv, Types, Summarize
<1>1. /\ log' \in {SummarizedFrom(bound[t]), SummarizedUpTo(bound[t])} /\ ~running
      /\ bound' = DropBounds /\ (saved' = saved \/ saved' = log') /\ stale' = stale \cup Known
      /\ UNCHANGED <<running, cpTurn, done, cur, disk, begun, startLog>>
  BY DEF Summarize, SaveAfter, storeVars, pastVars
<1>2. log' \in Messages
  <2>1. SummarizedFrom(bound[t]) \in Messages
    <3>1. Summary \in Contents
      BY DEF Summary, Contents
    <3>2. bound[t] < Len(log) => SubSeq(log, 1, bound[t]) \in Messages
      BY <1>0, PrefixOf DEF Types, Messages
    <3> QED
      BY <1>0, <3>1, <3>2 DEF SummarizedFrom, Types, Messages
  <2>2. SummarizedUpTo(bound[t]) \in Messages
    <3>1. bound[t] <= Len(log) => SubSeq(log, bound[t] + 1, Len(log)) \in Messages
      BY <1>0 DEF Types, Messages
    <3>2. <<Summary>> \in Messages
      BY DEF Messages, Summary, Contents
    <3> QED
      BY <1>0, <3>1, <3>2 DEF SummarizedUpTo, Types, Messages
  <2> QED
    BY <1>1, <2>1, <2>2
<1>3. Types'
  BY <1>0, <1>1, <1>2 DEF Types, DropBounds
<1>4. RunInv' /\ BoundsSurvive'
  BY <1>1, <1>2 DEF RunInv, BoundsSurvive, DropBounds
<1> QED
  BY <1>1, <1>3, <1>4, AllStale DEF IInv

-----------------------------------------------------------------------------
(* Rewinds and restarts.                                                   *)

LEMMA TruncateStep ==
  ASSUME IInv, NEW t \in Numbers, MayTruncate(t), Truncate(t), ~running,
         UNCHANGED <<running, storeVars, begun, pastVars>>
  PROVE  IInv'
<1>0. Types /\ TalkInv /\ GapInv /\ BoundsSurvive
  BY DEF IInv
<1>1. bound[t] \in Nat /\ bound[t] <= Len(log) /\ disk[t] # <<>> /\ disk[t][1].index = bound[t]
  BY <1>0 DEF MayTruncate, Types, BoundsSurvive
<1>2. /\ log' = SubSeq(log, 1, bound[t]) /\ cpTurn' = t /\ running' = FALSE
      /\ bound' = [u \in Numbers |-> IF u >= t THEN NoBound ELSE bound[u]]
      /\ (saved' = log' /\ ahead' = {}) \/ UNCHANGED <<saved, ahead>>
      /\ stale' = stale \cup {u \in Known : u > t \/ bound[u] > bound[t]}
      /\ disk' = disk /\ begun' = begun /\ startLog' = startLog
  BY DEF Truncate, Truncated, SaveAfter, storeVars, pastVars
<1>3. log' \in Messages /\ Len(log') = bound[t] /\ \A i \in 1..bound[t] : log'[i] = log[i]
  BY <1>0, <1>1, <1>2, PrefixOf DEF Types
<1>4. Types'
  BY <1>0, <1>2, <1>3 DEF Types
<1>5. RunInv'
  BY <1>2 DEF RunInv
<1>6. TalkInv'
  <2> SUFFICES ASSUME NEW u \in Numbers \ stale', disk[u] # <<>>
               PROVE  Agrees(log, u)' /\ (u \notin ahead' => Agrees(saved, u)')
    BY <1>2 DEF TalkInv
  <2>1. u \in Known /\ u \notin stale /\ ~(u > t) /\ ~(bound[u] > bound[t])
    BY <1>2 DEF Known, Kept
  <2>2. Agrees(log, u) /\ (u \notin ahead => Agrees(saved, u)) /\ disk[u][1].index \in Nat
    BY <1>0, <2>1 DEF TalkInv, Types
  <2>3. disk[u][1].index <= bound[t]
    <3>1. CASE bound[u] # NoBound
      BY <1>0, <1>1, <2>1, <3>1 DEF BoundsSurvive, Types
    <3>2. CASE bound[u] = NoBound
      <4>1. t < u
        BY <1>0, <1>1, <2>1, <3>2 DEF GapInv, NoBound, Numbers
      <4> QED
        BY <2>1, <4>1
    <3> QED
      BY <3>1, <3>2
  <2>4. Agrees(log, u)'
    BY <1>1, <1>2, <1>3, <2>2, <2>3 DEF Agrees
  <2>5. u \notin ahead' => Agrees(saved, u)'
    BY <1>2, <2>2, <2>4 DEF Agrees
  <2> QED
    BY <2>4, <2>5
<1>7. GapInv'
  <2> SUFFICES ASSUME NEW u \in Numbers \ stale', disk[u] # <<>>, bound'[u] = NoBound
               PROVE  u = t /\ \A v \in Numbers : v >= u => bound'[v] = NoBound
    BY <1>2 DEF GapInv
  <2>1. u \in Known /\ u \notin stale /\ ~(u > t)
    BY <1>2 DEF Known, Kept
  <2>2. u >= t
    <3>1. SUFFICES ASSUME ~(u >= t) PROVE FALSE
      OBVIOUS
    <3>2. bound[u] = NoBound
      BY <1>2, <3>1
    <3>3. t >= u
      BY <3>1 DEF Numbers
    <3> QED
      BY <1>0, <1>1, <2>1, <3>2, <3>3 DEF GapInv, NoBound
  <2>3. u = t
    BY <2>1, <2>2 DEF Numbers
  <2> QED
    BY <1>2, <2>3
<1>8. BoundsSurvive'
  BY <1>0, <1>2 DEF BoundsSurvive
<1> QED
  BY <1>4, <1>5, <1>6, <1>7, <1>8 DEF IInv

LEMMA RewindStep ==
  ASSUME IInv, NEW t \in Numbers, NEW scope, NEW bad, Rewind(t, scope, bad) PROVE IInv'
<1>1. /\ ~running /\ UNCHANGED <<running, storeVars, begun, pastVars>>
      /\ \/ MayTruncate(t) /\ Truncate(t)
         \/ UNCHANGED <<log, cpTurn, bound, saved, stale, ahead>>
  BY DEF Rewind
<1>2. CASE MayTruncate(t) /\ Truncate(t)
  BY <1>1, <1>2, TruncateStep
<1>3. CASE UNCHANGED <<log, cpTurn, bound, saved, stale, ahead>>
  BY <1>1, <1>3 DEF IInv, Types, RunInv, TalkInv, Agrees, GapInv, BoundsSurvive, storeVars, pastVars
<1> QED
  BY <1>1, <1>2, <1>3

LEMMA RestartStep == ASSUME IInv, Restart PROVE IInv'
<1>0. Types /\ TalkInv
  BY DEF IInv
<1>1. /\ running' = FALSE /\ log' = saved /\ saved' = saved
      /\ stale' = stale \cup ahead /\ ahead' = {}
      /\ bound' = [t \in Numbers |-> IF disk[t] = <<>> THEN NoBound ELSE disk[t][1].index]
      /\ UNCHANGED <<disk, begun, startLog>>
  BY DEF Restart, pastVars
<1>2. \A t \in Numbers : disk[t] # <<>> => disk[t][1].index \in Nat /\ disk[t][1].index # NoBound
  BY <1>0 DEF Types, NoBound
<1>3. Types'
  BY <1>0, <1>1, <1>2 DEF Types
<1>4. RunInv'
  BY <1>1 DEF RunInv
<1>5. TalkInv'
  BY <1>0, <1>1 DEF TalkInv, Agrees
<1>6. GapInv' /\ BoundsSurvive'
  BY <1>1, <1>2 DEF GapInv, BoundsSurvive
<1> QED
  BY <1>3, <1>4, <1>5, <1>6 DEF IInv

-----------------------------------------------------------------------------

(* IInv is an inductive invariant.                                         *)
THEOREM Inductive == Spec => []IInv
<1>1. IInv /\ [Next]_vars => IInv'
  <2> SUFFICES ASSUME IInv, [Next]_vars PROVE IInv'
    OBVIOUS
  <2>1. CASE Next
    BY <2>1, TurnBeginStep, TurnBlockedStep, EditStep, TurnEndStep, SaveStep, FoldStep, SummarizeStep, RewindStep, RestartStep DEF Next
  <2>2. CASE UNCHANGED vars
    BY <2>2 DEF vars, storeVars, pastVars, IInv, Types, RunInv, TalkInv, Agrees, GapInv, BoundsSurvive
  <2> QED
    BY <2>1, <2>2
<1> QED
  BY InitIInv, <1>1, PTL DEF Spec

(* A rewind of the conversation, and a fork, leave exactly the messages    *)
(* the turn began with, but for the boundaries that are stale: what folds, *)
(* summaries and rewinds moved, and what a restart brought back with an    *)
(* older conversation than the turn began with.                            *)
THEOREM TalkComesBack == Spec => []TalkIsRestored
<1>1. IInv => TalkIsRestored
  <2> SUFFICES ASSUME IInv, NEW t \in Numbers \ stale, bound[t] # NoBound
               PROVE  MayTruncate(t) /\ Truncated(t) = startLog[t] /\ Forked(t) = startLog[t]
    BY DEF TalkIsRestored, LogIsRestored, ForkIsExact
  <2>1. /\ log \in Messages /\ startLog[t] \in Messages /\ bound[t] \in Nat
        /\ disk[t] # <<>> /\ disk[t][1].index = bound[t]
    BY DEF IInv, Types, BoundsSurvive
  <2>2. /\ bound[t] <= Len(log) /\ Len(startLog[t]) = bound[t]
        /\ \A i \in 1..bound[t] : log[i] = startLog[t][i]
    BY <2>1 DEF IInv, TalkInv, Agrees
  <2>3. SubSeq(log, 1, bound[t]) = startLog[t]
    <3>. DEFINE s == SubSeq(log, 1, bound[t])
    <3>1. s \in Messages /\ Len(s) = bound[t] /\ \A i \in 1..bound[t] : s[i] = log[i]
      BY <2>1, <2>2, PrefixOf
    <3>2. Len(s) = Len(startLog[t]) /\ \A i \in 1..Len(s) : s[i] = startLog[t][i]
      BY <2>2, <3>1
    <3> HIDE DEF s
    <3>3. s = startLog[t]
      BY <2>1, <3>1, <3>2, SameMessages
    <3> QED
      BY <3>3 DEF s
  <2>4. ~(bound[t] > Len(log))
    BY <2>1, <2>2 DEF Messages
  <2> QED
    BY <2>2, <2>3, <2>4 DEF MayTruncate, Truncated, Forked
<1> QED
  BY Inductive, <1>1, PTL

(* The boundaries the controller keeps are those a restart finds.          *)
THEOREM BoundsComeBack == Spec => []BoundsSurvive
<1>1. IInv => BoundsSurvive
  BY DEF IInv
<1> QED
  BY Inductive, <1>1, PTL
-----------------------------------------------------------------------------
(* The files.  What was snapshotted, by file: the numbers of the turns.    *)

Touched(S) == [f \in Files |-> {c.turn : c \in {d \in S : d.files[f] # Untouched}}]

Memory == {done[i] : i \in DOMAIN done} \cup {cur[i] : i \in DOMAIN cur}
Stored == {disk[t][1] : t \in Kept}

Firm == Kept \ soiled            \* what a rewind restores,
Safe == Kept \ (soiled \cup lost)  \* and what it still restores after a restart

(* The numbers K began with the files s, and the workspace is w: a file    *)
(* that no turn from t on to u touched is at the start of u, or now, what  *)
(* it was at the start of t.                                               *)
Steady(T, F, K, s, w) ==
  \A t \in F, f \in Files :
    /\ \A u \in K : u >= t /\ (\A v \in t..(u - 1) : v \notin T[f]) => s[u][f] = s[t][f]
    /\ (\A v \in Numbers : v >= t => v \notin T[f]) => w[f] = s[t][f]

FileTypes ==
  /\ fs \in [Files -> Contents] /\ startFs \in [Numbers -> [Files -> Contents]]
  /\ running \in BOOLEAN /\ cpTurn \in 0..MaxTurns /\ begun \in Contents
  /\ done \in Seq(Checkpoint) /\ cur \in Seq(Checkpoint) /\ Len(cur) <= 1
  /\ disk \in [Numbers -> Seq(Checkpoint)]
  /\ soiled \subseteq Numbers /\ lost \subseteq Numbers /\ stale \cup ahead \subseteq Numbers

(* The numbers given are the first ones, each with one file; those from    *)
(* the next one on were gone back beyond.                                  *)
NumberInv ==
  /\ {c.turn : c \in Memory} = Kept
  /\ \E n \in 0..MaxTurns : Kept = 0..(n - 1) /\ cpTurn <= n
  /\ \A t \in Kept : disk[t] = <<disk[t][1]>> /\ disk[t][1].turn = t /\ disk[t][1] \in Memory
  /\ \A t \in Firm : t <= cpTurn /\ (running => t < cpTurn)

(* A file the running turn has not touched is as it was when it began.     *)
HereInv ==
  running =>
    /\ cur = <<cur[1]>> /\ cpTurn - 1 \in Kept
    /\ cur[1].turn = cpTurn - 1 /\ disk[cpTurn - 1] = cur
    /\ \A f \in Files : cur[1].files[f] = Untouched => fs[f] = startFs[cpTurn - 1][f]

(* A snapshot is what its turn began with.                                 *)
SnapInv ==
  \A c \in Memory, t \in Firm, f \in Files :
    t <= c.turn /\ c.files[f] # Untouched => c.files[f] = startFs[c.turn][f]

MemInv  == Steady(Touched(Memory), Firm, Kept, startFs, fs)
DiskInv == Steady(Touched(Stored), Safe, Kept, startFs, fs)

FilesInv == FileTypes /\ NumberInv /\ HereInv /\ SnapInv /\ MemInv /\ DiskInv

LEMMA LeastNumber ==
  ASSUME NEW S, S \subseteq Nat, S # {} PROVE \E n \in S : \A m \in S : n <= m
<1>1. PICK n \in S : \A m \in S : ~(<<m, n>> \in OpToRel(<, Nat))
  BY NatLessThanWellFounded, WFMin
<1>2. ASSUME NEW m \in S PROVE n <= m
  <2>1. m \in Nat /\ n \in Nat
    OBVIOUS
  <2>2. m < n => <<m, n>> \in OpToRel(<, Nat)
    BY <2>1 DEF OpToRel
  <2>3. ~(<<m, n>> \in OpToRel(<, Nat))
    BY <1>1
  <2>4. ~(m < n)
    BY <2>2, <2>3, Zenon
  <2> QED
    BY <2>1, <2>4
<1> QED
  BY <1>2

(* RestoreCode finds a snapshot of the lowest number.                      *)
LEMMA EarliestIs ==
  ASSUME NEW cps \in Seq(Checkpoint), NEW f \in Files, NEW t \in Numbers,
         Touching(cps, f, t) # {}
  PROVE  /\ Earliest(cps, f, t) \in Touching(cps, f, t)
         /\ \A j \in Touching(cps, f, t) : cps[Earliest(cps, f, t)].turn <= cps[j].turn
<1>. DEFINE S == Touching(cps, f, t)
            V == {cps[i].turn : i \in S}
<1>0. DOMAIN cps = 1..Len(cps) /\ \A i \in DOMAIN cps : cps[i] \in Checkpoint
  OBVIOUS
<1>1. S \subseteq Nat /\ \A i \in S : cps[i].turn \in Nat /\ i \in Nat
  BY SMTT(20), <1>0 DEF Touching, Checkpoint, Numbers
<1>2. PICK v \in V : \A m \in V : v <= m
  <2>1. V \subseteq Nat /\ V # {}
    BY <1>1
  <2> HIDE DEF V
  <2> QED
    BY <2>1, LeastNumber
<1>. DEFINE W == {i \in S : cps[i].turn = v}
<1>3. PICK i \in W : \A j \in W : i <= j
  <2>1. W \subseteq Nat /\ W # {}
    BY <1>1
  <2> HIDE DEF W
  <2> QED
    BY <2>1, LeastNumber
<1>4. i \in S /\ cps[i].turn = v /\ v \in Nat /\ i \in Nat
  BY <1>1, <1>3
<1>5. ASSUME NEW j \in S PROVE Before(cps, i, j)
  <2>1. cps[j].turn \in Nat /\ v <= cps[j].turn /\ j \in Nat
    BY <1>1, <1>2
  <2>2. cps[j].turn = v => i <= j
    BY <1>3
  <2> QED
    BY <1>4, <2>1, <2>2 DEF Before
<1>6. Earliest(cps, f, t) \in S /\ \A j \in S : Before(cps, Earliest(cps, f, t), j)
  <2> HIDE DEF S
  <2> QED
    BY <1>4, <1>5 DEF Earliest, S
<1>7. ASSUME NEW j \in S PROVE cps[Earliest(cps, f, t)].turn <= cps[j].turn
  <2>1. Before(cps, Earliest(cps, f, t), j) /\ cps[j].turn \in Nat
        /\ cps[Earliest(cps, f, t)].turn \in Nat
    BY <1>1, <1>6
  <2> QED
    BY <2>1 DEF Before
<1> QED
  BY <1>6, <1>7

(* What a snapshot touches stays touched; only what the running turn       *)
(* touches changes.                                                        *)
LEMMA SteadyEdit ==
  ASSUME NEW T, NEW T2, NEW F, NEW K, NEW s, NEW w, NEW w2, NEW c \in Numbers, NEW f \in Files,
         Steady(T, F, K, s, w), F \subseteq Numbers, K \subseteq Numbers,
         \A t \in F : t <= c,
         \A g \in Files : T[g] \subseteq T2[g] /\ (g # f => w2[g] = w[g]),
         c \in T2[f]
  PROVE  Steady(T2, F, K, s, w2)
<1> SUFFICES ASSUME NEW t \in F, NEW g \in Files
             PROVE  /\ \A u \in K : u >= t /\ (\A v \in t..(u - 1) : v \notin T2[g]) => s[u][g] = s[t][g]
                    /\ (\A v \in Numbers : v >= t => v \notin T2[g]) => w2[g] = s[t][g]
  BY DEF Steady
<1>1. /\ \A u \in K : u >= t /\ (\A v \in t..(u - 1) : v \notin T[g]) => s[u][g] = s[t][g]
      /\ (\A v \in Numbers : v >= t => v \notin T[g]) => w[g] = s[t][g]
  BY DEF Steady
<1>2. T[g] \subseteq T2[g]
  OBVIOUS
<1>3. \A u \in K : u >= t /\ (\A v \in t..(u - 1) : v \notin T2[g]) => s[u][g] = s[t][g]
  BY <1>1, <1>2
<1>4. ASSUME \A v \in Numbers : v >= t => v \notin T2[g] PROVE w2[g] = s[t][g]
  <2>1. c >= t
    BY DEF Numbers
  <2>2. g # f
    BY <1>4, <2>1
  <2>3. w2[g] = w[g]
    BY <2>2
  <2> QED
    BY <1>1, <1>2, <1>4, <2>3
<1> QED
  BY <1>3, <1>4

(* A number is given for the first time.                                   *)
GivenFirst(T, T2, F, F2, K, K2, s, s2, w, n) ==
  /\ Steady(T, F, K, s, w) /\ n \in Numbers /\ F \subseteq K /\ K = 0..(n - 1) /\ K2 = 0..n
  /\ F2 \subseteq F \cup {n} /\ \A g \in Files : T[g] \subseteq K /\ T2[g] = T[g]
  /\ s2[n] = w /\ \A u \in K : s2[u] = s[u]

LEMMA SteadyNew ==
  ASSUME NEW T, NEW T2, NEW F, NEW F2, NEW K, NEW K2, NEW s, NEW s2, NEW w, NEW n,
         GivenFirst(T, T2, F, F2, K, K2, s, s2, w, n)
  PROVE  Steady(T2, F2, K2, s2, w)
<1> USE DEF GivenFirst
<1> SUFFICES ASSUME NEW t \in F2, NEW f \in Files
             PROVE  /\ \A u \in K2 : u >= t /\ (\A v \in t..(u - 1) : v \notin T[f]) => s2[u][f] = s2[t][f]
                    /\ (\A v \in Numbers : v >= t => v \notin T[f]) => w[f] = s2[t][f]
  BY DEF Steady
<1>1. CASE t = n
  BY <1>1 DEF Numbers
<1>2. CASE t # n
  <2>1. t \in F /\ t \in K /\ t < n /\ s2[t] = s[t]
    <3>1. t \in F /\ t \in K
      BY <1>2
    <3> QED
      BY <3>1 DEF Numbers
  <2>2. (\A v \in Numbers : v >= t => v \notin T[f]) => w[f] = s[t][f]
    BY <2>1 DEF Steady
  <2>3. ASSUME NEW u \in K2, u >= t, \A v \in t..(u - 1) : v \notin T[f]
        PROVE  s2[u][f] = s[t][f]
    <3>1. CASE u = n
      <4>1. \A v \in Numbers : v >= t => v \notin T[f]
        BY <2>1, <2>3, <3>1 DEF Numbers
      <4> QED
        BY <2>2, <3>1, <4>1
    <3>2. CASE u # n
      <4>1. u \in K
        BY <3>2 DEF Numbers
      <4> QED
        BY <2>1, <2>3, <4>1 DEF Steady
    <3> QED
      BY <3>1, <3>2
  <2> QED
    BY <2>1, <2>2, <2>3
<1> QED
  BY <1>1, <1>2

(* A number is given again: to a turn that begins with the same files, or  *)
(* nothing is claimed any more of the numbers up to it.                    *)
GivenAgain(T, T2, F, F2, K, s, s2, w, n) ==
  /\ Steady(T, F, K, s, w) /\ n \in K /\ F \subseteq K /\ K \subseteq Numbers /\ F2 \subseteq F
  /\ \A g \in Files : T[g] \ {n} \subseteq T2[g] /\ T2[g] \subseteq T[g]
  /\ s2[n] = w /\ \A u \in K : u # n => s2[u] = s[u]
  /\ w = s[n] \/ \A t \in F2 : t > n
  /\ T2 = T \/ (\A u \in K : u <= n) \/ \A t \in F2 : t > n

LEMMA SteadyAgain ==
  ASSUME NEW T, NEW T2, NEW F, NEW F2, NEW K, NEW s, NEW s2, NEW w, NEW n,
         GivenAgain(T, T2, F, F2, K, s, s2, w, n)
  PROVE  Steady(T2, F2, K, s2, w)
<1> USE DEF GivenAgain
<1> SUFFICES ASSUME NEW t \in F2, NEW f \in Files
             PROVE  /\ \A u \in K : u >= t /\ (\A v \in t..(u - 1) : v \notin T2[f]) => s2[u][f] = s2[t][f]
                    /\ (\A v \in Numbers : v >= t => v \notin T2[f]) => w[f] = s2[t][f]
  BY DEF Steady
<1>1. t \in F /\ t \in K /\ t \in Int /\ n \in Int /\ K \subseteq Int
  BY DEF Numbers
<1>2. CASE t > n
  <2>1. s2[t] = s[t] /\ \A u \in K : u >= t => s2[u] = s[u]
    <3>1. \A u \in K : u >= t => u # n
      BY <1>1, <1>2
    <3> QED
      BY <1>1, <1>2, <3>1
  <2>2. \A v \in Numbers : v >= t => (v \in T2[f] <=> v \in T[f])
    BY <1>1, <1>2 DEF Numbers
  <2>3. \A u \in K : u >= t /\ (\A v \in t..(u - 1) : v \notin T2[f]) => \A v \in t..(u - 1) : v \notin T[f]
    BY <1>1, <2>2 DEF Numbers
  <2> QED
    BY <1>1, <2>1, <2>2, <2>3 DEF Steady
<1>3. CASE ~(t > n)
  <2>1. w = s[n] /\ \A u \in K : s2[u] = s[u]
    BY <1>3
  <2>2. CASE T2 = T
    BY <1>1, <2>1, <2>2 DEF Steady
  <2>3. CASE \A u \in K : u <= n
    <3>1. \A u \in K : u >= t /\ (\A v \in t..(u - 1) : v \notin T2[f]) => \A v \in t..(u - 1) : v \notin T[f]
      BY <1>1, <2>3
    <3>2. \A u \in K : u >= t /\ (\A v \in t..(u - 1) : v \notin T2[f]) => s[u][f] = s[t][f]
      BY <1>1, <3>1 DEF Steady
    <3>3. ASSUME \A v \in Numbers : v >= t => v \notin T2[f]
          PROVE  s[n][f] = s[t][f]
      <4>1. \A v \in t..(n - 1) : v \notin T2[f]
        BY <1>1, <3>3 DEF Numbers
      <4> QED
        BY <1>1, <1>3, <3>2, <4>1
    <3> QED
      BY <1>1, <2>1, <3>2, <3>3
  <2> QED
    BY <1>1, <1>3, <2>2, <2>3
<1> QED
  BY <1>2, <1>3

(* A file is put back to what some number that all of F are up to began    *)
(* with.                                                                   *)
LEMMA SteadyRewind ==
  ASSUME NEW T, NEW F, NEW F2, NEW K, NEW s, NEW w, NEW w2,
         Steady(T, F, K, s, w), F2 \subseteq F, F \subseteq Numbers, K \subseteq Numbers,
         \A f \in Files : \/ w2[f] = w[f]
                          \/ F2 = {}
                          \/ \E v \in K : w2[f] = s[v][f] /\ \A t \in F2 : t <= v
  PROVE  Steady(T, F2, K, s, w2)
<1> SUFFICES ASSUME NEW t \in F2, NEW f \in Files, \A v \in Numbers : v >= t => v \notin T[f]
             PROVE  w2[f] = s[t][f]
  BY DEF Steady
<1>1. w[f] = s[t][f]
  BY DEF Steady
<1>2. ASSUME NEW v \in K, w2[f] = s[v][f], t <= v PROVE w2[f] = s[t][f]
  <2>1. \A x \in t..(v - 1) : x \notin T[f]
    BY <1>2 DEF Numbers
  <2> QED
    BY <1>2, <2>1 DEF Steady, Numbers
<1> QED
  BY <1>1, <1>2

-----------------------------------------------------------------------------

LEMMA InTouched ==
  ASSUME NEW S, NEW f \in Files
  PROVE  \A v : v \in Touched(S)[f] <=> \E c \in S : c.turn = v /\ c.files[f] # Untouched
BY DEF Touched

LEMMA SameTouched ==
  ASSUME NEW S, NEW S2, \A f \in Files : Touched(S2)[f] = Touched(S)[f]
  PROVE  Touched(S2) = Touched(S)
BY DEF Touched

(* The checkpoints that all() returns are those of Memory.                 *)
LEMMA MemoryIs ==
  ASSUME FileTypes
  PROVE  /\ Checkpoints \in Seq(Checkpoint) /\ Memory \subseteq Checkpoint
         /\ \A i \in DOMAIN Checkpoints : Checkpoints[i] \in Memory
         /\ \A c \in Memory : \E i \in DOMAIN Checkpoints : Checkpoints[i] = c
         /\ Taken(Checkpoints) = {c.turn : c \in Memory}
<1>1. done \in Seq(Checkpoint) /\ cur \in Seq(Checkpoint)
  BY DEF FileTypes
<1>2. /\ Checkpoints \in Seq(Checkpoint) /\ Len(Checkpoints) = Len(done) + Len(cur)
      /\ \A i \in 1..Len(done) : Checkpoints[i] = done[i]
      /\ \A i \in 1..Len(cur) : Checkpoints[Len(done) + i] = cur[i]
      /\ \A i \in 1..Len(Checkpoints) : i <= Len(done) \/ i - Len(done) \in 1..Len(cur)
  <2>1. Checkpoints = done \o cur /\ Len(done) \in Nat /\ Len(cur) \in Nat
    BY <1>1 DEF Checkpoints
  <2> QED
    BY <1>1, <2>1, ConcatProperties
<1>3. /\ DOMAIN done = 1..Len(done) /\ DOMAIN cur = 1..Len(cur) /\ Len(done) \in Nat /\ Len(cur) \in Nat
      /\ DOMAIN Checkpoints = 1..Len(Checkpoints)
  BY <1>1, <1>2
<1>4. Memory \subseteq Checkpoint
  BY <1>1, <1>3 DEF Memory
<1>5. ASSUME NEW i \in DOMAIN Checkpoints PROVE Checkpoints[i] \in Memory
  <2>1. CASE i <= Len(done)
    BY <1>2, <1>3, <2>1 DEF Memory
  <2>2. CASE i - Len(done) \in 1..Len(cur)
    <3>1. Checkpoints[Len(done) + (i - Len(done))] = cur[i - Len(done)]
      BY <1>2, <2>2
    <3>2. Len(done) + (i - Len(done)) = i
      BY <1>2, <1>3
    <3>3. cur[i - Len(done)] \in Memory
      BY <1>3, <2>2 DEF Memory
    <3> QED
      BY <3>1, <3>2, <3>3
  <2> QED
    BY <1>2, <1>3, <2>1, <2>2
<1>6. ASSUME NEW c \in Memory PROVE \E i \in DOMAIN Checkpoints : Checkpoints[i] = c
  <2>1. CASE \E i \in DOMAIN done : c = done[i]
    BY <1>2, <1>3, <2>1
  <2>2. CASE \E i \in DOMAIN cur : c = cur[i]
    <3>1. PICK i \in 1..Len(cur) : c = cur[i]
      BY <1>3, <2>2
    <3>2. Len(done) + i \in DOMAIN Checkpoints /\ Checkpoints[Len(done) + i] = c
      BY <1>2, <1>3, <3>1
    <3> QED
      BY <3>2
  <2> QED
    BY <2>1, <2>2 DEF Memory
<1>7. Taken(Checkpoints) = {c.turn : c \in Memory}
  BY <1>5, <1>6 DEF Taken
<1> QED
  BY <1>2, <1>4, <1>5, <1>6, <1>7

LEMMA Given ==
  ASSUME FileTypes, NumberInv
  PROVE  /\ Kept \subseteq Numbers /\ Taken(Checkpoints) = Kept /\ Known = Kept
         /\ Firm \subseteq Kept /\ Safe \subseteq Firm
         /\ Stored \subseteq Memory
         /\ \A f \in Files : Touched(Memory)[f] \subseteq Kept /\ Touched(Stored)[f] \subseteq Kept
<1>1. Kept \subseteq Numbers /\ Taken(Checkpoints) = Kept
  BY MemoryIs DEF Kept, NumberInv
<1>2. Stored \subseteq Memory
  BY DEF Stored, NumberInv
<1>3. \A c \in Memory : c.turn \in Kept
  BY DEF NumberInv
<1> QED
  BY <1>1, <1>2, <1>3, InTouched DEF Known, Firm, Safe

(* What load reads back, in turn order.                                    *)
LEMMA OnDiskIs ==
  ASSUME FileTypes, NumberInv, NEW n \in Nat, Kept = 0..(n - 1)
  PROVE  /\ OnDisk \in Seq(Checkpoint) /\ Len(OnDisk) = n
         /\ \A i \in 1..n : OnDisk[i] = disk[i - 1][1] /\ OnDisk[i].turn = i - 1
<1>1. Cardinality(Kept) = n
  BY FS_Interval
<1>2. ASSUME NEW i \in 1..n PROVE Nth(i) = i - 1
  <2>1. ASSUME NEW t \in Kept PROVE Cardinality({u \in Kept : u < t}) = t
    <3>1. {u \in Kept : u < t} = 0..(t - 1)
      OBVIOUS
    <3>2. t \in Nat /\ (0 > t - 1 <=> t = 0)
      OBVIOUS
    <3>3. Cardinality(0..(t - 1)) = IF 0 > t - 1 THEN 0 ELSE (t - 1) - 0 + 1
      BY <3>2, FS_Interval
    <3>4. Cardinality(0..(t - 1)) = t
      BY <3>2, <3>3
    <3> QED
      BY <3>1, <3>4
  <2>2. i - 1 \in Kept
    OBVIOUS
  <2>3. \A t \in Kept : Cardinality({u \in Kept : u < t}) = i - 1 <=> t = i - 1
    BY <2>1
  <2> QED
    BY <2>2, <2>3 DEF Nth
<1>3. OnDisk = [i \in 1..n |-> disk[Nth(i)][1]]
  BY <1>1 DEF OnDisk
<1>4. ASSUME NEW i \in 1..n
      PROVE  OnDisk[i] = disk[i - 1][1] /\ OnDisk[i].turn = i - 1 /\ OnDisk[i] \in Checkpoint
  <2>1. OnDisk[i] = disk[i - 1][1] /\ i - 1 \in Kept
    BY <1>2, <1>3
  <2> QED
    BY <2>1, MemoryIs DEF NumberInv
<1>5. OnDisk \in [1..n -> Checkpoint]
  BY <1>3, <1>4
<1>6. OnDisk \in Seq(Checkpoint)
  BY <1>5
<1>7. Len(OnDisk) = n
  BY <1>3
<1> QED
  BY <1>4, <1>6, <1>7

LEMMA InitFiles == Init => FilesInv
<1> SUFFICES ASSUME Init PROVE FilesInv
  OBVIOUS
<1>1. /\ Kept = {} /\ done = <<>> /\ cur = <<>> /\ cpTurn = 0 /\ running = FALSE
  BY DEF Init, Kept
<1>2. Memory = {} /\ Stored = {} /\ Firm = {} /\ Safe = {}
  BY <1>1 DEF Memory, Stored, Firm, Safe
<1>3. FileTypes
  <2>1. fs \in [Files -> Contents] /\ startFs \in [Numbers -> [Files -> Contents]]
    BY DEF Init, Contents, Absent
  <2>2. done \in Seq(Checkpoint) /\ cur \in Seq(Checkpoint) /\ Len(cur) <= 1
    BY <1>1
  <2>3. disk \in [Numbers -> Seq(Checkpoint)]
    BY DEF Init
  <2>4. running = FALSE /\ cpTurn = 0 /\ begun = 0 /\ soiled = {} /\ lost = {} /\ stale = {} /\ ahead = {}
    BY DEF Init
  <2>5. 0 \in 0..MaxTurns /\ 0 \in Contents
    BY DEF Contents
  <2> QED
    BY <2>1, <2>2, <2>3, <2>4, <2>5 DEF FileTypes
<1>4. NumberInv
  <2>1. Kept = 0..(0 - 1) /\ 0 \in 0..MaxTurns
    BY <1>1
  <2>2. {c.turn : c \in Memory} = Kept
    BY <1>1, <1>2
  <2> QED
    BY <1>1, <1>2, <2>1, <2>2 DEF NumberInv
<1> QED
  BY <1>1, <1>2, <1>3, <1>4 DEF FilesInv, HereInv, SnapInv, MemInv, DiskInv, Steady

LEMMA FilesBegin ==
  ASSUME FilesInv, Types, BeginCheckpoint, running' \in BOOLEAN PROVE FilesInv'
<1>0. FileTypes /\ NumberInv /\ HereInv /\ SnapInv /\ MemInv /\ DiskInv
  BY DEF FilesInv
<1>. DEFINE n == cpTurn
            cp == [turn |-> n, index |-> Len(log), files |-> [f \in Files |-> Untouched]]
<1>1. /\ cur' = <<cp>> /\ done' = done \o cur /\ disk' = [disk EXCEPT ![n] = <<cp>>]
      /\ running' \in BOOLEAN /\ cpTurn' = n + 1 /\ n \in Numbers /\ fs' = fs
      /\ begun' = begun + 1 /\ begun < MaxTurns
      /\ startFs' = [startFs EXCEPT ![n] = fs]
      /\ soiled' = IF n \in Kept /\ fs # startFs[n] THEN soiled \cup 0..n ELSE soiled
      /\ lost' = IF \E t \in Kept : t > n THEN lost \cup 0..n ELSE lost
      /\ (stale \cup ahead)' \subseteq stale \cup ahead \cup {n}
  BY <1>0, Given DEF BeginCheckpoint, Opened, Persist, Kept
<1>2. cp \in Checkpoint /\ cp.turn = n /\ \A f \in Files : cp.files[f] = Untouched
  BY <1>1 DEF Checkpoint, Types, Messages
<1> HIDE DEF cp
<1>3. PICK N \in 0..MaxTurns : Kept = 0..(N - 1) /\ n <= N
  BY <1>0 DEF NumberInv
<1>4. /\ Kept' = Kept \cup {n} /\ disk'[n] = <<cp>>
      /\ \A t \in Numbers : t # n => disk'[t] = disk[t]
  BY <1>0, <1>1 DEF FileTypes, Kept
<1>5. /\ startFs'[n] = fs /\ \A u \in Numbers : u # n => startFs'[u] = startFs[u]
  BY <1>0, <1>1 DEF FileTypes
<1>6. FileTypes'
  <2>1. fs' \in [Files -> Contents] /\ startFs' \in [Numbers -> [Files -> Contents]]
    BY <1>0, <1>1 DEF FileTypes
  <2>2. running' \in BOOLEAN /\ cpTurn' \in 0..MaxTurns /\ begun' \in Contents
    BY <1>0, <1>1 DEF FileTypes, Numbers, Contents
  <2>3. done' \in Seq(Checkpoint) /\ cur' \in Seq(Checkpoint) /\ Len(cur') <= 1
    BY <1>0, <1>1, <1>2 DEF FileTypes
  <2>4. disk' \in [Numbers -> Seq(Checkpoint)]
    BY <1>0, <1>1, <1>2 DEF FileTypes
  <2>5. soiled' \subseteq Numbers /\ lost' \subseteq Numbers /\ (stale \cup ahead)' \subseteq Numbers
    BY <1>0, <1>1 DEF FileTypes, Numbers
  <2> QED
    BY <2>1, <2>2, <2>3, <2>4, <2>5 DEF FileTypes
<1>7. Memory' = Memory \cup {cp}
  <2>1. done' = Checkpoints
    BY <1>1 DEF Checkpoints
  <2>2. {done'[i] : i \in DOMAIN done'} = Memory
    BY <1>0, <2>1, MemoryIs
  <2>3. {cur'[i] : i \in DOMAIN cur'} = {cp}
    BY <1>1
  <2> QED
    BY <2>2, <2>3 DEF Memory
<1>8. Stored' = {disk[t][1] : t \in Kept \ {n}} \cup {cp}
  <2>1. \A t \in Kept \ {n} : disk'[t] = disk[t]
    BY <1>0, <1>4, Given
  <2>2. disk'[n][1] = cp
    BY <1>4
  <2> QED
    BY <1>4, <2>1, <2>2 DEF Stored
<1>9. Touched(Memory') = Touched(Memory)
  BY <1>2, <1>7 DEF Touched
<1>10. \A f \in Files : /\ Touched(Stored)[f] \ {n} \subseteq Touched(Stored')[f]
                        /\ Touched(Stored')[f] \subseteq Touched(Stored)[f]
  <2> SUFFICES ASSUME NEW f \in Files
               PROVE  /\ Touched(Stored)[f] \ {n} \subseteq Touched(Stored')[f]
                      /\ Touched(Stored')[f] \subseteq Touched(Stored)[f]
    OBVIOUS
  <2>1. ASSUME NEW v \in Touched(Stored)[f], v # n PROVE v \in Touched(Stored')[f]
    <3>1. PICK c \in Stored : c.turn = v /\ c.files[f] # Untouched
      BY InTouched
    <3>2. c \in Stored'
      <4>1. PICK t \in Kept : c = disk[t][1]
        BY <3>1 DEF Stored
      <4>2. t # n
        BY <1>0, <2>1, <3>1, <4>1 DEF NumberInv
      <4> QED
        BY <1>8, <4>1, <4>2
    <3> QED
      BY <3>1, <3>2, InTouched
  <2>2. ASSUME NEW v \in Touched(Stored')[f] PROVE v \in Touched(Stored)[f]
    <3>1. PICK c \in Stored' : c.turn = v /\ c.files[f] # Untouched
      BY InTouched
    <3>2. c \in Stored
      BY <1>2, <1>8, <3>1 DEF Stored
    <3> QED
      BY <3>1, <3>2, InTouched
  <2> QED
    BY <2>1, <2>2
<1>11. /\ n \in Kept => fs = startFs[n] \/ \A t \in Firm' : t > n
       /\ Firm' \subseteq Firm \cup {n} /\ (n \in Kept => Firm' \subseteq Firm)
       /\ Safe' \subseteq Firm' /\ Safe' \subseteq Safe \cup {n}
       /\ (n \in Kept => Safe' \subseteq Safe)
       /\ (\A u \in Kept : u <= n) \/ \A t \in Safe' : t > n
  <2>1. soiled \subseteq soiled' /\ lost \subseteq lost'
    BY <1>1
  <2>2. Kept \subseteq Numbers /\ Kept' \subseteq Numbers
    BY <1>0, <1>1, <1>4, Given
  <2>3. n \in Kept => fs = startFs[n] \/ \A t \in Firm' : t > n
    <3>1. n \in Kept /\ fs # startFs[n] => 0..n \subseteq soiled'
      BY <1>1
    <3> QED
      BY <1>1, <2>2, <3>1 DEF Firm, Numbers
  <2>4. (\A u \in Kept : u <= n) \/ \A t \in Safe' : t > n
    <3>1. (\E u \in Kept : u > n) => 0..n \subseteq lost'
      BY <1>1
    <3> QED
      BY <1>1, <2>2, <3>1 DEF Safe, Numbers
  <2> QED
    BY <1>4, <2>1, <2>3, <2>4 DEF Firm, Safe
<1>12. MemInv' /\ DiskInv'
  <2>. DEFINE TM == Touched(Memory)
              TS == Touched(Stored)
              TT == Touched(Stored')
  <2>0. /\ Steady(TM, Firm, Kept, startFs, fs) /\ Steady(TS, Safe, Kept, startFs, fs)
        /\ Firm \subseteq Kept /\ Safe \subseteq Kept /\ Kept \subseteq Numbers
        /\ \A g \in Files : TM[g] \subseteq Kept /\ TS[g] \subseteq Kept
        /\ \A g \in Files : TS[g] \ {n} \subseteq TT[g] /\ TT[g] \subseteq TS[g]
    BY <1>0, <1>10, Given DEF MemInv, DiskInv
  <2>1. SUFFICES /\ Steady(TM, Firm', Kept', startFs', fs)
                 /\ Steady(TT, Safe', Kept', startFs', fs)
    BY <1>1, <1>9 DEF MemInv, DiskInv
  <2> HIDE DEF TM, TS, TT
  <2>2. CASE n \notin Kept
    <3>1. N = n /\ Kept = 0..(n - 1) /\ Kept' = 0..n
      BY <1>1, <1>3, <1>4, <2>2 DEF Numbers
    <3>2. \A g \in Files : TT[g] = TS[g]
      BY <2>0, <2>2
    <3>3. \A u \in Kept : startFs'[u] = startFs[u]
      BY <1>5, <2>0, <2>2
    <3>4. GivenFirst(TM, TM, Firm, Firm', Kept, Kept', startFs, startFs', fs, n)
      BY <1>1, <1>5, <1>11, <2>0, <3>1, <3>3 DEF GivenFirst
    <3>5. Safe' \subseteq Safe \cup {n}
      BY <1>11
    <3>6. GivenFirst(TS, TT, Safe, Safe', Kept, Kept', startFs, startFs', fs, n)
      BY <1>1, <1>5, <2>0, <3>1, <3>2, <3>3, <3>5 DEF GivenFirst
    <3> QED
      BY <3>4, <3>6, SteadyNew
  <2>3. CASE n \in Kept
    <3>1. Kept' = Kept /\ \A u \in Kept : u # n => startFs'[u] = startFs[u]
      BY <1>4, <1>5, <2>0, <2>3
    <3>2. fs = startFs[n] \/ \A t \in Firm' : t > n
      BY <1>11, <2>3
    <3>3. fs = startFs[n] \/ \A t \in Safe' : t > n
      BY <1>11, <3>2
    <3>4. Firm' \subseteq Firm /\ Safe' \subseteq Safe
      BY <1>11, <2>3
    <3>5. GivenAgain(TM, TM, Firm, Firm', Kept, startFs, startFs', fs, n)
      BY <1>5, <2>0, <2>3, <3>1, <3>2, <3>4 DEF GivenAgain
    <3>6. (\A u \in Kept : u <= n) \/ \A t \in Safe' : t > n
      BY <1>11
    <3>7. GivenAgain(TS, TT, Safe, Safe', Kept, startFs, startFs', fs, n)
      BY <1>5, <2>0, <2>3, <3>1, <3>3, <3>4, <3>6 DEF GivenAgain
    <3> QED
      BY <3>1, <3>5, <3>7, SteadyAgain
  <2> QED
    BY <2>2, <2>3
<1>13. NumberInv'
  <2>1. {c.turn : c \in Memory'} = Kept'
    BY <1>0, <1>2, <1>4, <1>7 DEF NumberInv
  <2>2. \E m \in 0..MaxTurns : Kept' = 0..(m - 1) /\ cpTurn' <= m
    <3>1. CASE n = N
      <4>1. Kept' = 0..((N + 1) - 1) /\ N + 1 \in 0..MaxTurns
        BY <1>1, <1>3, <1>4, <3>1 DEF Numbers
      <4> QED
        BY <1>1, <1>3, <3>1, <4>1
    <3>2. CASE n # N
      <4>1. Kept' = 0..(N - 1) /\ cpTurn' <= N
        BY <1>1, <1>3, <1>4, <3>2 DEF Numbers
      <4> QED
        BY <4>1
    <3> QED
      BY <3>1, <3>2
  <2>3. ASSUME NEW t \in Kept'
        PROVE  disk'[t] = <<disk'[t][1]>> /\ disk'[t][1].turn = t /\ disk'[t][1] \in Memory'
    <3>1. CASE t = n
      BY <1>2, <1>4, <1>7, <3>1
    <3>2. CASE t # n
      <4>1. t \in Kept /\ disk'[t] = disk[t]
        BY <1>0, <1>4, <3>2, Given
      <4> QED
        BY <1>0, <1>7, <4>1 DEF NumberInv
    <3> QED
      BY <3>1, <3>2
  <2>4. \A t \in Firm' : t <= cpTurn' /\ (running' => t < cpTurn')
    <3>1. ASSUME NEW t \in Firm' PROVE t \in Numbers /\ t <= n
      <4>1. t \in Firm => t \in Numbers /\ t <= n
        BY <1>0, Given DEF NumberInv
      <4>2. t = n => t \in Numbers /\ t <= n
        BY <1>1 DEF Numbers
      <4> QED
        BY <1>11, <4>1, <4>2
    <3> QED
      BY <1>1, <3>1 DEF Numbers
  <2> QED
    BY <2>1, <2>2, <2>3, <2>4 DEF NumberInv
<1>14. HereInv'
  <2>1. cpTurn' - 1 = n /\ cur' = <<cp>> /\ cur'[1] = cp
    BY <1>1 DEF Numbers
  <2>2. n \in Kept' /\ disk'[n] = cur' /\ startFs'[n] = fs /\ fs' = fs
    BY <1>1, <1>4, <1>5
  <2> QED
    BY <1>2, <2>1, <2>2 DEF HereInv
<1>15. SnapInv'
  <2> SUFFICES ASSUME NEW c \in Memory', NEW t \in Firm', NEW f \in Files,
                      t <= c.turn, c.files[f] # Untouched
               PROVE  c.files[f] = startFs'[c.turn][f]
    BY DEF SnapInv
  <2>1. c \in Memory /\ c.turn \in Kept /\ c.turn \in Numbers
    BY <1>0, <1>2, <1>7, Given DEF NumberInv
  <2>2. t \in Firm /\ (c.turn = n => fs = startFs[n])
    <3>1. CASE n \in Kept
      <4>1. t \in Firm /\ t \in Numbers
        BY <1>0, <1>11, <3>1, Given
      <4> QED
        BY <1>1, <1>11, <3>1, <4>1 DEF Numbers
    <3>2. CASE n \notin Kept
      <4>1. c.turn < n /\ c.turn # n
        BY <1>1, <1>3, <2>1, <3>2 DEF Numbers
      <4>2. t # n
        BY <1>1, <2>1, <4>1 DEF Numbers
      <4> QED
        BY <1>11, <4>1, <4>2
    <3> QED
      BY <3>1, <3>2
  <2>3. c.files[f] = startFs[c.turn][f]
    BY <1>0, <2>1, <2>2 DEF SnapInv
  <2> QED
    BY <1>5, <2>1, <2>2, <2>3
<1> QED
  BY <1>6, <1>12, <1>13, <1>14, <1>15 DEF FilesInv

LEMMA FilesEdit == ASSUME FilesInv, NEW f \in Files, Edit(f) PROVE FilesInv'
<1>0. FileTypes /\ NumberInv /\ HereInv /\ SnapInv /\ MemInv /\ DiskInv /\ running
  BY DEF FilesInv, Edit
<1>. DEFINE c == cpTurn - 1
            x == cur[1]
            y == cur'[1]
            D == {done[i] : i \in DOMAIN done}
<1>1. /\ cur = <<x>> /\ c \in Kept /\ c \in Numbers /\ x.turn = c /\ disk[c] = cur
      /\ x \in Checkpoint
      /\ \A g \in Files : x.files[g] = Untouched => fs[g] = startFs[c][g]
  <2>1. cur = <<x>> /\ c \in Kept /\ x.turn = c /\ disk[c] = cur
    BY <1>0 DEF HereInv
  <2>2. c \in Numbers
    BY <1>0, <2>1, Given
  <2>3. x \in Memory
    BY <2>1 DEF Memory
  <2>4. x \in Checkpoint
    BY <1>0, <2>3, MemoryIs
  <2> QED
    BY <1>0, <2>1, <2>2, <2>4 DEF HereInv
<1>2. /\ fs' = [fs EXCEPT ![f] = begun] /\ disk' = [disk EXCEPT ![c] = cur']
      /\ UNCHANGED <<running, cpTurn, done, begun, startFs, soiled, lost, stale, ahead>>
      /\ cur' = IF FirstTouch(f) THEN <<[x EXCEPT !.files[f] = fs[f]]>> ELSE cur
  BY <1>1 DEF Edit, Persist, pastVars
<1>3. /\ cur' = <<y>> /\ y \in Checkpoint /\ y.turn = c
      /\ y.files[f] # Untouched /\ \A g \in Files : g # f => y.files[g] = x.files[g]
      /\ y.files[f] = x.files[f] \/ (x.files[f] = Untouched /\ y.files[f] = fs[f])
  <2>1. fs[f] \in Contents /\ fs[f] # Untouched
    BY <1>0 DEF FileTypes, Contents, Untouched
  <2>2. CASE FirstTouch(f)
    <3>1. x.files[f] = Untouched
      BY <2>2 DEF FirstTouch
    <3>2. cur' = <<[x EXCEPT !.files[f] = fs[f]]>> /\ y = [x EXCEPT !.files[f] = fs[f]]
      BY <1>2, <2>2
    <3>3. x.files \in [Files -> Contents \cup {Untouched}]
      BY <1>1 DEF Checkpoint
    <3>4. y.turn = c /\ y.index = x.index /\ y.files = [x.files EXCEPT ![f] = fs[f]]
      BY <1>1, <3>2 DEF Checkpoint
    <3>5. y \in Checkpoint
      BY <1>1, <2>1, <3>2, <3>3 DEF Checkpoint
    <3> QED
      BY <2>1, <3>1, <3>2, <3>3, <3>4, <3>5
  <2>3. CASE ~FirstTouch(f)
    BY <1>1, <1>2, <2>3 DEF FirstTouch
  <2> QED
    BY <2>2, <2>3
<1>4. /\ disk'[c] = <<y>> /\ \A t \in Numbers : t # c => disk'[t] = disk[t]
      /\ Kept' = Kept
  BY <1>0, <1>1, <1>2, <1>3 DEF FileTypes, Kept
<1>5. Memory = D \cup {x} /\ Memory' = D \cup {y}
  <2>1. {cur[i] : i \in DOMAIN cur} = {x}
    BY <1>1
  <2>2. {cur'[i] : i \in DOMAIN cur'} = {y}
    BY <1>3
  <2> QED
    BY <1>2, <2>1, <2>2 DEF Memory
<1>. DEFINE E == {disk[t][1] : t \in Kept \ {c}}
<1>6. Stored = E \cup {x} /\ Stored' = E \cup {y}
  <2>1. disk[c][1] = x /\ disk'[c][1] = y
    BY <1>1, <1>4
  <2>2. \A t \in Kept \ {c} : disk'[t] = disk[t]
    BY <1>0, <1>4, Given
  <2> QED
    BY <1>1, <1>4, <2>1, <2>2 DEF Stored
<1> HIDE DEF x, y, D, E
<1>7. FileTypes'
  <2>1. fs' \in [Files -> Contents]
    BY <1>0, <1>2 DEF FileTypes
  <2>2. cur' \in Seq(Checkpoint) /\ Len(cur') <= 1
    BY <1>3
  <2>3. disk' \in [Numbers -> Seq(Checkpoint)]
    BY <1>0, <1>2, <2>2 DEF FileTypes
  <2> QED
    BY <1>0, <1>2, <2>1, <2>2, <2>3 DEF FileTypes
<1>8. Firm' = Firm /\ Safe' = Safe
  BY <1>2, <1>4 DEF Firm, Safe
<1>9. ASSUME NEW S, NEW g \in Files
      PROVE  /\ Touched(S \cup {x})[g] \subseteq Touched(S \cup {y})[g]
             /\ c \in Touched(S \cup {y})[f]
  <2>1. x.files[g] # Untouched => y.files[g] # Untouched
    BY <1>3
  <2>2. ASSUME NEW v \in Touched(S \cup {x})[g] PROVE v \in Touched(S \cup {y})[g]
    <3>1. PICK d \in S \cup {x} : d.turn = v /\ d.files[g] # Untouched
      BY InTouched
    <3>2. \E e \in S \cup {y} : e.turn = v /\ e.files[g] # Untouched
      BY <1>1, <1>3, <2>1, <3>1
    <3> QED
      BY <3>2, InTouched
  <2>3. c \in Touched(S \cup {y})[f]
    <3>1. \E e \in S \cup {y} : e.turn = c /\ e.files[f] # Untouched
      BY <1>3
    <3> QED
      BY <3>1, InTouched
  <2> QED
    BY <2>2, <2>3
<1>10. MemInv' /\ DiskInv'
  <2>1. \A g \in Files : g # f => fs'[g] = fs[g]
    BY <1>0, <1>2 DEF FileTypes
  <2>2. Firm \subseteq Numbers /\ Safe \subseteq Firm /\ Kept \subseteq Numbers
    BY <1>0, Given
  <2>3. \A t \in Firm : t <= c
    BY <1>0, <2>2 DEF NumberInv, FileTypes, Numbers
  <2>4. MemInv'
    <3>1. /\ \A g \in Files : Touched(Memory)[g] \subseteq Touched(Memory')[g]
          /\ c \in Touched(Memory')[f]
      BY <1>5, <1>9
    <3>2. Steady(Touched(Memory'), Firm, Kept, startFs, fs')
      BY <1>0, <1>1, <2>1, <2>2, <2>3, <3>1, SteadyEdit DEF MemInv
    <3> QED
      BY <1>2, <1>4, <1>8, <3>2 DEF MemInv
  <2>5. DiskInv'
    <3>1. /\ \A g \in Files : Touched(Stored)[g] \subseteq Touched(Stored')[g]
          /\ c \in Touched(Stored')[f]
      BY <1>6, <1>9
    <3>2. Safe \subseteq Numbers /\ \A t \in Safe : t <= c
      BY <2>2, <2>3
    <3>3. Steady(Touched(Stored'), Safe, Kept, startFs, fs')
      BY <1>0, <1>1, <2>1, <2>2, <3>1, <3>2, SteadyEdit DEF DiskInv
    <3> QED
      BY <1>2, <1>4, <1>8, <3>3 DEF DiskInv
  <2> QED
    BY <2>4, <2>5
<1>11. NumberInv'
  <2>1. {d.turn : d \in Memory'} = Kept'
    BY <1>0, <1>1, <1>3, <1>4, <1>5 DEF NumberInv
  <2>2. \E n \in 0..MaxTurns : Kept' = 0..(n - 1) /\ cpTurn' <= n
    BY <1>0, <1>2, <1>4 DEF NumberInv
  <2>3. ASSUME NEW t \in Kept'
        PROVE  disk'[t] = <<disk'[t][1]>> /\ disk'[t][1].turn = t /\ disk'[t][1] \in Memory'
    <3>1. CASE t = c
      BY <1>3, <1>4, <1>5, <3>1
    <3>2. CASE t # c
      <4>1. t \in Kept /\ disk'[t] = disk[t] /\ disk[t][1].turn = t /\ disk[t][1] \in Memory
            /\ disk[t] = <<disk[t][1]>>
        BY <1>0, <1>4, <3>2, Given DEF NumberInv
      <4>2. disk[t][1] \in D
        BY <1>1, <1>5, <3>2, <4>1
      <4> QED
        BY <1>5, <4>1, <4>2
    <3> QED
      BY <3>1, <3>2
  <2>4. \A t \in Firm' : t <= cpTurn' /\ (running' => t < cpTurn')
    BY <1>0, <1>2, <1>8 DEF NumberInv
  <2> QED
    BY <2>1, <2>2, <2>3, <2>4 DEF NumberInv
<1>12. HereInv'
  <2>1. \A g \in Files : y.files[g] = Untouched => fs'[g] = startFs[c][g]
    <3>1. \A g \in Files : g # f => fs'[g] = fs[g]
      BY <1>0, <1>2 DEF FileTypes
    <3> QED
      BY <1>1, <1>3, <3>1
  <2>2. cur' = <<cur'[1]>> /\ cur'[1] = y
    BY <1>3 DEF y
  <2>3. disk'[c] = cur'
    BY <1>3, <1>4
  <2> QED
    BY <1>1, <1>2, <1>3, <1>4, <2>1, <2>2, <2>3 DEF HereInv
<1>13. SnapInv'
  <2> SUFFICES ASSUME NEW d \in Memory', NEW t \in Firm, NEW g \in Files,
                      t <= d.turn, d.files[g] # Untouched
               PROVE  d.files[g] = startFs[d.turn][g]
    BY <1>2, <1>8 DEF SnapInv
  <2>1. CASE d \in Memory
    BY <1>0, <2>1 DEF SnapInv
  <2>2. CASE d = y /\ x.files[g] # Untouched
    <3>1. x \in Memory /\ x.turn = d.turn /\ x.files[g] = d.files[g]
      BY <1>1, <1>3, <1>5, <2>2
    <3> QED
      BY <1>0, <2>2, <3>1 DEF SnapInv
  <2>3. CASE d = y /\ x.files[g] = Untouched
    <3>1. g = f /\ d.files[g] = fs[g] /\ d.turn = c
      BY <1>3, <2>3
    <3> QED
      BY <1>1, <2>3, <3>1
  <2> QED
    BY <1>5, <2>1, <2>2, <2>3
<1> QED
  BY <1>7, <1>10, <1>11, <1>12, <1>13 DEF FilesInv

(* What leaves the files, the snapshots and the numbers as they are.       *)
LEMMA FilesSame ==
  ASSUME FilesInv, UNCHANGED <<fs, startFs, cpTurn, begun, done, cur, disk, soiled, lost>>,
         running' = running \/ running' = FALSE,
         (stale \cup ahead)' \subseteq stale \cup ahead \cup Known
  PROVE  FilesInv'
<1>1. /\ Kept' = Kept /\ Firm' = Firm /\ Safe' = Safe /\ Memory' = Memory /\ Stored' = Stored
  BY DEF Kept, Firm, Safe, Memory, Stored
<1>2. FileTypes'
  BY Given DEF FilesInv, FileTypes
<1>3. NumberInv' /\ HereInv'
  BY <1>1 DEF FilesInv, NumberInv, HereInv
<1>4. SnapInv' /\ MemInv' /\ DiskInv'
  BY <1>1 DEF FilesInv, SnapInv, MemInv, DiskInv
<1> QED
  BY <1>2, <1>3, <1>4 DEF FilesInv

LEMMA FilesRewind ==
  ASSUME FilesInv, NEW t \in Numbers, NEW scope \in Scopes, NEW bad, Rewind(t, scope, bad)
  PROVE  FilesInv'
<1>0. FileTypes /\ NumberInv /\ SnapInv /\ MemInv /\ DiskInv
  BY DEF FilesInv
<1>1. /\ t \in Kept /\ running' = FALSE /\ (cpTurn' = cpTurn \/ cpTurn' = t)
      /\ soiled' = soiled \cup {u \in Kept : u > t}
      /\ UNCHANGED <<startFs, begun, done, cur, disk, lost>>
      /\ fs' = fs \/ fs' = Restored(Checkpoints, t, bad)
      /\ (stale \cup ahead)' \subseteq stale \cup ahead \cup Kept
  BY <1>0, Given DEF Rewind, Truncate, SaveAfter, storeVars, pastVars
<1>2. /\ Kept' = Kept /\ Memory' = Memory /\ Stored' = Stored
      /\ Firm' = {u \in Firm : u <= t} /\ Safe' = {u \in Safe : u <= t}
  <2>1. Kept' = Kept /\ Memory' = Memory
    BY <1>1 DEF Kept, Memory
  <2>2. Stored' = Stored
    BY <1>1, <2>1 DEF Stored
  <2>3. \A u \in Kept : u \in Int /\ t \in Int /\ (u <= t <=> ~(u > t))
    BY <1>0, Given DEF Numbers
  <2> QED
    BY <1>1, <2>1, <2>2, <2>3 DEF Firm, Safe
<1>3. ASSUME NEW f \in Files
      PROVE  /\ fs'[f] \in Contents
             /\ fs'[f] = fs[f] \/ Firm' = {} \/ \E v \in Kept : fs'[f] = startFs[v][f] /\ v >= t
  <2>0. fs[f] \in Contents
    BY <1>0 DEF FileTypes
  <2>1. CASE fs'[f] = fs[f]
    BY <2>0, <2>1
  <2>2. CASE fs'[f] # fs[f]
    <3>. DEFINE e == Earliest(Checkpoints, f, t)
    <3>1. Touching(Checkpoints, f, t) # {} /\ fs'[f] = Checkpoints[e].files[f]
      BY <1>1, <2>2 DEF Restored
    <3>2. e \in Touching(Checkpoints, f, t)
      BY <1>0, <3>1, MemoryIs, EarliestIs
    <3>. DEFINE d == Checkpoints[e]
    <3>3. d \in Memory /\ d.turn >= t /\ d.files[f] # Untouched /\ d \in Checkpoint /\ d.turn \in Kept
      BY <1>0, <3>2, MemoryIs DEF Touching, NumberInv
    <3>4. d.files[f] \in Contents
      BY <3>3 DEF Checkpoint
    <3>5. ASSUME NEW u \in Firm' PROVE d.files[f] = startFs[d.turn][f]
      <4>1. u \in Firm /\ u <= d.turn
        BY <1>0, <1>2, <3>3, Given DEF Numbers
      <4> QED
        BY <1>0, <3>3, <4>1 DEF SnapInv
    <3> QED
      BY <3>1, <3>3, <3>4, <3>5
  <2> QED
    BY <2>1, <2>2
<1>4. FileTypes'
  <2>1. fs' = [f \in Files |-> fs'[f]]
    BY <1>0, <1>1 DEF FileTypes, Restored
  <2>2. fs' \in [Files -> Contents]
    BY <1>3, <2>1
  <2>3. soiled' \subseteq Numbers /\ (stale \cup ahead)' \subseteq Numbers /\ cpTurn' \in 0..MaxTurns
    <3>1. t \in 0..MaxTurns
      BY DEF Numbers
    <3> QED
      BY <1>0, <1>1, <3>1, Given DEF FileTypes
  <2> QED
    BY <1>0, <1>1, <2>2, <2>3 DEF FileTypes
<1>5. NumberInv'
  <2>1. {d.turn : d \in Memory'} = Kept'
    BY <1>0, <1>2 DEF NumberInv
  <2>2. \E n \in 0..MaxTurns : Kept' = 0..(n - 1) /\ cpTurn' <= n
    <3>1. PICK n \in 0..MaxTurns : Kept = 0..(n - 1) /\ cpTurn <= n
      BY <1>0 DEF NumberInv
    <3>2. cpTurn' <= n
      BY <1>1, <3>1
    <3> QED
      BY <1>2, <3>1, <3>2
  <2>3. \A u \in Kept' : disk'[u] = <<disk'[u][1]>> /\ disk'[u][1].turn = u /\ disk'[u][1] \in Memory'
    BY <1>0, <1>1, <1>2 DEF NumberInv
  <2>4. \A u \in Firm' : u <= cpTurn' /\ (running' => u < cpTurn')
    BY <1>0, <1>1, <1>2 DEF NumberInv
  <2> QED
    BY <2>1, <2>2, <2>3, <2>4 DEF NumberInv
<1>6. HereInv'
  BY <1>1 DEF HereInv
<1>7. SnapInv'
  BY <1>0, <1>1, <1>2 DEF SnapInv
<1>8. ASSUME NEW T, NEW F, NEW F2, Steady(T, F, Kept, startFs, fs), F2 \subseteq F, F \subseteq Firm,
             F2 \subseteq Firm', \A u \in F2 : u <= t
      PROVE  Steady(T, F2, Kept, startFs, fs')
  <2>1. Kept \subseteq Numbers /\ F \subseteq Numbers
    BY <1>0, <1>8, Given
  <2>2. \A f \in Files : \/ fs'[f] = fs[f] \/ F2 = {}
                         \/ \E v \in Kept : fs'[f] = startFs[v][f] /\ \A u \in F2 : u <= v
    BY <1>3, <1>8, <2>1 DEF Numbers
  <2> QED
    BY <1>8, <2>1, <2>2, SteadyRewind
<1>9. MemInv' /\ DiskInv'
  <2>1. Steady(Touched(Memory), Firm', Kept, startFs, fs')
    BY <1>0, <1>2, <1>8 DEF MemInv
  <2>2. Steady(Touched(Stored), Safe', Kept, startFs, fs')
    BY <1>0, <1>2, <1>8, Given DEF DiskInv
  <2> QED
    BY <1>1, <1>2, <2>1, <2>2 DEF MemInv, DiskInv
<1> QED
  BY <1>4, <1>5, <1>6, <1>7, <1>9 DEF FilesInv

LEMMA FilesRestart == ASSUME FilesInv, Restart PROVE FilesInv'
<1>0. FileTypes /\ NumberInv /\ SnapInv /\ DiskInv
  BY DEF FilesInv
<1>1. /\ running' = FALSE /\ done' = OnDisk /\ cur' = <<>> /\ cpTurn' = NextTurn(OnDisk)
      /\ soiled' = soiled \cup lost
      /\ (stale \cup ahead)' = stale \cup ahead
      /\ UNCHANGED <<fs, startFs, begun, disk, lost>>
  BY DEF Restart, pastVars
<1>2. PICK n \in 0..MaxTurns : Kept = 0..(n - 1) /\ cpTurn <= n
  BY <1>0 DEF NumberInv
<1>3. /\ OnDisk \in Seq(Checkpoint) /\ Len(OnDisk) = n
      /\ \A i \in 1..n : OnDisk[i] = disk[i - 1][1] /\ OnDisk[i].turn = i - 1
  BY <1>0, <1>2, OnDiskIs
<1>4. /\ Kept' = Kept /\ Stored' = Stored /\ Firm' = Safe /\ Safe' = Safe /\ Memory' = Stored
  <2>1. Kept' = Kept /\ Firm' = Safe /\ Safe' = Safe
    BY <1>1 DEF Kept, Firm, Safe
  <2>2. Stored' = Stored
    BY <1>1, <2>1 DEF Stored
  <2>3. {OnDisk[i] : i \in DOMAIN OnDisk} = Stored
    <3>1. DOMAIN OnDisk = 1..n
      BY <1>3
    <3>2. ASSUME NEW i \in 1..n PROVE OnDisk[i] \in Stored
      <4>1. i - 1 \in Kept
        BY <1>2
      <4> QED
        BY <1>3, <4>1 DEF Stored
    <3>3. ASSUME NEW t \in Kept PROVE \E i \in 1..n : OnDisk[i] = disk[t][1]
      <4>1. t + 1 \in 1..n /\ (t + 1) - 1 = t
        BY <1>2
      <4> QED
        BY <1>3, <4>1
    <3> QED
      BY <3>1, <3>2, <3>3 DEF Stored
  <2> QED
    BY <1>1, <2>1, <2>2, <2>3 DEF Memory
<1>5. cpTurn' = n
  <2>1. CASE n = 0
    <3>1. OnDisk = <<>>
      BY <1>3, <2>1
    <3> QED
      BY <1>1, <2>1, <3>1 DEF NextTurn
  <2>2. CASE n # 0
    <3>1. OnDisk # <<>>
      BY <1>3, <2>2
    <3>2. Taken(OnDisk) = 0..(n - 1)
      <4>1. DOMAIN OnDisk = 1..n
        BY <1>3
      <4>2. \A t \in 0..(n - 1) : t + 1 \in 1..n /\ OnDisk[t + 1].turn = t
        BY <1>3
      <4>3. \A i \in 1..n : OnDisk[i].turn \in 0..(n - 1)
        BY <1>3
      <4> QED
        BY <4>1, <4>2, <4>3 DEF Taken
    <3>3. n - 1 \in 0..(n - 1) /\ \A m \in 0..(n - 1) : m <= n - 1
      BY <2>2
    <3>4. (CHOOSE k \in 0..(n - 1) : \A m \in 0..(n - 1) : m <= k) = n - 1
      <4>1. \A k \in 0..(n - 1) : (\A m \in 0..(n - 1) : m <= k) => k = n - 1
        BY <3>3
      <4> QED
        BY <3>3, <4>1
    <3>5. cpTurn' = 1 + (n - 1)
      BY <1>1, <3>1, <3>2, <3>4 DEF NextTurn
    <3> QED
      BY <3>5
  <2> QED
    BY <2>1, <2>2
<1>6. FileTypes'
  <2>1. done' \in Seq(Checkpoint) /\ cur' \in Seq(Checkpoint) /\ Len(cur') <= 1
    BY <1>1, <1>3
  <2>2. soiled' \subseteq Numbers /\ cpTurn' \in 0..MaxTurns
    BY <1>0, <1>1, <1>5 DEF FileTypes
  <2> QED
    BY <1>0, <1>1, <2>1, <2>2 DEF FileTypes
<1>7. NumberInv'
  <2>1. {d.turn : d \in Memory'} = Kept'
    BY <1>0, <1>4 DEF NumberInv, Stored
  <2>2. \E m \in 0..MaxTurns : Kept' = 0..(m - 1) /\ cpTurn' <= m
    BY <1>2, <1>4, <1>5
  <2>3. \A t \in Kept' : disk'[t] = <<disk'[t][1]>> /\ disk'[t][1].turn = t /\ disk'[t][1] \in Memory'
    BY <1>0, <1>1, <1>4 DEF NumberInv, Stored
  <2>4. \A t \in Firm' : t <= cpTurn'
    BY <1>2, <1>4, <1>5 DEF Safe
  <2> QED
    BY <1>1, <2>1, <2>2, <2>3, <2>4 DEF NumberInv
<1>8. HereInv'
  BY <1>1 DEF HereInv
<1>9. SnapInv'
  BY <1>0, <1>1, <1>4, Given DEF SnapInv
<1>10. MemInv' /\ DiskInv'
  BY <1>0, <1>1, <1>4 DEF MemInv, DiskInv
<1> QED
  BY <1>6, <1>7, <1>8, <1>9, <1>10 DEF FilesInv

-----------------------------------------------------------------------------

(* So is FilesInv, with the types of the messages.                         *)
THEOREM FilesInductive == Spec => []FilesInv
<1>1. FilesInv /\ IInv /\ [Next]_vars => FilesInv'
  <2> SUFFICES ASSUME FilesInv, Types, [Next]_vars PROVE FilesInv'
    BY DEF IInv
  <2>1. CASE TurnBegin
    BY <2>1, FilesBegin DEF TurnBegin
  <2>2. CASE TurnBlocked
    BY <2>2, FilesBegin DEF TurnBlocked, FilesInv, FileTypes
  <2>3. ASSUME NEW f \in Files, Edit(f) PROVE FilesInv'
    BY <2>3, FilesEdit
  <2>4. CASE TurnEnd
    BY <2>4, FilesSame DEF TurnEnd, storeVars, pastVars
  <2>5. CASE Save
    BY <2>5, FilesSame DEF Save, storeVars, pastVars
  <2>6. CASE Fold
    BY <2>6, FilesSame DEF Fold, storeVars, pastVars
  <2>7. ASSUME NEW t \in Numbers, Summarize(t) PROVE FilesInv'
    BY <2>7, FilesSame DEF Summarize, SaveAfter, storeVars, pastVars
  <2>8. ASSUME NEW t \in Numbers, NEW scope \in Scopes, NEW bad, Rewind(t, scope, bad)
        PROVE  FilesInv'
    BY <2>8, FilesRewind
  <2>9. CASE Restart
    BY <2>9, FilesRestart
  <2>10. CASE UNCHANGED vars
    BY <2>10, FilesSame DEF vars, storeVars, pastVars
  <2> QED
    BY <2>1, <2>2, <2>3, <2>4, <2>5, <2>6, <2>7, <2>8, <2>9, <2>10 DEF Next
<1> QED
  BY InitFiles, Inductive, <1>1, PTL DEF Spec

(* What RestoreCode makes of a sequence of checkpoints whose snapshots are *)
(* those of S, for a number of F.                                          *)
LEMMA RestoredIs ==
  ASSUME FileTypes, NumberInv, SnapInv, NEW cps \in Seq(Checkpoint), NEW S, NEW F, NEW t \in F,
         S = {cps[i] : i \in DOMAIN cps}, S \subseteq Memory, F \subseteq Firm,
         Steady(Touched(S), F, Kept, startFs, fs)
  PROVE  Restored(cps, t, {}) = startFs[t]
<1>1. t \in Numbers /\ t \in Kept /\ t \in Firm /\ Kept \subseteq Numbers
  BY Given
<1>2. ASSUME NEW f \in Files PROVE Restored(cps, t, {})[f] = startFs[t][f]
  <2>1. CASE Touching(cps, f, t) = {}
    <3>1. \A v \in Numbers : v >= t => v \notin Touched(S)[f]
      BY <2>1, InTouched DEF Touching
    <3>2. fs[f] = startFs[t][f]
      BY <3>1 DEF Steady
    <3> QED
      BY <2>1, <3>2 DEF Restored
  <2>2. CASE Touching(cps, f, t) # {}
    <3>. DEFINE e == Earliest(cps, f, t)
                d == cps[e]
    <3>1. e \in Touching(cps, f, t) /\ \A j \in Touching(cps, f, t) : d.turn <= cps[j].turn
      BY <1>1, <2>2, EarliestIs
    <3>2. d \in S /\ d.turn >= t /\ d.files[f] # Untouched
      BY <3>1 DEF Touching
    <3>3. d.turn \in Kept /\ d.turn \in Numbers
      BY <1>1, <3>2 DEF NumberInv
    <3>4. d.files[f] = startFs[d.turn][f]
      BY <1>1, <3>2, <3>3 DEF SnapInv, Numbers
    <3>5. ASSUME NEW v \in t..(d.turn - 1), v \in Touched(S)[f] PROVE FALSE
      <4>1. PICK i \in DOMAIN cps : cps[i].turn = v /\ cps[i].files[f] # Untouched
        BY <3>5, InTouched
      <4>2. v >= t /\ v < d.turn
        BY <1>1, <3>3 DEF Numbers
      <4>3. i \in Touching(cps, f, t)
        BY <4>1, <4>2 DEF Touching
      <4>4. d.turn <= v
        BY <3>1, <4>1, <4>3
      <4> QED
        BY <3>3, <4>2, <4>4 DEF Numbers
    <3>6. startFs[d.turn][f] = startFs[t][f]
      BY <3>2, <3>3, <3>5 DEF Steady
    <3>7. Restored(cps, t, {})[f] = d.files[f]
      BY <2>2 DEF Restored
    <3> QED
      BY <3>4, <3>6, <3>7
  <2> QED
    BY <2>1, <2>2
<1>3. startFs[t] \in [Files -> Contents]
  BY <1>1 DEF FileTypes
<1>4. Restored(cps, t, {}) = [f \in Files |-> Restored(cps, t, {})[f]]
  BY DEF Restored
<1> QED
  BY <1>2, <1>3, <1>4

LEMMA Restores ==
  ASSUME FilesInv
  PROVE  CodeIsRestored /\ DiskRestoresTheSame
<1>0. FileTypes /\ NumberInv /\ SnapInv /\ MemInv /\ DiskInv
  BY DEF FilesInv
<1>1. Taken(Checkpoints) = Kept /\ Stored \subseteq Memory /\ Safe \subseteq Firm
  BY <1>0, Given
<1>2. ASSUME NEW t \in Firm PROVE Restored(Checkpoints, t, {}) = startFs[t]
  <2>1. Checkpoints \in Seq(Checkpoint) /\ Memory = {Checkpoints[i] : i \in DOMAIN Checkpoints}
    BY <1>0, MemoryIs
  <2> QED
    BY <1>0, <2>1, RestoredIs DEF MemInv
<1>3. ASSUME NEW t \in Safe PROVE Restored(OnDisk, t, {}) = startFs[t]
  <2>1. PICK n \in 0..MaxTurns : Kept = 0..(n - 1)
    BY <1>0 DEF NumberInv
  <2>2. /\ OnDisk \in Seq(Checkpoint) /\ Len(OnDisk) = n
        /\ \A i \in 1..n : OnDisk[i] = disk[i - 1][1]
    BY <1>0, <2>1, OnDiskIs
  <2>3. Stored = {OnDisk[i] : i \in DOMAIN OnDisk}
    <3>1. DOMAIN OnDisk = 1..n
      BY <2>2
    <3>2. \A i \in 1..n : OnDisk[i] \in Stored
      <4>1. \A i \in 1..n : i - 1 \in Kept
        BY <2>1
      <4> QED
        BY <2>2, <4>1 DEF Stored
    <3>3. \A u \in Kept : \E i \in 1..n : OnDisk[i] = disk[u][1]
      <4> TAKE u \in Kept
      <4>1. u + 1 \in 1..n /\ (u + 1) - 1 = u
        BY <2>1
      <4> QED
        BY <2>2, <4>1
    <3>4. ASSUME NEW d \in Stored PROVE \E i \in 1..n : d = OnDisk[i]
      BY <3>3 DEF Stored
    <3> QED
      BY <3>1, <3>2, <3>4
  <2> QED
    BY <1>0, <1>1, <2>2, <2>3, RestoredIs DEF DiskInv
<1> QED
  BY <1>1, <1>2, <1>3 DEF CodeIsRestored, DiskRestoresTheSame, Firm, Safe

(* A rewind of the code puts every file back as it was when the turn       *)
(* began, but for the numbers that were gone back beyond or given again.   *)
THEOREM CodeComesBack == Spec => []CodeIsRestored
BY FilesInductive, Restores, PTL

(* A restart finds checkpoints that restore the same files, and the same   *)
(* boundaries.                                                             *)
THEOREM RestartKeepsAll == Spec => []RestartChangesNothing
<1>1. FilesInv /\ IInv => RestartChangesNothing
  BY Restores DEF RestartChangesNothing, IInv
<1> QED
  BY FilesInductive, Inductive, <1>1, PTL


(* The variables keep their types.                                         *)
THEOREM TypeCorrect == Spec => []TypeOK
<1>1. FilesInv /\ IInv => TypeOK
  <2> SUFFICES ASSUME FilesInv, IInv PROVE TypeOK
    OBVIOUS
  <2>1. FileTypes /\ Types
    BY DEF FilesInv, IInv
  <2> QED
    BY <2>1, MemoryIs DEF FileTypes, Types, Messages, TypeOK
<1> QED
  BY FilesInductive, Inductive, <1>1, PTL
=============================================================================
