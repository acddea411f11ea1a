---------------------------- MODULE WireHistory -----------------------------
(***************************************************************************)
(* The repair of a conversation history (internal/provider/normalize.go,   *)
(* and pairToolResults in provider.go): what is sent to a provider, and    *)
(* what a session file is loaded as.                                       *)
(*                                                                         *)
(* A message has a role, a number that stands for what it says, the tool   *)
(* calls it makes and the call it answers.  Of a name it is kept whether   *)
(* there is one, of a call's arguments whether they were cut off; closing  *)
(* the JSON of arguments always gives valid JSON.                          *)
(***************************************************************************)
EXTENDS Integers, Sequences, SequencesExt

NoId == 0

Message(role, n) ==
  [role |-> role, n |-> n, calls |-> <<>>, to |-> NoId, named |-> FALSE,
   text |-> "brief", tells |-> {}]

Result(c, n) == [Message("tool", n) EXCEPT !.to = c.id, !.named = c.named]

\* interruptedToolResult: it says nothing.
Placeholder(c) == Result(c, 0)

\* The elements of s that are in S, in their order.
Only(s, S) == FlattenSeq([i \in DOMAIN s |-> IF s[i] \in S THEN <<s[i]>> ELSE <<>>])

IsTool(m) == m.role = "tool"
Asks(m) == m.role = "assistant" /\ m.calls # <<>>

IdDistinct(calls) ==
  \A k \in DOMAIN calls :
    calls[k].id # NoId /\ \A l \in DOMAIN calls : calls[l].id = calls[k].id => l = k

\* The end of the run of tool messages that follows msgs[i].
RunEnd(msgs, i) ==
  CHOOSE j \in i..Len(msgs) :
    /\ \A k \in (i + 1)..j : IsTool(msgs[k])
    /\ j = Len(msgs) \/ ~IsTool(msgs[j + 1])

Results(msgs, i) == SubSeq(msgs, i + 1, RunEnd(msgs, i))

\* The tool message follows, in such a run, an assistant turn that asks.
Claimed(msgs, i) == \E a \in 1..(i - 1) : Asks(msgs[a]) /\ i <= RunEnd(msgs, a)

-----------------------------------------------------------------------------
(* Repairs of one assistant turn.                                          *)

(* backfillToolCallNames: a missing name is that of the result with the    *)
(* call's id, or, when ids do not tell calls apart, of the one in its      *)
(* place.                                                                  *)
NameKnown(calls, results, k) ==
  \/ calls[k].named
  \/ /\ IdDistinct(calls)
     /\ \E r \in Range(results) : r.to = calls[k].id /\ r.named
  \/ /\ ~IdDistinct(calls)
     /\ k <= Len(results) /\ results[k].named

BackfillToolCallNames(calls, results) ==
  [k \in DOMAIN calls |-> [calls[k] EXCEPT !.named = NameKnown(calls, results, k)]]

(* repairToolCallArgs, closeTruncatedJSON.                                 *)
RepairToolCallArgs(calls) == [k \in DOMAIN calls |-> [calls[k] EXCEPT !.cut = FALSE]]

Answers(avail, c) == {i \in DOMAIN avail : avail[i].to = c.id}

PairById(calls, avail) ==
  [k \in DOMAIN calls |->
     LET found == Answers(avail, calls[k])
     IN IF found = {} THEN Placeholder(calls[k])
        ELSE avail[CHOOSE i \in found : \A j \in found : j <= i]]

PairByPlace(calls, avail) ==
  [k \in DOMAIN calls |->
     IF k <= Len(avail) THEN [avail[k] EXCEPT !.to = calls[k].id]
     ELSE Placeholder(calls[k])]

(* pairToolResults: one result for each call, in the order of the calls.   *)
PairToolResults(calls, avail) ==
  IF IdDistinct(calls) THEN PairById(calls, avail) ELSE PairByPlace(calls, avail)

Unanswered(calls, avail) ==
  IF IdDistinct(calls)
  THEN Only(calls, {c \in Range(calls) : Answers(avail, c) = {}})
  ELSE SubSeq(calls, Len(avail) + 1, Len(calls))

(* sessionToolResults: every stored result, then what was never answered.  *)
SessionToolResults(calls, avail) ==
  avail \o [k \in DOMAIN Unanswered(calls, avail) |-> Placeholder(Unanswered(calls, avail)[k])]

-----------------------------------------------------------------------------
(* Repairs of a history.                                                   *)

ToolTurnWellFormed(calls, results) ==
  /\ Len(calls) = Len(results)
  /\ \A k \in DOMAIN calls : calls[k].named /\ results[k].to = calls[k].id

(* tryNormalizeFastPath, with needsToolCallArgRepair.                      *)
FastPath(msgs, dropOrphans) ==
  \A i \in DOMAIN msgs :
    /\ Asks(msgs[i]) => /\ ToolTurnWellFormed(msgs[i].calls, Results(msgs, i))
                        /\ \A c \in Range(msgs[i].calls) : ~c.cut
    /\ IsTool(msgs[i]) /\ dropOrphans => Claimed(msgs, i)

RepairedTurn(msgs, i, dropOrphans) ==
  LET results == Results(msgs, i)
      calls == RepairToolCallArgs(BackfillToolCallNames(msgs[i].calls, results))
  IN <<[msgs[i] EXCEPT !.calls = calls]>> \o
       (IF dropOrphans THEN PairToolResults(calls, results)
        ELSE SessionToolResults(calls, results))

Repaired(msgs, i, dropOrphans) ==
  IF Asks(msgs[i]) THEN RepairedTurn(msgs, i, dropOrphans)
  ELSE IF IsTool(msgs[i]) /\ (dropOrphans \/ Claimed(msgs, i)) THEN <<>>
  ELSE <<msgs[i]>>

SlowPath(msgs, dropOrphans) ==
  FlattenSeq([i \in DOMAIN msgs |-> Repaired(msgs, i, dropOrphans)])

Normalize(msgs, dropOrphans) ==
  IF FastPath(msgs, dropOrphans) THEN msgs ELSE SlowPath(msgs, dropOrphans)

(* SanitizeToolPairing, before a request; NormalizeSession, after a load.  *)
Wire(msgs)   == Normalize(msgs, TRUE)
Stored(msgs) == Normalize(msgs, FALSE)

-----------------------------------------------------------------------------

\* Every call has its answer in its place, and every answer its call.
Whole(msgs) ==
  \A i \in DOMAIN msgs :
    /\ Asks(msgs[i]) =>
         /\ Len(Results(msgs, i)) = Len(msgs[i].calls)
         /\ \A k \in DOMAIN msgs[i].calls : Results(msgs, i)[k].to = msgs[i].calls[k].id
    /\ IsTool(msgs[i]) => Claimed(msgs, i)

=============================================================================
