---------------------------- MODULE ChapterPlan ----------------------------
(***************************************************************************)
(* How a chat is cut into chapters (src/application/summarization/         *)
(* chapters.py).  plan_chapters walks the chat in creation order, cuts it  *)
(* at every message that is already archived or claimed by a summary, and  *)
(* fills each chapter greedily up to chunk_tokens; a single message larger *)
(* than that becomes a chapter of its own.                                 *)
(*                                                                         *)
(* A message is a record [id, free, tokens]: free is _is_summarizable,     *)
(* tokens is _line_tokens (0 for a failed message, whose line is empty).   *)
(* The argument is already sorted by (created_at, id).                     *)
(***************************************************************************)
EXTENDS Integers, Sequences, SequencesExt

\* What the loop carries: the chapters closed so far, the one being filled
\* and its size.
EmptyPlan == [done |-> <<>>, chunk |-> <<>>, size |-> 0]

\* _to_planned of the current chunk, when there is one.
CloseChunk(acc) ==
  IF acc.chunk = <<>> THEN acc.done ELSE Append(acc.done, acc.chunk)

StartChunk(acc, m) ==
  [done |-> CloseChunk(acc), chunk |-> <<m.id>>, size |-> m.tokens]

\* The form of ExtendPlan that forgets to reset the size with the chunk.
ExtendPlanNoReset(acc, m, limit) ==
  IF ~m.free
  THEN [EmptyPlan EXCEPT !.done = CloseChunk(acc)]
  ELSE IF acc.chunk # <<>> /\ acc.size + m.tokens > limit
       THEN [StartChunk(acc, m) EXCEPT !.size = acc.size + m.tokens]
       ELSE [acc EXCEPT !.chunk = Append(@, m.id), !.size = @ + m.tokens]

ExtendPlan(acc, m, limit) ==
  IF ~m.free
  THEN [EmptyPlan EXCEPT !.done = CloseChunk(acc)]
  ELSE IF acc.chunk # <<>> /\ acc.size + m.tokens > limit
       THEN StartChunk(acc, m)
       ELSE [acc EXCEPT !.chunk = Append(@, m.id), !.size = @ + m.tokens]

\* What the loop carries after each message of the chat.
Planning(ms, limit) ==
  LET acc[n \in 0..Len(ms)] ==
        IF n = 0 THEN EmptyPlan ELSE ExtendPlan(acc[n - 1], ms[n], limit)
  IN acc

\* The form of PlanChapters that forgets the chapter being filled at the end.
PlanWithoutTail(ms, limit) == Planning(ms, limit)[Len(ms)].done

\* plan_chapters: the chapters in chat order, each the sequence of its ids.
PlanChapters(ms, limit) == CloseChunk(Planning(ms, limit)[Len(ms)])

\* claim_messages: the messages of a chapter are no longer free.
Claimed(ms, chapter) ==
  [k \in DOMAIN ms |->
     IF ms[k].id \in ToSet(chapter) THEN [ms[k] EXCEPT !.free = FALSE] ELSE ms[k]]

-----------------------------------------------------------------------------
(* What a plan should be.  cuts gives the first and the last position of   *)
(* each chapter.                                                           *)

TokensUpTo(ms) ==
  LET sum[n \in 0..Len(ms)] == IF n = 0 THEN 0 ELSE sum[n - 1] + ms[n].tokens
  IN sum

SizeOf(ms, cut) == TokensUpTo(ms)[cut.last] - TokensUpTo(ms)[cut.first - 1]

\* A chapter has no gap: it is never planned across a message that is already
\* archived or claimed, since its recap stands at one place of the chat.
IdsOf(ms, cut) == [k \in 1..(cut.last - cut.first + 1) |-> ms[cut.first + k - 1].id]

Chapters(ms, cuts) == [i \in DOMAIN cuts |-> IdsOf(ms, cuts[i])]

\* Every free message of the first n is in exactly one chapter, in the order
\* of the chat, and no other message is in any.
FreeMessagesOnce(ms, cuts, n) ==
  /\ \A i \in DOMAIN cuts : 1 <= cuts[i].first /\ cuts[i].first <= cuts[i].last /\ cuts[i].last <= n
  /\ \A i, j \in DOMAIN cuts : i < j => cuts[i].last < cuts[j].first
  /\ \A k \in 1..n : ms[k].free <=> \E i \in DOMAIN cuts : k \in cuts[i].first..cuts[i].last

\* A chapter fits the chunk size unless it is one oversized message.
ChaptersFit(ms, cuts, limit) ==
  \A i \in DOMAIN cuts : SizeOf(ms, cuts[i]) <= limit \/ cuts[i].first = cuts[i].last

\* Nothing is cut too early: where one chapter follows another without a
\* gap, its first message did not fit the one before any more.
ChaptersAreFull(ms, cuts, limit) ==
  \A i, j \in DOMAIN cuts :
    cuts[j].first = cuts[i].last + 1 => SizeOf(ms, cuts[i]) + ms[cuts[j].first].tokens > limit

\* The greedy partition of the first n messages: these three leave it no
\* choice.
IsPartition(ms, cuts, limit, n) ==
  FreeMessagesOnce(ms, cuts, n) /\ ChaptersFit(ms, cuts, limit) /\ ChaptersAreFull(ms, cuts, limit)
=============================================================================
