--------------------------- MODULE PromptHistory ---------------------------
(***************************************************************************)
(* What a model is shown of a chat (LLMChatsService._load_history in       *)
(* src/application/chats/llm_service.py): one query reads the messages     *)
(* that are not archived, a later one the COMPLETED summaries, and         *)
(* _merge_history puts each recap in the place of its chapter.  The two    *)
(* queries share no snapshot, so messages come and go and summaries end    *)
(* between them.  What happens to the rows meanwhile is the ledger.        *)
(*                                                                         *)
(* A message is its created_at.  Rows need not appear in that order: it is *)
(* the start of the transaction that writes them (server_default now()).   *)
(* Abstracted: the limit of the page, MAX_SEARCH_LIMIT = 100000 messages.  *)
(***************************************************************************)
EXTENDS ChapterLedger, Sorting, FiniteSetsExt

CONSTANTS
  Loaders,    \* requests that may assemble a prompt at the same time
  MaxDeleted  \* bounds a run: messages that are deleted

ASSUME CreatedAtAssumption == Messages \in SUBSET Nat

VARIABLES
  span,     \* covered_from_at and covered_until_at of a summary
  load,     \* the requests in progress
  late      \* auxiliary: messages that appeared after a newer one

promptVars == <<span, load, late>>
allVars == <<vars, promptVars>>

\* asked and before are auxiliary: the messages and the finished summaries
\* there were at the first query.
Load == [pc : {"idle", "page", "done"},
         page : SUBSET Messages,      \* the unarchived messages, as read
         recaps : SUBSET Summaries,   \* the COMPLETED summaries, as read
         asked : SUBSET Messages,
         before : SUBSET Summaries]

NoLoad == [pc |-> "idle", page |-> {}, recaps |-> {}, asked |-> {}, before |-> {}]

Span == [from : Messages, until : Messages]

\* The columns and the local variables of the requests; a summary that has
\* not been opened has no span yet.
PromptTypeOK ==
  /\ LedgerTypeOK
  /\ \A s \in Summaries : phase[s] # "new" => span[s] \in Span
  /\ load \in [Loaders -> Load]
  /\ late \in SUBSET Messages

PromptInit ==
  /\ Init
  /\ span = [s \in Summaries |-> [from |-> 0, until |-> 0]]
  /\ load = [l \in Loaders |-> NoLoad]
  /\ late = {}

Kept == {s \in Summaries : phase[s] = "kept"}

-----------------------------------------------------------------------------
(* The chat goes on.                                                       *)

AddMessage(m) ==
  /\ Write(m)
  /\ late' = IF \E n \in Messages \ unwritten : n > m THEN late \cup {m} ELSE late
  /\ UNCHANGED <<span, load>>

DeleteMessage(m) ==
  /\ Cardinality(Messages \ (unwritten \cup present)) < MaxDeleted
  /\ Delete(m)
  /\ UNCHANGED promptVars

\* The form of SpanOf whose end is the first moment after the chapter.
SpanHalfOpen(chapter) == [from |-> Min(chapter), until |-> Max(chapter) + 1]

SpanOf(chapter) == [from |-> Min(chapter), until |-> Max(chapter)]

\* A chapter is a run of messages next to each other (ChapterPlan checks
\* that); its summary keeps the times of the first and the last one.
OpenChapters(S) ==
  /\ Open(S)
  /\ \A s \in S : LET chapter == {m \in present : holder'[m] = s} IN
       /\ chapter # {}
       /\ \A m \in present \ chapter : m < Min(chapter) \/ m > Max(chapter)
  /\ span' = [s \in Summaries |->
                IF s \in S THEN SpanOf({m \in present : holder'[m] = s}) ELSE span[s]]
  /\ UNCHANGED <<load, late>>

Complete(s) == Seal(s) /\ UNCHANGED promptVars

Fail(S) == GiveUp(S) /\ UNCHANGED promptVars

-----------------------------------------------------------------------------
(* A prompt is put together.                                               *)

\* The form of LiveMessages that takes a claimed message for an archived one.
LiveUnclaimed == FreeMessages

\* What _search_history selects.
LiveMessages == present \ sealed

ReadPage(l) ==
  /\ load[l].pc = "idle"
  /\ load' = [load EXCEPT ![l] =
       [pc |-> "page", page |-> LiveMessages, recaps |-> {},
        asked |-> present, before |-> Kept]]
  /\ UNCHANGED <<vars, span, late>>

ReadRecaps(l) ==
  /\ load[l].pc = "page"
  /\ load' = [load EXCEPT ![l].pc = "done", ![l].recaps = Kept]
  /\ UNCHANGED <<vars, span, late>>

\* The prompt is used and forgotten.
Use(l) ==
  /\ load[l].pc = "done"
  /\ load' = [load EXCEPT ![l] = NoLoad]
  /\ UNCHANGED <<vars, span, late>>

PromptNext ==
  \/ \E m \in Messages : AddMessage(m) \/ DeleteMessage(m)
  \/ \E S \in SUBSET Summaries : OpenChapters(S) \/ Fail(S)
  \/ \E s \in Summaries : Complete(s)
  \/ \E l \in Loaders : ReadPage(l) \/ ReadRecaps(l) \/ Use(l)

PromptSpec == PromptInit /\ [][PromptNext]_allVars

-----------------------------------------------------------------------------
(* _merge_history.  An entry of the prompt is a message or a recap.        *)

Verbatim(m) == [kind |-> "message", of |-> m]
Recap(s) == [kind |-> "recap", of |-> s]

\* sorted(summaries, key=lambda s: s.covered_from_at).
InChapterOrder(recaps) == SortedBy(recaps, [s \in recaps |-> span[s].from])

InTimeOrder(page) == SortedBy(page, [m \in page |-> m])

\* The form of Due with an if in the place of the while.
DueOne(waiting, taken, m) ==
  IF taken < Len(waiting) /\ span[waiting[taken + 1]].until < m THEN taken + 1 ELSE taken

\* next_recap where the while loop before message m stops: at the first recap
\* whose chapter does not end before m, or when none is left.
Due(waiting, taken, m) ==
  Min({n \in taken .. Len(waiting) : n = Len(waiting) \/ span[waiting[n + 1]].until >= m})

RecapsFrom(waiting, first, last) ==
  [k \in 1 .. (last - first) |-> Recap(waiting[first + k])]

MergeStep(acc, waiting, m) ==
  LET due == Due(waiting, acc.taken, m) IN
  [merged |-> acc.merged \o RecapsFrom(waiting, acc.taken, due) \o <<Verbatim(m)>>,
   taken |-> due]

\* What the for loop has after each message.
Merging(messages, waiting) ==
  LET acc[n \in 0 .. Len(messages)] ==
        IF n = 0 THEN [merged |-> <<>>, taken |-> 0]
        ELSE MergeStep(acc[n - 1], waiting, messages[n])
  IN acc

MergeHistory(page, recaps) ==
  LET messages == InTimeOrder(page)
      waiting == InChapterOrder(recaps)
      end == Merging(messages, waiting)[Len(messages)]
  IN  end.merged \o RecapsFrom(waiting, end.taken, Len(waiting))

Prompt(l) == MergeHistory(load[l].page, load[l].recaps)

-----------------------------------------------------------------------------
\* A message that was in the chat when the prompt was begun is in it, word
\* for word or in a recap, whatever ends, starts or is deleted meanwhile:
\* the archived flag is read first, so a summary that completes in between
\* is there in the second query.
PromptMissesNothing ==
  \A l \in Loaders : load[l].pc = "done" =>
    \A m \in load[l].asked :
      m \in load[l].page \/ \E s \in load[l].recaps : m \in told[s]

\* A prompt tells a message twice only if its summary completed between the
\* two queries, and never in two recaps while it is in the chat.
TwiceOnlyInRace ==
  \A l \in Loaders : load[l].pc = "done" =>
    \A s \in load[l].recaps :
      /\ \A m \in load[l].page \cap told[s] : s \notin load[l].before
      /\ \A m \in present \cap told[s] :
           \A r \in load[l].recaps : m \in told[r] => r = s

\* What the two unsynchronised queries of _load_history give together: nothing
\* is missing, and a repetition has its one harmless cause.
PromptTells == PromptMissesNothing /\ TwiceOnlyInRace

\* A prompt is in the order of the chat: every message before the recaps of
\* later chapters and after those of earlier ones, apart from messages that
\* appeared late, are deleted by now or whose summary has just completed.
PromptInOrder ==
  \A l \in Loaders : load[l].pc = "done" =>
    LET prompt == Prompt(l) IN
    \A i, j \in DOMAIN prompt :
      (prompt[i].kind = "message" /\ prompt[j].kind = "recap") =>
        LET m == prompt[i].of
            s == prompt[j].of
        IN  /\ m < span[s].from => i < j
            /\ ( /\ m > span[s].until
                 /\ m \in present \ late
                 /\ \A r \in load[l].recaps : m \notin told[r] ) => j < i
=============================================================================
