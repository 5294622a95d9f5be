--------------------------- MODULE Summarization ---------------------------
(***************************************************************************)
(* Summarization of one chat (src/application/summarization/service.py on  *)
(* top of src/infrastructure/repositories/summary_repository.py).  The     *)
(* user picks planned chapters; each becomes a QUEUED summary that claims  *)
(* its messages; one summary at a time is dispatched to scripulya_agent;   *)
(* its result archives the messages (the prompt then carries the recap     *)
(* instead) or its failure releases them.                                  *)
(*                                                                         *)
(* Every handler (an HTTP request, or a delivery from the result queue)    *)
(* runs in a task.  A step of a task ends at a commit or at an await       *)
(* another handler can use: everything between two such points is one      *)
(* action.  A unit of work commits atomically, so it is one action.        *)
(***************************************************************************)
EXTENDS ChapterPlan, FiniteSets, FiniteSetsExt

CONSTANTS
  Messages,     \* ids of the chat's messages, in creation order
  Tokens,       \* [Messages -> Nat]: tokens of each message's transcript line
  ChunkTokens,  \* SUMMARY_CHUNK_TOKENS
  Summaries,    \* ids of chat_summaries rows; their number bounds a run
  NoSummary,    \* a NULL messages.summary_id
  Tasks,        \* handlers that may run at the same time
  Scenarios     \* the sets of faults to look at, see FaultKinds

(***************************************************************************)
(* "confirm"   a publish whose confirmation times out although the broker  *)
(*             took the message                                            *)
(* "redeliver" RabbitMQ hands a request or a result out again while the    *)
(*             first delivery is still being worked on                     *)
(* "overlap"   the pending timeout elapses while a handler is in the       *)
(*             middle of the same summary                                  *)
(* "error"     a handler ends with an exception, its unit of work rolled   *)
(*             back (the database is away, the chat is gone)               *)
(* "crash"     the backend process dies                                    *)
(***************************************************************************)
FaultKinds == {"confirm", "redeliver", "overlap", "error", "crash"}

ASSUME MessagesAssumption == Messages \in SUBSET Nat /\ IsFiniteSet(Messages)
ASSUME TokensAssumption == Tokens \in [Messages -> Nat] /\ ChunkTokens \in Nat
ASSUME NoSummaryAssumption == NoSummary \notin Summaries
ASSUME TasksAssumption == IsFiniteSet(Tasks)
ASSUME ScenariosAssumption == Scenarios \subseteq SUBSET FaultKinds

VARIABLES
  scene,      \* the chat still has its scene (chats.scene_id IS NOT NULL)
  unsent,     \* messages not written yet
  exists,     \* rows of messages
  summaryOf,  \* messages.summary_id
  archived,   \* messages.is_archived
  status,     \* chat_summaries.status; "absent" before the row exists
  covers,     \* the messages the chapter was planned from
  recap,      \* the messages the stored content was written from
  edited,     \* summaries whose content is the user's own text
  requests,   \* SUMMARY_AGENT_REQUEST_QUEUE
  results,    \* SUMMARY_AGENT_RESULT_QUEUE
  task,       \* the handlers in progress
  faults      \* what may go wrong in this behaviour; it never changes

chatVars == <<scene, unsent, exists, faults>>
summaryVars == <<covers, recap, edited>>
queueVars == <<requests, results>>
vars == <<chatVars, summaryOf, archived, status, summaryVars, queueVars, task>>

-----------------------------------------------------------------------------
\* The form of Statuses whose enum lacks FAILED.
StatusesNoFailed == {"absent", "queued", "pending", "completed"}

Statuses == {"absent", "queued", "pending", "completed", "failed"}
Active == {"queued", "pending"}
Terminal == {"completed", "failed"}

Request == [sum : Summaries, source : SUBSET Messages]
Result == [sum : Summaries, source : SUBSET Messages, ok : BOOLEAN]

(***************************************************************************)
(* Where a handler stands: "plan" before list_source_messages, "claim"     *)
(* before the unit of work of summarize, "pump" before                     *)
(* dispatch_next_queued, "locked" between its UPDATE and its commit,       *)
(* "build" before _build_request, "submit" before gateway.submit, "refuse" *)
(* before the unit of work of _fail_dispatch, "handle" before              *)
(* handle_result reads the row, "write" before its unit of work, "edit"    *)
(* between update's check and its unit of work.  next is what follows the  *)
(* pump; unacked the delivery RabbitMQ has not been told about.            *)
(***************************************************************************)
Pcs == {"idle", "plan", "claim", "pump", "locked", "build", "submit",
        "refuse", "handle", "write", "edit"}

Task == [pc : Pcs,
         sum : Summaries \cup {NoSummary},
         source : SUBSET Messages,
         ok : BOOLEAN,
         chapters : SUBSET SUBSET Messages,
         next : {"idle", "plan"},
         unacked : SUBSET Result]

Idle == [pc |-> "idle", sum |-> NoSummary, source |-> {}, ok |-> FALSE,
         chapters |-> {}, next |-> "idle", unacked |-> {}]

\* One type invariant: every column, queue and handler holds what its
\* declaration says.
TypeOK ==
  /\ scene \in BOOLEAN
  /\ unsent \in SUBSET Messages
  /\ exists \in SUBSET Messages
  /\ summaryOf \in [Messages -> Summaries \cup {NoSummary}]
  /\ archived \in SUBSET Messages
  /\ status \in [Summaries -> Statuses]
  /\ covers \in [Summaries -> SUBSET Messages]
  /\ recap \in [Summaries -> SUBSET Messages]
  /\ edited \in SUBSET Summaries
  /\ requests \in SUBSET Request
  /\ results \in SUBSET Result
  /\ task \in [Tasks -> Task]
  /\ faults \in Scenarios

Init ==
  /\ scene = TRUE
  /\ unsent = Messages
  /\ exists = {}
  /\ summaryOf = [m \in Messages |-> NoSummary]
  /\ archived = {}
  /\ status = [s \in Summaries |-> "absent"]
  /\ covers = [s \in Summaries |-> {}]
  /\ recap = [s \in Summaries |-> {}]
  /\ edited = {}
  /\ requests = {}
  /\ results = {}
  /\ task = [t \in Tasks |-> Idle]
  /\ faults \in Scenarios

-----------------------------------------------------------------------------
WithStatus(st) == {s \in Summaries : status[s] = st}
Pending == WithStatus("pending")
Queued == WithStatus("queued")

\* _is_summarizable
Free(m) == m \notin archived /\ summaryOf[m] = NoSummary

\* _plan: the chapters on offer, as sets of messages.
Planned ==
  LET ordered == SetToSortSeq(exists, <)
      source == [i \in 1..Len(ordered) |->
                   [id |-> ordered[i], free |-> Free(ordered[i]),
                    tokens |-> Tokens[ordered[i]]]]
      plan == PlanChapters(source, ChunkTokens)
  IN {c \in SUBSET exists : \E i \in 1..Len(plan) : c = ToSet(plan[i])}

\* The form of Released that also releases archived messages.
ReleasedWithArchived(S) ==
  [m \in Messages |-> IF summaryOf[m] \in S THEN NoSummary ELSE summaryOf[m]]

\* release_messages of every summary of S: only what is not archived.
Released(S) ==
  [m \in Messages |-> IF summaryOf[m] \in S /\ m \notin archived
                      THEN NoSummary ELSE summaryOf[m]]

\* The form of ArchivedBy that archives by range instead of by claim.
ArchivedUpTo(s) == archived \cup {m \in exists : \E k \in covers[s] : m <= k}

\* archive_messages
ArchivedBy(s) == archived \cup {m \in exists : summaryOf[m] = s}

\* The next thing a handler does once its pump is over; a delivery is
\* acknowledged when its handler returns.
AfterPump(t) == IF task[t].next = "plan" THEN [Idle EXCEPT !.pc = "plan"] ELSE Idle

\* The handler goes on to _pump.
ToPump(t) == [Idle EXCEPT !.pc = "pump", !.next = task[t].next,
                          !.unacked = task[t].unacked]

Become(t, r) == task' = [task EXCEPT ![t] = r]

-----------------------------------------------------------------------------
(* The chat around the summaries.                                          *)

\* MessageGateway.create: a user or model message is appended.
NewMessage(m) ==
  /\ m \in unsent
  /\ \A k \in unsent : m <= k
  /\ unsent' = unsent \ {m}
  /\ exists' = exists \cup {m}
  /\ UNCHANGED <<scene, summaryOf, archived, status, summaryVars, queueVars, task, faults>>

\* MessageService.delete: any message of a writable chat, claimed, archived
\* or not.
DeleteMessage(m) ==
  /\ scene
  /\ m \in exists
  /\ exists' = exists \ {m}
  /\ archived' = archived \ {m}
  /\ summaryOf' = [summaryOf EXCEPT ![m] = NoSummary]
  /\ UNCHANGED <<scene, unsent, status, summaryVars, queueVars, task, faults>>

\* The scene is deleted (chats.scene_id ON DELETE SET NULL): read-only chat.
DropScene ==
  /\ scene
  /\ scene' = FALSE
  /\ UNCHANGED <<unsent, exists, summaryOf, archived, status, summaryVars, queueVars, task, faults>>

-----------------------------------------------------------------------------
(* Requests of the user.                                                   *)

\* The timeout of every summary of S has elapsed.  Without "overlap" no
\* handler is working on one of them at that moment.
MayExpire(S) ==
  /\ S \subseteq Pending
  /\ "overlap" \in faults \/ \A u \in Tasks : task[u].sum \notin S

\* The form of ExpireStale that does not pump.
ExpireNoPump(t, S, next) ==
  /\ S # {}
  /\ MayExpire(S)
  /\ status' = [s \in Summaries |-> IF s \in S THEN "failed" ELSE status[s]]
  /\ summaryOf' = Released(S)
  /\ Become(t, [Idle EXCEPT !.pc = next])
  /\ UNCHANGED <<chatVars, archived, summaryVars, queueVars>>

\* _expire_stale when expire_pending returned S.
ExpireStale(t, S, next) ==
  /\ S # {}
  /\ MayExpire(S)
  /\ status' = [s \in Summaries |-> IF s \in S THEN "failed" ELSE status[s]]
  /\ summaryOf' = Released(S)
  /\ Become(t, [Idle EXCEPT !.pc = "pump", !.next = next])
  /\ UNCHANGED <<chatVars, archived, summaryVars, queueVars>>

\* list_chapters, get_status and search: they write nothing but what
\* _expire_stale writes.
Poll(t) ==
  /\ task[t].pc = "idle"
  /\ \E S \in SUBSET Pending : ExpireStale(t, S, "idle")

\* summarize up to its own _expire_stale.
Summarize(t) ==
  /\ task[t].pc = "idle"
  /\ scene
  /\ \/ \E S \in SUBSET Pending : ExpireStale(t, S, "plan")
     \/ /\ Become(t, [Idle EXCEPT !.pc = "plan"])
        /\ UNCHANGED <<chatVars, summaryOf, archived, status, summaryVars, queueVars>>

\* summarize reads the chat and matches the requested ranges with the plan;
\* a range that is not planned any more is refused (409).
PlanChosen(t) ==
  /\ task[t].pc = "plan"
  /\ \/ Become(t, Idle)
     \/ \E chosen \in SUBSET Planned \ {{}} :
          /\ Cardinality(chosen) <= Cardinality(WithStatus("absent"))
          /\ Become(t, [Idle EXCEPT !.pc = "claim", !.chapters = chosen])
  /\ UNCHANGED <<chatVars, summaryOf, archived, status, summaryVars, queueVars>>

\* claim_messages changes as many rows as the chapter has messages, for
\* every chapter of the request: a row counts when it exists, is not
\* archived and has no summary, and for one chapter only.
Claimable(chapters) ==
  /\ \A c \in chapters : c \subseteq exists /\ \A m \in c : Free(m)
  /\ \A c, d \in chapters : c # d => c \cap d = {}

\* summarize's unit of work succeeds: one QUEUED row per chapter.
Claim(t) ==
  LET chapters == task[t].chapters IN
  /\ task[t].pc = "claim"
  /\ Claimable(chapters)
  /\ \E row \in [chapters -> WithStatus("absent")] :
       /\ \A c, d \in chapters : c # d => row[c] # row[d]
       /\ status' = [s \in Summaries |->
                       IF \E c \in chapters : row[c] = s THEN "queued" ELSE status[s]]
       /\ covers' = [s \in Summaries |->
                       IF \E c \in chapters : row[c] = s
                       THEN CHOOSE c \in chapters : row[c] = s ELSE covers[s]]
       /\ summaryOf' = [m \in Messages |->
                       IF \E c \in chapters : m \in c
                       THEN row[CHOOSE c \in chapters : m \in c] ELSE summaryOf[m]]
  /\ Become(t, ToPump(t))
  /\ UNCHANGED <<chatVars, archived, recap, edited, queueVars>>

\* A claim came up short: SummaryChapterStaleException rolls everything back.
ClaimStale(t) ==
  /\ task[t].pc = "claim"
  /\ ~Claimable(task[t].chapters)
  /\ Become(t, Idle)
  /\ UNCHANGED <<chatVars, summaryOf, archived, status, summaryVars, queueVars>>

\* update: the row is COMPLETED when it is read ...
EditCheck(t, s) ==
  /\ task[t].pc = "idle"
  /\ status[s] = "completed"
  /\ Become(t, [Idle EXCEPT !.pc = "edit", !.sum = s])
  /\ UNCHANGED <<chatVars, summaryOf, archived, status, summaryVars, queueVars>>

\* ... and update_content writes by id, whatever the status is by then.
EditWrite(t) ==
  /\ task[t].pc = "edit"
  /\ edited' = edited \cup {task[t].sum}
  /\ Become(t, Idle)
  /\ UNCHANGED <<chatVars, summaryOf, archived, status, covers, recap, queueVars>>

-----------------------------------------------------------------------------
(* _pump: dispatch, build the request, submit it.                          *)

Locked == {s \in Summaries : \E u \in Tasks : task[u].pc = "locked" /\ task[u].sum = s}

\* ORDER BY covered_from_at LIMIT 1
IsOldest(s, S) == \A r \in S : Min(covers[s]) <= Min(covers[r])

\* The form of Dispatchable that drops "no summary of the chat is PENDING".
DispatchableAny == Queued \ Locked

\* The rows the SELECT ... FOR UPDATE SKIP LOCKED of dispatch_next_queued may
\* return: QUEUED, not locked by another transaction, in a chat the statement
\* sees no PENDING row of (an uncommitted dispatch is not seen).
Dispatchable == IF Pending = {} THEN Queued \ Locked ELSE {}

\* dispatch_next_queued updates the oldest such row; _pump ends when there is
\* none.
DispatchSelect(t) ==
  /\ task[t].pc = "pump"
  /\ \/ /\ Dispatchable = {}
        /\ Become(t, AfterPump(t))
     \/ \E s \in Dispatchable :
          /\ IsOldest(s, Dispatchable)
          /\ Become(t, [ToPump(t) EXCEPT !.pc = "locked", !.sum = s])
  /\ UNCHANGED <<chatVars, summaryOf, archived, status, summaryVars, queueVars>>

\* The dispatch commits.
DispatchCommit(t) ==
  /\ task[t].pc = "locked"
  /\ status' = [status EXCEPT ![task[t].sum] = "pending"]
  /\ Become(t, [task[t] EXCEPT !.pc = "build"])
  /\ UNCHANGED <<chatVars, summaryOf, archived, summaryVars, queueVars>>

\* _build_request reads the messages the summary holds; any exception
\* refuses the summary.
Build(t) ==
  /\ task[t].pc = "build"
  /\ \/ Become(t, [task[t] EXCEPT
                     !.pc = "submit",
                     !.source = {m \in exists : summaryOf[m] = task[t].sum}])
     \/ Become(t, [task[t] EXCEPT !.pc = "refuse"])
  /\ UNCHANGED <<chatVars, summaryOf, archived, status, summaryVars, queueVars>>

\* SummarizationAgentGateway.submit: the broker confirmed the request.
SubmitPublished(t) ==
  /\ task[t].pc = "submit"
  /\ requests' = requests \cup {[sum |-> task[t].sum, source |-> task[t].source]}
  /\ Become(t, AfterPump(t))
  /\ UNCHANGED <<chatVars, summaryOf, archived, status, summaryVars, results>>

\* SummarizationAgentGateway.submit raises LLMGatewayException: the broker
\* is down, or ("confirm") only its confirmation is late.
SubmitFailed(t) ==
  /\ task[t].pc = "submit"
  /\ \/ UNCHANGED requests
     \/ /\ "confirm" \in faults
        /\ requests' = requests \cup {[sum |-> task[t].sum, source |-> task[t].source]}
  /\ Become(t, [task[t] EXCEPT !.pc = "refuse", !.source = {}])
  /\ UNCHANGED <<chatVars, summaryOf, archived, status, summaryVars, results>>

\* The mock gateway (ok) and the disabled one (not ok) answer inline.
SubmitInline(t) ==
  /\ task[t].pc = "submit"
  /\ \E ok \in BOOLEAN : Become(t, [task[t] EXCEPT !.pc = "handle", !.ok = ok])
  /\ UNCHANGED <<chatVars, summaryOf, archived, status, summaryVars, queueVars>>

\* The form of RefuseDispatch that leaves the messages claimed.
RefuseKeepingClaims(t) ==
  /\ task[t].pc = "refuse"
  /\ status' = [status EXCEPT ![task[t].sum] = "failed"]
  /\ Become(t, ToPump(t))
  /\ UNCHANGED <<chatVars, summaryOf, archived, summaryVars, queueVars>>

\* The form of RefuseDispatch that does not go on to the next summary.
RefuseNoPump(t) ==
  /\ task[t].pc = "refuse"
  /\ status' = [status EXCEPT ![task[t].sum] = "failed"]
  /\ summaryOf' = Released({task[t].sum})
  /\ Become(t, AfterPump(t))
  /\ UNCHANGED <<chatVars, archived, summaryVars, queueVars>>

\* _fail_dispatch: FAILED whatever the status is by then.
RefuseDispatch(t) ==
  /\ task[t].pc = "refuse"
  /\ status' = [status EXCEPT ![task[t].sum] = "failed"]
  /\ summaryOf' = Released({task[t].sum})
  /\ Become(t, ToPump(t))
  /\ UNCHANGED <<chatVars, archived, summaryVars, queueVars>>

-----------------------------------------------------------------------------
(* Results.                                                                *)

\* scripulya_agent (external) answers a request, with a summary or an error.
AgentAnswers(req) ==
  /\ req \in requests
  /\ \E ok \in BOOLEAN :
       results' = results \cup {[sum |-> req.sum, source |-> req.source, ok |-> ok]}
  /\ \/ requests' = requests \ {req}
     \/ "redeliver" \in faults /\ UNCHANGED requests
  /\ UNCHANGED <<chatVars, summaryOf, archived, status, summaryVars, task>>

\* RabbitMQ delivers a result to handle_summary_result.
Receive(t, res) ==
  /\ task[t].pc = "idle"
  /\ res \in results
  /\ \/ results' = results \ {res}
     \/ "redeliver" \in faults /\ UNCHANGED results
  /\ Become(t, [Idle EXCEPT !.pc = "handle", !.sum = res.sum, !.source = res.source,
                            !.ok = res.ok, !.unacked = {res}])
  /\ UNCHANGED <<chatVars, summaryOf, archived, status, summaryVars, requests>>

\* The form of HandleResult that does not look at the status.
HandleAnyResult(t) ==
  /\ task[t].pc = "handle"
  /\ Become(t, [task[t] EXCEPT !.pc = "write"])
  /\ UNCHANGED <<chatVars, summaryOf, archived, status, summaryVars, queueVars>>

\* handle_result reads the row; a result for a summary that is not PENDING
\* is ignored, without a pump.
HandleResult(t) ==
  /\ task[t].pc = "handle"
  /\ Become(t, IF status[task[t].sum] = "pending"
               THEN [task[t] EXCEPT !.pc = "write"]
               ELSE AfterPump(t))
  /\ UNCHANGED <<chatVars, summaryOf, archived, status, summaryVars, queueVars>>

\* handle_result's unit of work for a summary text (after the tokens were
\* counted in a thread): COMPLETED whatever the status is by then.
Complete(t) ==
  LET s == task[t].sum IN
  /\ task[t].pc = "write"
  /\ task[t].ok
  /\ status' = [status EXCEPT ![s] = "completed"]
  /\ recap' = [recap EXCEPT ![s] = task[t].source]
  /\ edited' = edited \ {s}
  /\ archived' = ArchivedBy(s)
  /\ Become(t, ToPump(t))
  /\ UNCHANGED <<chatVars, summaryOf, covers, queueVars>>

\* handle_result's unit of work for an error or an empty text.
FailResult(t) ==
  LET s == task[t].sum IN
  /\ task[t].pc = "write"
  /\ ~task[t].ok
  /\ status' = [status EXCEPT ![s] = "failed"]
  /\ summaryOf' = Released({s})
  /\ Become(t, ToPump(t))
  /\ UNCHANGED <<chatVars, archived, summaryVars, queueVars>>

\* A handler raises: the HTTP request fails, or the delivery is rejected and
\* RabbitMQ drops it (the default of the subscribers).
Abort(t) ==
  /\ "error" \in faults
  /\ task[t].pc # "idle"
  /\ Become(t, Idle)
  /\ UNCHANGED <<chatVars, summaryOf, archived, status, summaryVars, queueVars>>

\* The backend dies: handlers and their locks are gone, RabbitMQ requeues
\* what was not acknowledged.
Crash ==
  /\ "crash" \in faults
  /\ task # [t \in Tasks |-> Idle]
  /\ results' = results \cup UNION {task[t].unacked : t \in Tasks}
  /\ task' = [t \in Tasks |-> Idle]
  /\ UNCHANGED <<chatVars, summaryOf, archived, status, summaryVars, requests>>

-----------------------------------------------------------------------------
\* A handler that has been started goes on.
Handler(t) ==
  \/ PlanChosen(t) \/ Claim(t) \/ ClaimStale(t) \/ EditWrite(t)
  \/ DispatchSelect(t) \/ DispatchCommit(t) \/ Build(t)
  \/ SubmitPublished(t) \/ SubmitFailed(t) \/ SubmitInline(t)
  \/ RefuseDispatch(t) \/ HandleResult(t) \/ Complete(t) \/ FailResult(t)

Next ==
  \/ \E m \in Messages : NewMessage(m) \/ DeleteMessage(m)
  \/ DropScene
  \/ \E t \in Tasks : Poll(t) \/ Summarize(t) \/ Handler(t) \/ Abort(t)
  \/ \E t \in Tasks, s \in Summaries : EditCheck(t, s)
  \/ \E t \in Tasks : \E res \in results : Receive(t, res)
  \/ \E req \in requests : AgentAnswers(req)
  \/ Crash

Spec == Init /\ [][Next]_vars

-----------------------------------------------------------------------------
(* What holds whatever the environment does.                               *)

\* A live message that is claimed is claimed by a summary still under way:
\* no interleaving of results, expiries, refused dispatches and crashes
\* strands a message where it can be neither summarised again nor archived
\* (claim_messages, release_messages, archive_messages).
ClaimsAreActive ==
  \A m \in exists \ archived :
    summaryOf[m] # NoSummary => status[summaryOf[m]] \in Active

\* A summary under way still holds every message it was planned from (but
\* for deleted ones), and none of them is archived: nobody else can claim,
\* release or archive a chapter that is queued or in flight.
ActiveKeepsChapter ==
  \A s \in WithStatus("queued") \cup Pending :
    \A m \in covers[s] \cap exists : summaryOf[m] = s /\ m \notin archived

\* An archived message still names the summary that archived it, and that
\* summary was planned from it and is over.
ArchivedByItsSummary ==
  \A m \in exists \cap archived :
    /\ summaryOf[m] # NoSummary
    /\ m \in covers[summaryOf[m]]
    /\ status[summaryOf[m]] \in Terminal

-----------------------------------------------------------------------------
(* The strengthening that makes the three properties above inductive.      *)

\* A message and the summary it names agree with each other.
RowsAgree ==
  /\ archived \subseteq exists
  /\ \A m \in archived : summaryOf[m] # NoSummary
  /\ \A m \in Messages : summaryOf[m] # NoSummary =>
       /\ m \in exists
       /\ m \in covers[summaryOf[m]]
       /\ status[summaryOf[m]] \in IF m \in archived THEN Terminal ELSE Active

\* No message is planned or stored before it is written.
NothingBeforeItIsWritten ==
  /\ unsent \cap exists = {}
  /\ \A s \in Summaries : covers[s] \cap unsent = {}

\* A row lock of dispatch_next_queued is on a QUEUED row, and is exclusive.
LocksHeld ==
  \A t \in Tasks : task[t].pc = "locked" =>
    /\ status[task[t].sum] = "queued"
    /\ \A u \in Tasks : task[u].pc = "locked" /\ task[u].sum = task[t].sum => u = t

\* Handlers past the dispatch, requests and results are about summaries that
\* have been dispatched.
Dispatched == {s \in Summaries : status[s] \in {"pending"} \cup Terminal}

OnlyDispatched ==
  /\ \A t \in Tasks :
       /\ task[t].pc \in {"build", "submit", "refuse", "handle", "write"}
             => task[t].sum \in Dispatched
       /\ \A res \in task[t].unacked : res.sum \in Dispatched
  /\ \A req \in requests : req.sum \in Dispatched
  /\ \A res \in results : res.sum \in Dispatched

\* The claims of the messages, the locks and everything in flight fit
\* together: the inductive invariant of the service.
ClaimInv ==
  /\ RowsAgree
  /\ ActiveKeepsChapter
  /\ NothingBeforeItIsWritten
  /\ LocksHeld
  /\ OnlyDispatched

-----------------------------------------------------------------------------
(* What holds as long as certain things do not go wrong.                   *)

\* No publish is misjudged, no delivery doubled, and no timeout fires under a
\* running handler.
Calm == faults \subseteq {"crash", "error"}

\* The messages the prompt carries through recaps: _load_history inserts
\* the COMPLETED summaries of the chat (prompt_summaries).
InRecap(m) == {s \in WithStatus("completed") : m \in recap[s]}

\* Nothing the user wrote disappears from the prompt: a message that is not
\* sent verbatim any more (archived) is in a recap that is.
NothingLost ==
  {"confirm", "redeliver"} \cap faults = {} =>
    \A m \in exists \cap archived : InRecap(m) # {}

\* ... and nothing is told twice: not verbatim and in a recap, nor in the
\* recaps of two summaries.
NothingTwice ==
  Calm => \A m \in exists : /\ m \notin archived => InRecap(m) = {}
                            /\ Cardinality(InRecap(m)) <= 1

\* The prompt tells every message once: summaries replace what they recap and
\* nothing else (SummaryRepository.complete).
RecapsTellOnce == NothingLost /\ NothingTwice

-----------------------------------------------------------------------------
(* The strengthening that makes RecapsTellOnce, EditsSurvive and            *)
(* KeepsLedger inductive: who carries a summary in flight, and what it will *)
(* tell.                                                                    *)

\* No publish is misjudged and no delivery doubled.
Exact == {"confirm", "redeliver"} \cap faults = {}

\* A handler h carries the summary it works on after the dispatch, and the one
\* whose result it has not acknowledged yet.
Carries(h, s) ==
  \/ h.pc \in {"build", "submit", "refuse", "handle", "write"} /\ h.sum = s
  \/ \E res \in h.unacked : res.sum = s

\* A dispatched summary is carried by one handler, or one request, or one
\* result, or by nobody any more.
OneCarrier ==
  /\ \A t, u \in Tasks, s \in Summaries :
       Carries(task[t], s) /\ Carries(task[u], s) => t = u
  /\ \A t \in Tasks : \A q \in requests \cup results : ~Carries(task[t], q.sum)
  /\ \A t \in Tasks : \A a, b \in task[t].unacked : a = b
  /\ \A a, b \in requests : a.sum = b.sum => a = b
  /\ \A a, b \in results : a.sum = b.sum => a = b
  /\ \A a \in requests, b \in results : a.sum # b.sum

\* A handler that is going to decide about a summary decides about one that
\* is not completed; without "overlap" about one that is PENDING.
Undecided ==
  \A t \in Tasks : task[t].pc \in {"build", "submit", "refuse", "write"} =>
    /\ status[task[t].sum] # "completed"
    /\ Calm => status[task[t].sum] = "pending"

\* Only completed summaries are edited, and they stay completed.
EditsOfCompleted ==
  /\ \A s \in edited : status[s] = "completed"
  /\ \A t \in Tasks : task[t].pc = "edit" => status[task[t].sum] = "completed"

HeldBy(s) == {m \in exists : summaryOf[m] = s}

\* What was sent for s has every message s holds; while s is PENDING and no
\* timeout can fire under a handler it has no other message of the chat.
SentRight(s, source) ==
  /\ source \cap unsent = {}
  /\ HeldBy(s) \subseteq source
  /\ Calm /\ status[s] = "pending" => source \cap exists \subseteq HeldBy(s)

SourcesRight ==
  /\ \A t \in Tasks :
       /\ task[t].pc \in {"submit", "handle", "write"} => SentRight(task[t].sum, task[t].source)
       /\ \A res \in task[t].unacked : SentRight(res.sum, res.source)
  /\ \A q \in requests \cup results : SentRight(q.sum, q.source)

\* An archived message is told by the summary it names, and (Calm) a completed
\* summary tells no message but the archived ones that name it.
RecapsRight ==
  /\ \A s \in Summaries : recap[s] \cap unsent = {}
  /\ \A m \in archived : status[summaryOf[m]] = "completed" /\ m \in recap[summaryOf[m]]
  /\ Calm => \A s \in WithStatus("completed") : \A m \in recap[s] \cap exists :
                 m \in archived /\ summaryOf[m] = s

\* Every summary in flight has one carrier, which will decide about it once
\* and tell exactly what it holds (submit, the result queue, handle_result,
\* SummaryRepository.complete).
FlightInv ==
  Exact => OneCarrier /\ Undecided /\ EditsOfCompleted /\ SourcesRight /\ RecapsRight

-----------------------------------------------------------------------------
TerminalStays == \A s \in Summaries : status[s] \in Terminal => status'[s] = status[s]

\* A finished summary stays what it is, whatever comes late or twice
\* (test_handle_result_ignores_non_pending).
TerminalIsFinal == [][TerminalStays]_vars

\* The text a user gave a finished summary is never overwritten by a result.
EditsSurvive == [][{"confirm", "redeliver"} \cap faults = {} => edited \subseteq edited']_vars

\* The promise of ChapterLedger is kept: a summary opens over free messages it
\* then holds alone, ends once, and seals and tells everything it holds or
\* frees all of it, in one step each.
LedgerPhase ==
  [s \in Summaries |-> CASE status[s] = "absent" -> "new"
                         [] status[s] \in Active -> "open"
                         [] status[s] = "completed" -> "kept"
                         [] status[s] = "failed" -> "dropped"]

Ledger == INSTANCE ChapterLedger WITH
  unwritten <- unsent, present <- exists, holder <- summaryOf,
  sealed <- archived, phase <- LedgerPhase, told <- recap

KeepsLedger ==
  Ledger!Init /\ [][Calm => UNCHANGED Ledger!vars \/ Ledger!Next]_vars

-----------------------------------------------------------------------------
(* What keeps the queue of a chat moving; crashes and raising handlers      *)
(* break it.                                                               *)

\* No lost wake-up: queued summaries wait for the one in flight, or for a
\* handler that is going to dispatch (every commit that leaves PENDING or
\* enters QUEUED is followed by a pump).
QueueHasDriver ==
  faults \subseteq {"confirm", "overlap"} /\ Queued # {} =>
    \/ Pending # {}
    \/ \E t \in Tasks : task[t].pc \in {"pump", "locked"}

\* A PENDING summary waits for someone: a handler, the agent, or a result
\* on its way.
PendingHasOwner ==
  faults \subseteq {"confirm", "overlap"} => \A s \in Pending :
    \/ \E t \in Tasks : /\ task[t].sum = s
                        /\ task[t].pc \in {"build", "submit", "refuse", "handle", "write"}
    \/ \E req \in requests : req.sum = s
    \/ \E res \in results : res.sum = s

\* Somebody is always about to move the queue on (the pump after every commit,
\* SummarizationService._pump).
QueueMoves == QueueHasDriver /\ PendingHasOwner

\* As many summaries of the chat are in flight as handlers can pump at the
\* same time, and never more: pumps that overlap may each dispatch one, since
\* SKIP LOCKED passes over the other's row and the NOT EXISTS does not see its
\* uncommitted PENDING, but until all those are decided no later pump, expiry,
\* late result or restart adds another (dispatch_next_queued).
InFlightBounded == Cardinality(Pending \cup Locked) <= Cardinality(Tasks)

(***************************************************************************)
(* A handler that was started goes on, and the chat is looked at again     *)
(* while something is PENDING (list_chapters, get_status or search), which *)
(* is the only thing that expires a summary.  The agent owes nothing, nor  *)
(* does RabbitMQ, nor the user anything else.                              *)
(***************************************************************************)
Fairness ==
  /\ \A t \in Tasks : WF_vars(Handler(t))
  /\ SF_vars(\E t \in Tasks : Poll(t))

FairSpec == Spec /\ Fairness

\* Every summary the user asked for ends: with its recap or with its
\* messages released.
EverySummaryEnds ==
  \A s \in Summaries : status[s] \in Active ~> status[s] \in Terminal
=============================================================================
