# A verification project for dreamescape_ai

TLA+ models of the backend, checked with TLC on small instances, and theorems
about them proved with TLAPS for every value of the constants. The repository
is in `src/`, so `application/…` below is `src/src/application/…`.

## 1. The system

A FastAPI backend for role-playing chats. Users own scenes (with opening
messages) and characters, private or public, and start chats from them. A message
in a chat is stored, put into a prompt (system prompt, persona, scene, history)
and published to `scripulya_agent` over RabbitMQ. The agent streams tokens
through Redis Pub/Sub and puts its result into a result queue, whose consumer
appends the model's message and pushes it to the clients of the chat over SSE.
When a history gets long, the user has chapters of it summarised: messages are
*archived* and a recap takes their place in the prompt. Scenes and characters
also come from lorebook files, pictures go to MinIO. PostgreSQL (READ COMMITTED,
one session per request or delivery) holds everything else; Redis holds
heartbeats; event queues live in the process.

| component | state it keeps | operations | interacts with | what is hard | what makes it correct |
|---|---|---|---|---|---|
| summarization (`application/summarization`, `summary_repository.py`) | `chat_summaries.status`, `messages.summary_id`, `is_archived` | summarize, handle_result, update, reads that expire, the pump | messages, two RabbitMQ queues, events | handlers interleave at every await; results late, twice or after an expiry; partial claims; a queue that moves only when somebody pumps | no message is stranded, lost from the prompt or told twice; the queue has a driver |
| chapter planner (`chapters.py`) | none (pure) | `plan_chapters` | summarization | offers are matched with a later plan | chapters partition the free messages, contiguous, full, stable |
| fact recall (`fact_recall.py`, `scripts/summary_fact_recall.py`) | none (pure) | parse, judge in batches, rate | – | numbers start again in each batch | a verdict belongs to its fact, rates are rates |
| generation (`chats/llm_service.py`, `scripulya_agent_gateway.py`) | message rows, a request in flight | send_message, publish, the result consumer | RabbitMQ, Redis, agent | publish and registration are two steps; confirmations time out; redelivery | every user message is answered, once |
| history and budget (`_load_history`, `_require_fits_window`) | none | read messages, then recaps, merge, count | summarization | two reads, no snapshot; a gate that must measure all that is sent | each message once, in order; room for the answer |
| watchdog (`llm_watchdog.py`, `redis_heartbeat.py`) | Redis: `gen:inflight`, `:chat`, `:alive`, `:done` | register, sweep, report | generation, agent | several backends sweep; a sweep is many Redis commands; keys expire; crashes between claim and report | a dead request is reported once, a live one never |
| token relay (`_drain_tokens`) | a Pub/Sub connection, two buffers, a deadline | subscribe, drain, flush, finish | Redis, events | no replay; the last frame may be lost; exceptions, cancellation | text complete and in order, exactly one terminal event, it ends |
| chat events (`chat_event_gateway.py`, `server_events_service.py`) | bounded queues per chat | publish, open_stream, stream | everything that publishes | read of the latest message and subscription are two steps; slow clients | who stays connected misses no message |
| scenes, characters, chats, users (`application/{scene,character,chats,user}`) | rows with foreign keys | create, update, delete, like, bookmark, attach, append to a prompt, opening messages, start a chat, persona, settings | each other, the prompt | check, then write in another transaction; cascades; ownership that changes hands | nothing dangles; one greeting, of the chat's scene; only owners change things |
| media (`application/media`, object storage, `scripts/seed_minio_media.py`) | rows and objects | upload, update, delete, the seeding script | two stores, imports | one of two writes fails; several tasks on one session; a script that runs beside the backend | an object and its row, or neither; counts that add up |
| lorebook import (`application/imports`) | none of its own | preview, import | characters, scenes, media | partial failures, synthetic candidates, an empty selection | the import is what was previewed and ticked; its counts are right |
| listings (the `search` of each gateway) | none | filter, sort, page, count | – | every page is a query of its own; joins | pages cover every row once; nothing private is shown |
| errors (`global_exceptions_handler.py`) | none | exception to response | all | the order of `isinstance`, the text of a `ValueError` | what is missing is a 404 |
| auth, wiring, logging, migrations, the provider mock | – | – | – | – | section 7 |

`PROJECT.json` lists every component with its sources, the hazards at their
lines with the properties that would catch them, and for every definition the
lines it models.

## 2. Modules

    ChapterPlan ───► Summarization ──(implements)──► ChapterLedger ──► PromptHistory
    ChapterPlanProofs  MCSummarization
                     SummarizationProofs
    PromptHistory, ChapterPlan, ContextBudget, FactRecall ──► MCPrompt, PromptHistoryProofs
    Generation ──► MCGeneration, GenerationProofs
    TokenRelay ──► MCTokenRelay, TokenRelayProofs
    ChatEvents ──► MCChatEvents, ChatEventsProofs
    Library, MediaStorage, LorebookImport, Search, ErrorResponses ──► MCRecords     LibraryProofs, RecordsProofs

`Absent` declares the values `None`, `Unborn` and `Gone` that the modules of
`MCRecords` share. `Sorting` is Python's `sorted()`, for PromptHistory and
FactRecall. PromptHistoryProofs is about the ledger and all that MCPrompt composes,
and extends ChapterPlanProofs; RecordsProofs is about all that MCRecords
composes but the library, which LibraryProofs is about.

Common conventions. A handler (HTTP request, queue delivery, background task) is
asyncio code: what lies between two awaits that another party can use is one
action, and a unit of work commits in one action. The variable `faults` is the set
of things the environment may do wrong in a behaviour; it is chosen at the start
among the sets in the constant `Scenarios` and never changes. Each module lists
its kinds in `FaultKinds`. A property that some fault breaks names that fault in
its own text (`"gap" \notin faults => …`), and section 3 says so. A definition
whose comment starts "The form of X that …" is a plausible wrong version of X
that is used by no specification; it is there to show that a property notices.

### Summarization, with ChapterPlan
`status`, `summaryOf`, `archived`, `exists`, `scene` are columns of the tables;
`covers` is what a chapter was planned from (`covered_from…until`), `recap` what
the stored text was written from, `requests`/`results` the two RabbitMQ queues,
`task` the handlers in progress with their local variables. `Summarize`,
`PlanChosen`, `Claim`/`ClaimStale` are `summarize`; `DispatchSelect`,
`DispatchCommit`, `Build`, `Submit*`, `RefuseDispatch` are `_pump` and
`_fail_dispatch` (the recursion of the Python code is the loop back to "pump");
`Receive`, `HandleResult`, `Complete`, `FailResult` are `handle_result`; `Poll` is
any read that expires; `EditCheck`/`EditWrite` is `update`. `FOR UPDATE SKIP
LOCKED` is the "locked" state between `DispatchSelect` and `DispatchCommit`: a
locked row is skipped, and the other's uncommitted PENDING is not seen.
Abstracted: texts (a recap is the set of messages it tells), tokens of a
message (a constant), the chat's other columns. Several chats do not interact.

### ChapterLedger
What summarization promises, without handlers, queues or agent: a summary opens
over free messages, holds them alone, and ends once, by sealing all it holds
together with a recap that tells exactly them, or by freeing all. `Summarization`
implements it (`KeepsLedger`, a refinement mapping) under crashes and raising
handlers; a misjudged publish, a doubled delivery or an expiry under a running
handler really break it, in the ways the findings and hazards describe.

### PromptHistory
What `send_message` shows the model: `ReadPage` is `_search_history` (the rows that
are not archived), `ReadRecaps` is `prompt_summaries`, a second statement without a
common snapshot, and `MergeHistory` is `_merge_history`, its loop a recursive
function (`Merging`) over the messages in the order of time (`InTimeOrder`). Between the two reads the ledger takes any of its steps, so the module
extends ChapterLedger; `span` adds `covered_from_at` and `covered_until_at`. A
message stands for its `created_at`, and rows may appear out of that order, since
it is the start of the writing transaction; `late`, `asked` and `before` are
auxiliary. A chapter is contiguous among the rows visible when it opens: a row that
appears between plan and claim inside it is the same as one that appears just
after the claim.

### ContextBudget and FactRecall
Functions of one chat and of one judged chapter. `UsableTokens`, `CountParts`,
`Accepted` and `Usage` are `_usable_tokens`, `_count_parts`, `_require_fits_window`
and `get_context_usage`; `Page` is the one page of the history. `Weight`,
`Verify`, the recalls and `Percentile` are the evaluator's; a judge's reply is
whatever parses of it; a reply without a JSON object makes the script skip the
model and chunk size it judges, and no report is left to speak of.

### Generation
`send` is the handler of the user's message, `rows` the model rows that answer
it by author, `queue`/`results`/`appended` the broker, `inflight`, `chat`, `alive`,
`done` the Redis keys and `dog` the sweeps of the watchdogs, one Redis command
a step. `AgentTakes` … `AgentDies` are external, from `docs/AGENT_HANGING.md` and
what the code expects. Two results of one request with the same outcome are one
element of `results`.

### TokenRelay
One generation (its request id, channel and relay are its own). `sent` are the
frames Redis accepted, `channel` those waiting in the connection; a step of the
relay is one turn of the loop. `late` says that the deadline has passed. Texts
are the frames they come from, so the order of text is the order of frames.

### ChatEvents
The rows of one chat, commits and publications as separate steps, the listeners'
queues and streams. `known` (rows that were there when the stream read the
latest one) and `overflowed` are auxiliary. Commits come in any order of
`created_at`. A result that is redelivered after a crash is in Generation.

### Library
The tables of users, scenes, characters, opening messages, associations and
chats. A handler reads and checks, then opens the unit of work that writes, so
an operation is `AskOp` (the checks; the request sits in a slot of `req`) and
`Op` (the write with what its SQL checks itself, and the commit); creation reads
nothing it depends on and is one action. Any commit may come in between; `met`
remembers which. `Fail` is a request that finds no row, breaks a key or loses
its database. The foreign keys are `Erase`: cascades to scenes, characters,
opening messages, likes, bookmarks and the chats of a user, SET NULL for what a
chat refers to. Texts are abstracted, but for the additions in a character's
`system_prompt`. `AskSend` sees an empty chat by its greeting and its messages; a
chat whose messages were all deleted is not distinguished. `create_chat` checks the
persona's visibility and only the existence of the scene, and so does `AskStart`.

### MediaStorage
An `object_key` is one upload, its row and its object. Uploads go through owner
check, put, flush, refresh, commit or cleanup; those of one import share a
session, so a rollback or commit of one takes the flushed rows of the others
along (`SessionOf`). `removal` is `delete`, which removes the object, then the row.
`seeder` is one run of `seed_minio_media.py` with its cache and counters. A failed
call marks its key in `hit`, and `MaxHits` bounds how many keys are hit; the
properties hold the other keys to their promise.

### LorebookImport, Search, ErrorResponses
Functions again. A file is a sequence of kinds of entries; `Preview`,
`SelectedEntries`, `Imported` and `Appended` are the service's, with the writes
that fail as an input. Python's comprehensions are `Only` (a recursive function,
`Filtering`), and the loop that collects the world lines while they fit is
`AddingLines`. A listing is the set of sequences a query may return where
its ORDER BY leaves a choice, and a page is cut from a possibly different one
each time. `Status` is the cascade of `isinstance` over the classes with a branch.

## 3. Runs

| run | what it shows | bounds |
|---|---|---|
| `summarization` | under {crash, error}, {crash, error, overlap}, {confirm, overlap}, {redeliver}: types; the inductive `ClaimInv`; `RecapsTellOnce` (nothing lost from the prompt, nothing told twice); `QueueMoves` (no lost wake-up, every PENDING has an owner); `EditsSurvive`; the refinement `KeepsLedger`; without faults, `InFlightBounded` (overlapping pumps put one summary each in flight, and nothing that comes later adds another) | 2 handlers; 2 messages in chapters of 1 or 2, 2 summaries, 1 message under {redeliver}; without faults 3 messages, each a chapter, and 3 summaries |
| `summary_live` | one handler at a time: every summary ends | 2 chapters, misjudged publishes |
| `prompt` | the ledger tells each message once (`LedgerTells`); `PromptTells` and `PromptInOrder` for the prompt read from it in two queries; the planner (`ChaptersRight`, `OffersStand`); the budget (`BudgetIsSound`); fact recall (`RecallIsSound`) | 4 messages, 2 summaries, 1 request, 1 deletion; chats of 4 messages of 0–3 tokens, chunks of 2; 3 turns, a page of 2, windows on both sides of each limit; 3 facts in batches of 2 |
| `generation` | four sets of faults (`MCGeneration`): types; `ReportInv` (a dead request is in one hand and gets one FAILED row); `AnswersRight` (no false alarm, one answer) | 2 requests, 2 watchdogs, 1 crash, 2 rows per author |
| `generation_live` | every message is answered | 1 request, 2 watchdogs |
| `token_relay` | `StreamIsFramed` and `RelayEnds` under all faults; `TextIsWhole` while the connection lasts | batches of 2, 5 frames |
| `chat_events` | `CaughtUp`: a client that never overflowed misses nothing; bounded queues; `MessageArrives` | 2 messages, 2 clients, queues of 2 |
| `records` | the library: `NothingDangles`, `GreetingRight`, `InitialsBreakInRace`, `RightsHold`, `AtomicWrites`; images: `UploadsLeaveBoth`, `RowDescribesObject`, `SeedingAddsUp`; imports: `PreviewIsKept`, `ImportIsAccounted`; `ListingsAnswer`; `ErrorsKeepMeaning` | 2 overlapping requests, 2 users, 2 scenes, 1 character, 1 chat, 3 opening messages; 3 uploads, 1 seeded row, 2 runs of the script, 1 hit key; 3 entries; 3 rows, pages of 0 or 1 |

`MCPrompt` and `MCRecords` put several subjects that share no state side by side:
a variable `part` says at the start which one the behaviour is about, the others
rest. This is the same as a run for each, and the pure functions get their inputs
by steps that build them. In `MCRecords` the `MCScenarios` (eight sets of
operations) are the groups of operations of which one can change what another has
checked, and the `MCSituations` are the groups of uploads, rows and script runs
that touch one key or one session. Parts, scenarios and situations are initial
states of one run, so every property is evaluated in all of them.

`BoundedSpec` is `Spec` with these bounds. Where a fault can happen it has two
messages and two summaries, and withholds the second message where results may be
delivered twice. It leaves out edits under confirm and redeliver, of which
`EditsSurvive` says nothing. Without faults two handlers pump a queue of three
chapters: each message is written once the one before is claimed, and nobody
deletes or edits. Three
summaries are needed there because with two of them two handlers cannot exceed
`InFlightBounded`; the theorem `InFlightAlwaysBounded` has no such bound. A property is conditional where the code breaks it under some
fault: `QueueMoves` speaks of {confirm, overlap}, `NothingTwice` and `KeepsLedger`
of {crash, error}, `NothingLost` and `EditsSurvive` of all sets without confirm and
redeliver; `AnsweredOnce` of `Calm`, `NoFalseAlarm` of all generation scenarios but
`Late`. `generation_live` has no redelivery: an agent that dies and gets its request
again for ever is never dead long enough to be reported, and no document bounds
how often RabbitMQ does that.

Why these bounds. Every disagreement we know of needs at most two handlers on
one summary, or two summaries over one message: the second summary is needed to
claim what the first released, two chapters to have a queue with a successor,
two messages to have a partial claim and a chapter of more than one message. A
request's fate involves at most two sweepers and one crash per half of the
claim-then-report sequence. Four messages are the fewest with which the recap of
an inner chapter can be due later than that of the chapter around it; requests
that assemble prompts do not influence each other, so one is enough. A batch of 2
and five frames allow a full batch, a remainder and both kinds of text in one
stream; a queue of 2 is full after two events. A stale check in the library takes
one request that checked and one that commits, on one row and what hangs on it;
three opening messages give a scene that keeps one when another is deleted, and a
message of another scene. One call that fails is enough to separate object and
row, and a second upload of the same session to take it along. Three rows make two
equal ones and a third page; three entries make each synthetic candidate and a
gap. What the bounds cut off is covered by the proofs for the properties in
section 5. `Summaries`, `MaxCrashes`, `MaxRows`, `MaxFrames`, `MaxLength`,
`MaxTokens`, `MaxTurns`, `MaxFacts`, `MaxItems`, `MaxHits` and `MaxDeleted` only bound
a run. Symmetry is used for ids in runs without liveness only.

Deadlock checking is off in all runs: the system may rest when the user asks for
nothing and the agent owes nothing, and the pure functions rest once asked.

### Violated, and reported as findings
| run | what the code does | what is written |
|---|---|---|
| `late_result_revives` | `handle_result` checks PENDING, counts tokens in a thread, then completes by id: an expiry in between is overwritten, FAILED becomes COMPLETED | `test_handle_result_ignores_non_pending` |
| `context_gate` | `_require_fits_window` compares the first of two counts, the system prompt, with the window; history and message are dropped, so a chat that has outgrown the window is accepted | `test_chats_service.py`: such a prompt "is rejected with CONTEXT_WINDOW_EXCEEDED before anything is persisted or queued" |
| `restart_loses_dead_agent` | the sweep claims a request and removes it from `gen:inflight` before its FAILED row exists; a crash in between loses it | AGENT_HANGING.md: the watchdog "still catches a dead agent" |
| `events_gap` | a message published between the read of the latest and the subscription is never shown on that stream | PER-TOKEN-STREAMING.md: "Client sees the eventual `message`" |

### Smaller disagreements, met without a run of their own
* No PENDING model message is ever stored (`llm_service.py:138`), though
  `MessageStatus` and the agent gateway's comment speak of one.
* An exception of `get_message` ends the relay with `generation_error` at once
  (`scripulya_agent_gateway.py:156`, `RelayFails`), though PER-TOKEN-STREAMING.md
  section 9 says that the loop goes on until the deadline.
* The seeding script calls itself idempotent ("objects already present are
  skipped") but looks in the public bucket only: for a row whose picture is
  private it draws again and writes a public object. A picture drawn for a row
  that is deleted meanwhile stays as an object without a row.
* `json.JSONDecodeError` is a `ValueError`, so its 502 branch is never reached.
* `get_context_usage` leaves the base prompt out of `fits`, the gate counts it.
* The generic "Imported lorebook" scene is created although no preview offers it.
* A limit of 0 means everything for scenes and characters, nothing for media,
  chats and messages.

### Broken by a fault, with no promise against it
Without any fault, two pumps that overlap put two summaries of one chat in flight,
because of SKIP LOCKED; `get_status` then reports the earlier one as
`active_summary_id`, and `InFlightBounded` says how many there can be. With faults:
`NothingTwice` by an overlapping expiry or a misjudged publish; `NothingLost` by a
misjudged publish; `EditsSurvive` by a doubled delivery; the queue properties
by crashes and raising handlers (queued summaries then wait for the next
request that expires or summarises); `AnsweredOnce` by a misjudged publish, a
stalled agent or a redelivered result; `EveryMessageAnswered` by a Redis failure at registration;
`TextInOrder` by a reconnecting Redis client; the second half of `PromptInOrder` by
two messages that appear late, around and inside two chapters; the rules of
`InitialMessageService.delete` (not in use, not the last one) by a choice or a
second delete that overlaps, which is what `InitialsBreakInRace` states; listings
without ORDER BY (all but scenes with a sort, and media) may repeat or skip rows
between pages. These are hazards in `PROJECT.json`; the properties name what they
leave out.

## 4. Fairness
* Handlers that run go on (weak fairness): asyncio schedules every task, and
  every await in them has a timeout or an answer.
* Summarization: a chat with a PENDING summary is looked at again and again
  (strong fairness of `Poll`). Nothing in the backend expires a summary but such
  a request; without this assumption about the client `EverySummaryEnds` is false.
* Generation: watchdogs go on sweeping (`run_forever` survives every exception),
  Redis expires `:alive` of an agent that does not refresh it, the broker
  delivers, a living agent works or dies.
* TokenRelay: a turn of the relay's loop is taken and time passes. Neither the
  agent nor Redis owes anything, and no failure is fair.
* ChatEvents: streams that are open go on; publications happen (strong, since
  the guard for "gap" only postpones a step the code takes at once). No client is
  made to connect or to stay.
* Library, MediaStorage and the functions: none. A request may stop anywhere.

## 5. Proofs
TLAPS proves, for all values of the constants that satisfy the assumptions
stated in the modules (they are as weak as the code: ids are sets, bounds are
natural numbers, `None` and its like are no ids and no rows):

| theorem | statement | argument |
|---|---|---|
| `TypeCorrect` | `Spec => []TypeOK` (Summarization) | step by step |
| `ClaimsCorrect` | `[]ClaimInv` | inductive: claims agree with statuses (`RowsAgree`), active chapters are whole, row locks are exclusive and on QUEUED rows, everything in flight has been dispatched. Locks are needed because a dispatch writes PENDING one step after it chose the row; `OnlyDispatched` because a late result may only hit a PENDING or finished row, never a QUEUED one |
| `NoStrandedClaim`, `ChapterHeld`, `ArchivesNamed` | the three properties, under *all* faults | corollaries of `ClaimInv` |
| `FlightsCorrect` | `[]FlightInv` | inductive with `ClaimInv`, below |
| `RecapsAlwaysTellOnce`, `EditsAlwaysSurvive` | `[]RecapsTellOnce`, the action property `EditsSurvive` | corollaries of `FlightInv`, each half under the faults its own text allows |
| `LedgerKept`, `ImplementsLedger` | `Spec => KeepsLedger`, and `Spec /\ Calm => Ledger!Spec` for behaviours with crashes and raising handlers only | step simulation: opening, sealing and freeing are one action each of the ledger, the rest stutters; that the recap written is exactly what is held comes from `FlightInv` |
| `QueueAlwaysMoves` | `[]QueueMoves` | inductive with types: whoever leaves a summary QUEUED without a PENDING one is on its way to the next dispatch |
| `InFlightAlwaysBounded` | `[]InFlightBounded`, under *all* faults, for any finite number of handlers | what is in flight is PENDING or locked. A step adds nothing to it, or leaves the chat without a PENDING summary (`StepInFlight`: a row is locked anew only then, `NewLocks`), and locked rows have a handler each (`LockedByHandlers`) |
| `EverythingToldOnce` | `[]LedgerTells` (ChapterLedger) | `HeldInPhase` makes it inductive |
| `PromptIsRight` | `[]PromptTells` (PromptHistory) | on top of the ledger's invariant: between the queries, what was not read is told by a summary that is COMPLETED and stays so (`ReadOrTold`, `KeptStays`); what was COMPLETED at the first query tells nothing of what was read (`PageUntold`) |
| `PromptTypeCorrect` | `[]PromptTypeOK` (PromptHistory) | a chapter is planned from finitely many messages, so it has a first and a last one (`LeastNat`, from the library's well-founded order, and `GreatestNat`) |
| `PlanIsGreedy` | for every chat and chunk size the plan is a partition as `IsPartition` says, and there is no other (ChapterPlan) | before every message the planner holds the partition of those it has seen (`Filled`): a message starts a chapter (`NewChapter`), makes the last one longer (`GrowChapter`) or ends it. Two partitions agree on where a chapter starts (`NotLater`) and on where it ends (`NotShorter`) |
| `AppendKeepsOffers`, `ClaimKeepsOffers` | the two halves of `OffersStand`, for every chat (the second: without repeated ids) | the loop depends on the messages before it alone (`SamePrefix`); the partition without the claimed chapter is a partition of the chat with the claimed messages, so by `PlanIsGreedy` it is its plan |
| `GenerationTypeCorrect` | types | step by step |
| `ReportsCorrect`, `DeadRequestReportedOnce` | `[]ReportInv`, `[]ReportedOnce`, under all faults, for any number of watchdogs | the right to report a request is with one sweep (`OneReporter`), and `:done` outlives it, or nothing can be found any more (`ReportedIsDone`); a sweep has one request in hand (`OneInHand`) |
| `AnswersInTurn`, `AnswersAlwaysRight` | `[]AnswerInv`, `[]AnswersRight`, for any number of requests and watchdogs | `AnswerInv`, below |
| `EventsTypeCorrect` | types and bounded queues (ChatEvents) | the latest message is a message because a finite set of numbers has a maximum (`MaxInSet`, by descent along strict subsets) |
| `NobodyMissesAMessage` | `[]CaughtUp`, whose own hypothesis is `"gap" \notin faults` | inductive with `ReadIsFresh`: what a stream has read is still current when it subscribes |
| `LibraryTypeCorrect` | `[]TypeOK` (Library) | part of `LibraryInv` |
| `NothingEverDangles`, `ChatsOpenRight` | `[]NothingDangles`, `[]GreetingRight` (Library) | `LibraryInv`, below |
| `RightsAlwaysHold`, `InitialsBreakOnlyInRace`, `WritesAreAtomic` | the action properties `RightsHold`, `InitialsBreakInRace`, `AtomicWrites` | one step of a state with `LibraryInv`; `ChatChange` and `ThingChange` say which request can change a chat, a scene or a character, and how |
| `RelayTypeCorrect`, `StreamsAreFramed` | `[]TypeOK`, `[]StreamIsFramed` (TokenRelay) | `Shape`: what has been published at each point of the relay; a flush only adds text (`FlushAdds`) |
| `TextAlwaysWhole` | `[]TextIsWhole` (TokenRelay), whose own hypothesis is a connection that lasts | `TextInv`: the frames that wait are the last ones sent (`Channelled`); of those read, each is shown or in its buffer, the buffer behind everything shown, nothing in between left out (`Kept`, `NoGap`) |
| `MediaIsKept`, `MediaTypeCorrect` | `[]MediaInv`, `[]MediaTypeOK` (MediaStorage) | `MediaInv`, below |
| `UploadsAlwaysLeaveBoth`, `RowsAlwaysDescribe`, `SeedingAlwaysAddsUp` | `[]UploadsLeaveBoth`, `[]RowDescribesObject`, `[]SeedingAddsUp`, for any number of uploads, sessions and rows | corollaries of `MediaInv` |
| `PromptStaysInOrder` | `[]PromptInOrder` (PromptHistory) | what lies in the span of a chapter is the affair of its summary (`SpanIsOwned`, `SpansOwned`), so the loop finds a recap's place: before a message stands every recap due there (`MergeIs`), a recap before a message ends before it, and one that stands after a message it should precede is held back by a chapter that reaches there; the page and the recaps are finite (`FinitelyMany`) |
| `BudgetAlwaysHolds`, `BudgetAlwaysSound` | `BudgetHolds(chat)` for every window, setting and prompt that can be measured, `[]BudgetIsSound` (MCPrompt) | the used share of a limit is at most the limit (`SafeShare`) |
| `ChaptersAlwaysRight`, `OffersAlwaysStand` | `[]ChaptersRight`, the action property `OffersStand` (MCPrompt) | the ids of the chat stay its positions (`ChatNumbered`), then `PlanIsGreedy`, `AppendKeepsOffers` and `ClaimKeepsOffers` |
| `RecallAlwaysHonest`, `RecallAlwaysSound` | what `RecallIsSound` says, for every chapter and every reply of the judge; `[]RecallIsSound` (MCPrompt) | a verdict is filed under a number of its own batch (`VerdictsStayInBatch`), a rate is a part of its whole (`RatesAlwaysInRange`), a percentile is a value of its list (`PercentileIs`) |
| `RecordsTypeCorrect` | `[]RecordsTypeOK` (MCRecords) | the types of the library and of the images (`RecordsAreBoth`) |
| `ErrorsAlwaysKeepMeaning` | `[]ErrorsKeepMeaning` (MCRecords) | the branches an exception can reach before that of its class (`MissingAlways404`, `UnregisteredIs500`) |
| `ListingsAlwaysAnswer` | `[]ListingsAnswer` (MCRecords), for any table, query and limit | two sorted listings of the same rows have no first place at which they differ (`OneListing`), and every place is on just one page (`SomeOffset`, `OneOffset`); what a page shows and what the count counts are the same rows (`JoinedAreMatching`) |
| `PreviewAlwaysKept` | `[]PreviewIsKept` (MCRecords), for any file and selection | what `Only` returns, and that it goes through two parts of a sequence one after the other (`OnlyIs`, `OnlyAppend`); so the keys the import looks for are those of the preview (`CandidatesAre`, `ImportInv`) |
| `ImportAlwaysAccounted` | `[]ImportIsAccounted` (MCRecords), for any writes that fail | each candidate is created or failed, once (`ImportedIs`); the world lines are the beginning of the lore (`LoreComes`, `LinesBegin`) |

`NothingDangles` is not inductive: a write that was checked long ago could use a
row that has gone since. `LibraryInv` adds, for every request in flight, what its
checks still say (`Checked`): the chat it looked at was there and can only have
been deleted or lost its scene, the text it chose is of that scene or of one that
is gone, the thing was the user's unless an update has been met, the text to be
deleted was in no chat unless a choice has been met. `Moves(op)` lists what a commit
of `op` may do to such facts, `StaysChecked` shows once that they survive every
commit or that `met` tells why not, and every write is shown to keep the rows right
(`Kept`). Rows that are gone stay gone, since ids are never used again.

`RecapsTellOnce` is not inductive either: a second result, or a result written
from messages that changed hands, would break it. `FlightInv` says why there is
none. A summary in flight has one carrier (`OneCarrier`): the handler that builds or
submits it, the request, the result, or the handler that decides about it; so it is
decided once (`Undecided`, `EditsOfCompleted`). What was sent for it holds every
message it holds (`SourcesRight`), and once no timeout can fire under a running
handler no other one of the chat. Hence what `complete` writes is what
`archive_messages` archives (`RecapsRight`). It is stated without misjudged publishes and
repeated deliveries, which make a second carrier.

`AnswerInv` has two halves. `DeadAreDead`: a request without `:alive` and `:done`
that the sweep can find has a dead agent, and what each sweep has read so far still
means that when it acts on it; late heartbeats and repeated deliveries break this half. `OneSpeaker`: the
submit answers only while nothing was handed over, the agent only from one result,
the watchdog only for an agent that died without one; these exclude each other
(`Turns`). It is stated without the faults that give a request a second speaker:
repeated deliveries, stalled agents, misjudged publishes, marks that are lost and
crashes between a handler's two steps (`OneChain`).

`MediaInv` follows an upload and its object through both stores. `Life`: a row is
written once, and after its object. `Objects`: at each step of an upload none of whose
own calls failed, whether its object is there; this holds per upload, whatever a
sibling's rollback or commit does to the session, which is what makes it work for any
number of siblings. `Pictures`: a public row fits its picture, but while the script is
between the put and the row. `Purchases`: a picture that was bought is in the cache or
about to be. `Finite` is there because the script's counters count sets.

Loops. A loop of the code whose result a theorem speaks about is a recursive
function, over a chat (`Planning`, `Merging`), a file (`Filtering`) or a list of lines
(`AddingLines`). That such a function exists and equals what it is written as, at
every position, is proved from the least position where it would fail
(`LeastNat`, `LoopExists`, `UpTo`): the library's induction theorems take
operators, which the provers cannot instantiate. What the loop computes is then
proved in the same way, as an invariant of its positions.

Each proof has one step per action. The runs check the inductive `ClaimInv`,
`ReportInv` and `CaughtUp` themselves. `FlightInv` and `AnswerInv` hold on the instances of
their runs as well, and `MediaInv` on that of `records`; the runs check what follows
from them.

Every invariant and every action property of the passing runs is a theorem, and so is the
refinement `KeepsLedger`. Only model-checked, and why:
* Liveness and `ENABLED`, which the prover cannot state rules for:
  `EverySummaryEnds`, `EveryMessageAnswered`, `RelayEnds`, `MessageArrives`.
* The violations of section 3: counterexamples are what TLC is for.

No module that is proved about reaches a RECURSIVE operator.

## 6. Plan
Done: 1 Summarization, ChapterPlan, ChapterLedger and their proofs; 2 Generation
and its proof; 3 ChatEvents and its proof; 4 TokenRelay; 5 PromptHistory and its
proof; 6 Library, MediaStorage, LorebookImport, Search and ErrorResponses;
7 ContextBudget and FactRecall; 8 the proofs of Library, TokenRelay and
ContextBudget; 9 what is in flight in Summarization, with its refinement of
ChapterLedger and its queue; 10 the answers of Generation, the text of TokenRelay, the planner,
MediaStorage; 11 the order of the prompt, the budget and the recall; 12 the
listings, the imports and the errors.

What could follow: the edits of texts while a summary is written from them
(section 7), and the measure by which the relay and the queue of summaries come to
their end, as an invariant that a proof of liveness would use.

## 7. Not modelled, and why
* Prompt texts, schemas and the settings that only change a prompt's wording; the
  parsing of a judge's or a lorebook's text: data without control.
* The edits of a message's and of an opening message's text. They may come at any
  time, also while a summary is written from the message or while a chat is
  greeted with it; the recap or the greeting may then have the old text, which no
  property here speaks about.
* Passwords and tokens: cryptography. `create_user`, which no controller calls.
* Start-up, shutdown, dependency injection, middlewares, logging, migrations: no
  state the properties speak about. What the scopes of the container mean (one
  session for a request, which tasks of an import then share) is in MediaStorage.
* The mock gateways that answer inside the process, and the provider mock: they
  stand in for the agent in tests.
* Keepalives: they change nothing. An image's bytes and formats.
