------------------------------ MODULE MCPrompt ------------------------------
(***************************************************************************)
(* Small instances, for TLC, of everything that decides what a model is    *)
(* told: how the history is put together, how it is cut into chapters,     *)
(* whether it fits, and how well the recaps keep its facts.  The four      *)
(* share no state, so one of them (part) is looked at in a behaviour and   *)
(* the others rest.                                                        *)
(***************************************************************************)
EXTENDS PromptHistory, ChapterPlan, ContextBudget, FactRecall

CONSTANTS
  Parts,       \* what to look at
  MaxLength,   \* bound on the length of the chat that is cut into chapters
  MaxTokens,   \* bound on the tokens of one of its messages
  Chunk,       \* SUMMARY_CHUNK_TOKENS
  MaxTurns,    \* bound on the turns of the chat that is measured
  MaxFacts,    \* bound on the facts of a chapter
  NoNumber     \* a weight that int() refuses

ASSUME BoundsAssumption == Chunk \in Nat /\ MaxTokens \in Nat

VARIABLES part, input

parts == <<part, input>>
everything == <<allVars, parts>>

MCMessages == 1 .. 4
AnySummary == Permutations(Summaries)
MCReserve == [capped |-> 1, max |-> 5]

-----------------------------------------------------------------------------
(* plan_chapters over every chat within the bounds: it grows at its end,   *)
(* planned chapters are claimed, claims are released.                      *)

Plan == PlanChapters(input, Chunk)

AppendTo(tokens) ==
  /\ Len(input) < MaxLength
  /\ input' = Append(input, [id |-> Len(input) + 1, free |-> TRUE, tokens |-> tokens])
  /\ UNCHANGED part

\* claim_messages of the chapter at index i of the plan.
Claim(i) ==
  /\ input' = Claimed(input, Plan[i])
  /\ UNCHANGED part

\* release_messages, when the summary that claimed first..last failed.
Release(first, last) ==
  /\ \A k \in first..last : ~input[k].free
  /\ input' = [k \in DOMAIN input |->
                 IF k \in first..last THEN [input[k] EXCEPT !.free = TRUE] ELSE input[k]]
  /\ UNCHANGED part

ChaptersNext ==
  \/ \E tokens \in 0..MaxTokens : AppendTo(tokens)
  \/ \E i \in DOMAIN Plan : Claim(i)
  \/ \E first \in DOMAIN input : \E last \in first..Len(input) : Release(first, last)

-----------------------------------------------------------------------------
(* A chat gets its turns, then a message is sent in it; a judge is given   *)
(* facts, then answers.                                                    *)

NewTurns == [chosen |-> FALSE, history |-> <<>>]
NewFacts == [chosen |-> FALSE, facts |-> <<>>]

AddTurn(tokens) ==
  /\ Len(input.history) < MaxTurns
  /\ input' = [input EXCEPT !.history = Append(@, tokens)]
  /\ UNCHANGED part

Measure(cards, message, window, override, limit) ==
  /\ input' = [chosen |-> TRUE, base |-> 1, cards |-> cards, history |-> input.history,
               message |-> message, window |-> window, override |-> override, limit |-> limit]
  /\ UNCHANGED part

BudgetNext ==
  \/ \E tokens \in 1..3 : AddTurn(tokens)
  \/ \E cards \in {0, 4, 9}, message \in {1, 6}, window \in {2, 6, 20, Unlisted},
        override \in {1, 9, 30, NoSetting}, limit \in DOMAIN ReserveOf \cup {NoSetting} :
       Measure(cards, message, window, override, limit)

AddFact(weight) ==
  /\ Len(input.facts) < MaxFacts
  /\ input' = [input EXCEPT !.facts = Append(@, weight)]
  /\ UNCHANGED part

Answers == [id : 0..BatchSize + 1, verdict : {"supported", "contradicted"}]
Replies == SeqOf(Answers, 2)

Judge(replies, percent) ==
  /\ input' = [chosen |-> TRUE, facts |-> input.facts, replies |-> replies, percent |-> percent]
  /\ UNCHANGED part

\* The first batch may be answered with anything, the others briefly.
RecallNext ==
  \/ \E weight \in {NoNumber, -1, 2, 5} : AddFact(weight)
  \/ \E reply \in Replies, short \in SeqOf(Answers, 1), percent \in {0, 10, 50} :
       Judge([batch \in 1..Batches(input.facts) |-> IF batch = 1 THEN reply ELSE short], percent)

-----------------------------------------------------------------------------
MCInit ==
  /\ PromptInit
  /\ part \in Parts
  /\ input = CASE part = "chapters" -> <<>>
               [] part = "budget" -> NewTurns
               [] part = "recall" -> NewFacts
               [] OTHER -> <<>>

InputNext ==
  \/ part = "chapters" /\ ChaptersNext
  \/ part = "budget" /\ ~input.chosen /\ BudgetNext
  \/ part = "recall" /\ ~input.chosen /\ RecallNext

MCNext ==
  \/ part = "history" /\ PromptNext /\ UNCHANGED parts
  \/ InputNext /\ UNCHANGED allVars

MCSpec == MCInit /\ [][MCNext]_everything

-----------------------------------------------------------------------------
Chosen(what) == part = what /\ input.chosen

\* A plan is the greedy partition of the free messages, which neither drops
\* nor repeats nor moves one (plan_chapters).
ChaptersRight ==
  part = "chapters" =>
    LET cuts == [i \in DOMAIN Plan |-> [first |-> Head(Plan[i]), last |-> Last(Plan[i])]]
    IN Plan = Chapters(input, cuts) /\ IsPartition(input, cuts, Chunk, Len(input))

\* What the user was shown stays valid: picking a chapter, or a new message
\* at the end of the chat, changes no chapter but the picked and the last
\* one (several chapters of one list_chapters answer can be summarized).
OffersStand ==
  [][part = "chapters" =>
     LET plan == Plan
     IN /\ Len(input') > Len(input) =>
          \A i \in 1..(Len(plan) - 1) : i \in DOMAIN Plan' /\ Plan'[i] = plan[i]
        /\ \A i \in DOMAIN plan : Claim(i) => Plan' = RemoveAt(plan, i)]_everything

\* What is left for the prompt leaves room for the answer, and the overview
\* alarms nobody alone (LLMChatsService._usable_tokens, get_context_usage).
BudgetIsSound == Chosen("budget") => BudgetHolds(input)

\* Whatever a judge answers, each fact is rated once, by what was said of it
\* (FactRecallEvaluator).
RecallIsSound == Chosen("recall") => RecallIsHonest(input.facts, input.replies, input.percent)

\* "A prompt that cannot fit the model's (margined, reserve-adjusted) window
\* is rejected with CONTEXT_WINDOW_EXCEEDED before anything is persisted or
\* queued" (tests/unit/test_chats_service.py).
TooLongIsRefused == Chosen("budget") => AcceptedFits(input)
=============================================================================
