---------------------------- MODULE ContextBudget ----------------------------
(***************************************************************************)
(* The tokens of a prompt against the model's window (LLMChatsService,     *)
(* src/application/chats/llm_service.py, and src/application/ports/llm.py).*)
(*                                                                         *)
(* A chat is [base, cards, history, message, window, override, limit]:     *)
(* tokens of the fixed base prompt, of the chat-dependent sections after   *)
(* it, of each turn of the history and of the new message; the window of   *)
(* the model (Unlisted for testing_mock); contextLimitOverride and         *)
(* responseTokenLimit of the chat settings (NoSetting without them).       *)
(***************************************************************************)
EXTENDS Integers, Sequences, SequencesExt, FiniteSetsExt

CONSTANTS MinUsable,       \* CONTEXT_WINDOW_MIN_USABLE_TOKENS
          DefaultReserve,  \* DEFAULT_OUTPUT_RESERVE_TOKENS
          ReserveOf,       \* OUTPUT_RESERVE_BY_TOKEN_LIMIT
          SafeTenths,      \* CONTEXT_WINDOW_SAFETY_FACTOR, in tenths
          MaxHistory,      \* MAX_SEARCH_LIMIT
          Unlisted, NoSetting

ASSUME BudgetAssumption ==
  /\ MinUsable \in Nat /\ DefaultReserve \in Nat /\ MaxHistory \in Nat
  /\ SafeTenths \in 1..10
  /\ \A limit \in DOMAIN ReserveOf : ReserveOf[limit] \in Nat
  /\ Unlisted \notin Nat /\ NoSetting \notin Nat /\ NoSetting \notin DOMAIN ReserveOf

\* _search_history: one page, newest first, then turned round.
Page(history) ==
  IF Len(history) <= MaxHistory THEN history
  ELSE SubSeq(history, Len(history) - MaxHistory + 1, Len(history))

OutputReserve(chat) ==
  IF chat.limit \in DOMAIN ReserveOf THEN ReserveOf[chat.limit] ELSE DefaultReserve

Limit(chat) ==
  IF chat.override # NoSetting /\ chat.override < chat.window THEN chat.override ELSE chat.window

\* The form of UsableTokens without the floor.
UsableUnfloored(chat) == (Limit(chat) * SafeTenths) \div 10 - OutputReserve(chat)

UsableTokens(chat) ==
  LET usable == (Limit(chat) * SafeTenths) \div 10 - OutputReserve(chat)
  IN IF chat.window = Unlisted THEN 0 ELSE IF usable < MinUsable THEN MinUsable ELSE usable

Tokens(texts) == FoldLeft(LAMBDA sum, n : sum + n, 0, texts)

\* _count_parts: the system prompt, and the turns with the new message.
CountParts(chat, message, includeBase) ==
  [cards |-> chat.cards + (IF includeBase THEN chat.base ELSE 0),
   history |-> Tokens(Page(chat.history)) + message]

\* get_context_usage, for the chat's model.
Usage(chat) ==
  LET parts == CountParts(chat, 0, FALSE)
      total == parts.cards + parts.history
  IN [total |-> total, usable |-> UsableTokens(chat), remaining |-> UsableTokens(chat) - total,
      fits |-> total <= UsableTokens(chat)]

\* _require_fits_window: of the two counts only the first is looked at.
Accepted(chat) ==
  \/ chat.window = Unlisted
  \/ CountParts(chat, chat.message, TRUE).cards <= UsableTokens(chat)

\* What submit hands to the agent: the system prompt, the history, the message.
Sent(chat) == chat.base + chat.cards + Tokens(Page(chat.history)) + chat.message

-----------------------------------------------------------------------------
\* A listed model always leaves room for a message, whatever the settings
\* reserve ("must never drive usable_tokens to zero or below",
\* tests/unit/test_chats_service.py), and above that floor the answer still
\* fits below the window and below the user's own limit.
RoomForBoth(chat) ==
  /\ UsableTokens(chat) >= MinUsable
  /\ UsableTokens(chat) > MinUsable =>
       /\ UsableTokens(chat) + OutputReserve(chat) <= chat.window
       /\ chat.override # NoSetting => UsableTokens(chat) + OutputReserve(chat) <= chat.override

\* A new chat that the overview shows as too full is refused by the gate,
\* although the two count different parts of the prompt.
ShownAsFull(chat) == (chat.history = <<>> /\ ~Usage(chat).fits) => ~Accepted(chat)

\* The budget of a listed model (LLMChatsService).
BudgetHolds(chat) == chat.window # Unlisted => RoomForBoth(chat) /\ ShownAsFull(chat)

\* "A prompt that cannot fit the model's (margined, reserve-adjusted) window
\* is rejected with CONTEXT_WINDOW_EXCEEDED before anything is persisted or
\* queued" (tests/unit/test_chats_service.py).
AcceptedFits(chat) ==
  (chat.window # Unlisted /\ Accepted(chat)) => Sent(chat) <= UsableTokens(chat)
=============================================================================
