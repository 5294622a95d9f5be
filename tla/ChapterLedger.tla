--------------------------- MODULE ChapterLedger ---------------------------
(***************************************************************************)
(* What the summarization of a chat promises, without handlers, queues or  *)
(* an agent.  A summary is opened over free messages, which it holds alone;*)
(* it ends once: it seals everything it still holds, all at the same time, *)
(* and tells it in its recap, or it drops everything it holds.             *)
(* Summarization implements this as long as no publish is misjudged, no    *)
(* delivery doubled and no timeout fires under a running handler.          *)
(***************************************************************************)
EXTENDS Naturals

CONSTANTS
  Messages,   \* ids of the messages a chat may get
  Summaries,  \* ids of the summaries it may get
  NoSummary   \* the holder of a free message

ASSUME HolderAssumption == NoSummary \notin Summaries

VARIABLES
  unwritten,  \* messages still to come
  present,    \* messages in the chat
  holder,     \* who holds a message
  sealed,     \* messages replaced by a recap
  phase,      \* of a summary: "new", "open", "kept" or "dropped"
  told        \* what the recap of a summary tells

vars == <<unwritten, present, holder, sealed, phase, told>>

Phases == {"new", "open", "kept", "dropped"}

\* Every part of the ledger holds what its declaration says.
LedgerTypeOK ==
  /\ unwritten \in SUBSET Messages
  /\ present \in SUBSET Messages
  /\ holder \in [Messages -> Summaries \cup {NoSummary}]
  /\ sealed \in SUBSET Messages
  /\ phase \in [Summaries -> Phases]
  /\ told \in [Summaries -> SUBSET Messages]

Init ==
  /\ unwritten = Messages
  /\ present = {}
  /\ holder = [m \in Messages |-> NoSummary]
  /\ sealed = {}
  /\ phase = [s \in Summaries |-> "new"]
  /\ told = [s \in Summaries |-> {}]

HeldBy(s) == {m \in present : holder[m] = s}

FreeMessages == {m \in present : holder[m] = NoSummary}

\* A message is written, once.
Write(m) ==
  /\ m \in unwritten
  /\ unwritten' = unwritten \ {m}
  /\ present' = present \cup {m}
  /\ UNCHANGED <<holder, sealed, phase, told>>

\* A message is deleted, whoever holds it.
Delete(m) ==
  /\ m \in present
  /\ present' = present \ {m}
  /\ sealed' = sealed \ {m}
  /\ holder' = [holder EXCEPT ![m] = NoSummary]
  /\ UNCHANGED <<unwritten, phase, told>>

\* New summaries are opened, each over free messages of its own.
Open(S) ==
  /\ S # {}
  /\ \A s \in S : phase[s] = "new"
  /\ \E chapter \in [S -> SUBSET FreeMessages] :
       /\ \A s, r \in S : s # r => chapter[s] \cap chapter[r] = {}
       /\ holder' = [m \in Messages |->
                       IF \E s \in S : m \in chapter[s]
                       THEN CHOOSE s \in S : m \in chapter[s] ELSE holder[m]]
  /\ phase' = [s \in Summaries |-> IF s \in S THEN "open" ELSE phase[s]]
  /\ UNCHANGED <<unwritten, present, sealed, told>>

\* A summary is kept: what it still holds is sealed, and its recap tells
\* exactly that, besides messages that are deleted by now.
Seal(s) ==
  /\ phase[s] = "open"
  /\ phase' = [phase EXCEPT ![s] = "kept"]
  /\ sealed' = sealed \cup HeldBy(s)
  /\ \E W \in SUBSET (Messages \ unwritten) :
       /\ W \cap present = HeldBy(s)
       /\ told' = [told EXCEPT ![s] = W]
  /\ UNCHANGED <<unwritten, present, holder>>

\* The form of GiveUp that keeps what it holds.
GiveUpHolding(S) ==
  /\ S # {}
  /\ \A s \in S : phase[s] = "open"
  /\ phase' = [s \in Summaries |-> IF s \in S THEN "dropped" ELSE phase[s]]
  /\ UNCHANGED <<unwritten, present, holder, sealed, told>>

\* Summaries are given up and everything they hold is free again.
GiveUp(S) ==
  /\ S # {}
  /\ \A s \in S : phase[s] = "open"
  /\ phase' = [s \in Summaries |-> IF s \in S THEN "dropped" ELSE phase[s]]
  /\ holder' = [m \in Messages |-> IF holder[m] \in S THEN NoSummary ELSE holder[m]]
  /\ UNCHANGED <<unwritten, present, sealed, told>>

Next ==
  \/ \E m \in Messages : Write(m) \/ Delete(m)
  \/ \E S \in SUBSET Summaries : Open(S) \/ GiveUp(S)
  \/ \E s \in Summaries : Seal(s)

Spec == Init /\ [][Next]_vars

-----------------------------------------------------------------------------
\* A message is held by a summary that is open, or sealed by one that is kept.
HeldInPhase ==
  /\ sealed \subseteq present
  /\ \A m \in sealed : holder[m] # NoSummary
  /\ \A m \in Messages : holder[m] # NoSummary =>
       /\ m \in present
       /\ phase[holder[m]] = IF m \in sealed THEN "kept" ELSE "open"

\* Every message of the chat is told exactly once: verbatim while it is not
\* sealed, in the recap of the one summary that sealed it afterwards
\* (_load_history sends the live messages and the COMPLETED summaries).
ToldExactlyOnce ==
  \A m \in present :
    {s \in Summaries : phase[s] = "kept" /\ m \in told[s]}
      = IF m \in sealed THEN {holder[m]} ELSE {}

\* At every moment the prompt can tell each message once: by whoever the
\* claim columns and the summary's status say.
LedgerTells == HeldInPhase /\ ToldExactlyOnce
=============================================================================
