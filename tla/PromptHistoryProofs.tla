------------------------ MODULE PromptHistoryProofs ------------------------
(* Proofs about prompts, for any chat and any number of requests: of the   *)
(* ledger they are read from, of what they tell, and of whether they fit.  *)
EXTENDS MCPrompt, ChapterPlanProofs, FiniteSetTheorems, TLAPS

-----------------------------------------------------------------------------
(* The promise of summarization, for every chat.                           *)

\* What makes the promise inductive: recaps tell only of what was written.
LedgerInv ==
  /\ LedgerTypeOK
  /\ HeldInPhase
  /\ ToldExactlyOnce
  /\ present \cap unwritten = {}
  /\ \A s \in Summaries : told[s] \cap unwritten = {}

\* A chat begins with nothing told.
LEMMA InitLedgerInv == Init => LedgerInv
BY DEF Init, LedgerInv, LedgerTypeOK, HeldInPhase, ToldExactlyOnce, Phases

\* ToldExactlyOnce, one message and one summary at a time.
LEMMA ToldPointwise ==
  ASSUME LedgerTypeOK, HeldInPhase
  PROVE  ToldExactlyOnce <=>
           \A m \in present, s \in Summaries :
             (phase[s] = "kept" /\ m \in told[s]) <=> (m \in sealed /\ holder[m] = s)
<1>1. \A m \in present : m \in sealed => holder[m] \in Summaries
  BY DEF LedgerTypeOK, HeldInPhase
<1> QED
  BY <1>1 DEF ToldExactlyOnce

\* Every step of the ledger keeps it consistent.
LEMMA StepLedgerInv == LedgerInv /\ [Next]_vars => LedgerInv'
<1> SUFFICES ASSUME LedgerInv, [Next]_vars
             PROVE  LedgerInv'
    OBVIOUS
<1> USE HolderAssumption DEF Phases
<1> DEFINE PointwiseStep ==
      \A m \in present, s \in Summaries :
        (phase[s] = "kept" /\ m \in told[s]) <=> (m \in sealed /\ holder[m] = s)
<1>0. PointwiseStep
  BY ToldPointwise DEF LedgerInv
<1>1. ASSUME LedgerTypeOK', HeldInPhase', PointwiseStep',
             (present \cap unwritten = {})',
             (\A s \in Summaries : told[s] \cap unwritten = {})'
      PROVE  LedgerInv'
  <2>1. ToldExactlyOnce'
    <3>1. \A m \in present' : m \in sealed' => holder'[m] \in Summaries
      BY <1>1 DEF LedgerTypeOK, HeldInPhase
    <3> QED
      BY <1>1, <3>1 DEF ToldExactlyOnce
  <2> QED
    BY <1>1, <2>1 DEF LedgerInv
<1>2. ASSUME NEW m \in Messages, Write(m)
      PROVE  LedgerInv'
  <2>1. LedgerTypeOK' /\ HeldInPhase'
    BY <1>2 DEF Write, LedgerInv, LedgerTypeOK, HeldInPhase
  <2>2. PointwiseStep'
    BY <1>0, <1>2 DEF Write, LedgerInv, LedgerTypeOK, HeldInPhase
  <2> QED
    BY <1>1, <1>2, <2>1, <2>2 DEF Write, LedgerInv, LedgerTypeOK
<1>3. ASSUME NEW m \in Messages, Delete(m)
      PROVE  LedgerInv'
  <2>1. LedgerTypeOK' /\ HeldInPhase'
    BY <1>3 DEF Delete, LedgerInv, LedgerTypeOK, HeldInPhase
  <2>2. PointwiseStep'
    BY <1>0, <1>3 DEF Delete, LedgerInv, LedgerTypeOK, HeldInPhase
  <2> QED
    BY <1>1, <1>3, <2>1, <2>2 DEF Delete, LedgerInv, LedgerTypeOK
<1>4. ASSUME NEW S \in SUBSET Summaries, Open(S)
      PROVE  LedgerInv'
  <2>1. PICK chapter \in [S -> SUBSET FreeMessages] :
          /\ \A s, r \in S : s # r => chapter[s] \cap chapter[r] = {}
          /\ holder' = [m \in Messages |->
                          IF \E s \in S : m \in chapter[s]
                          THEN CHOOSE s \in S : m \in chapter[s] ELSE holder[m]]
    BY <1>4 DEF Open
  <2>2. /\ \A s \in S : phase[s] = "new"
        /\ phase' = [s \in Summaries |-> IF s \in S THEN "open" ELSE phase[s]]
        /\ UNCHANGED <<unwritten, present, sealed, told>>
    BY <1>4 DEF Open
  <2>3. ASSUME NEW m \in Messages
        PROVE  \/ /\ m \in present /\ holder[m] = NoSummary
                  /\ holder'[m] \in S
               \/ holder'[m] = holder[m]
    BY <2>1 DEF FreeMessages
  <2>4. LedgerTypeOK'
    <3>1. holder' \in [Messages -> Summaries \cup {NoSummary}]
      BY <2>1 DEF LedgerInv, LedgerTypeOK
    <3> QED
      BY <2>2, <3>1 DEF LedgerInv, LedgerTypeOK
  <2>5. HeldInPhase'
    BY <2>2, <2>3 DEF LedgerInv, LedgerTypeOK, HeldInPhase
  <2>6. PointwiseStep'
    BY <1>0, <2>2, <2>3 DEF LedgerInv, LedgerTypeOK, HeldInPhase
  <2> QED
    BY <1>1, <2>2, <2>4, <2>5, <2>6 DEF LedgerInv
<1>5. ASSUME NEW s \in Summaries, Seal(s)
      PROVE  LedgerInv'
  <2>1. PICK W \in SUBSET (Messages \ unwritten) :
          /\ W \cap present = HeldBy(s)
          /\ told' = [told EXCEPT ![s] = W]
    BY <1>5 DEF Seal
  <2>2. /\ phase[s] = "open"
        /\ phase' = [phase EXCEPT ![s] = "kept"]
        /\ sealed' = sealed \cup HeldBy(s)
        /\ UNCHANGED <<unwritten, present, holder>>
    BY <1>5 DEF Seal
  <2>3. LedgerTypeOK'
    BY <2>1, <2>2 DEF LedgerInv, LedgerTypeOK, HeldBy
  <2>4. HeldInPhase'
    BY <2>2 DEF LedgerInv, LedgerTypeOK, HeldInPhase, HeldBy
  <2>5. PointwiseStep'
    <3> SUFFICES ASSUME NEW m \in present, NEW r \in Summaries
                 PROVE  (phase'[r] = "kept" /\ m \in told'[r])
                          <=> (m \in sealed' /\ holder[m] = r)
      BY <2>2
    <3>1. CASE r = s
      BY <2>1, <2>2, <3>1 DEF LedgerInv, LedgerTypeOK, HeldInPhase, HeldBy
    <3>2. CASE r # s
      <4>1. phase'[r] = phase[r] /\ told'[r] = told[r]
        BY <2>1, <2>2, <3>2 DEF LedgerInv, LedgerTypeOK
      <4> QED
        BY <1>0, <2>2, <3>2, <4>1 DEF HeldBy
    <3> QED
      BY <3>1, <3>2
  <2>6. \A r \in Summaries : told'[r] \cap unwritten = {}
    BY <2>1 DEF LedgerInv, LedgerTypeOK
  <2> QED
    BY <1>1, <2>2, <2>3, <2>4, <2>5, <2>6 DEF LedgerInv
<1>6. ASSUME NEW S \in SUBSET Summaries, GiveUp(S)
      PROVE  LedgerInv'
  <2>1. LedgerTypeOK' /\ HeldInPhase'
    BY <1>6 DEF GiveUp, LedgerInv, LedgerTypeOK, HeldInPhase
  <2>2. PointwiseStep'
    BY <1>0, <1>6 DEF GiveUp, LedgerInv, LedgerTypeOK, HeldInPhase
  <2> QED
    BY <1>1, <1>6, <2>1, <2>2 DEF GiveUp, LedgerInv
<1>7. CASE UNCHANGED vars
  BY <1>7 DEF vars, LedgerInv, LedgerTypeOK, HeldInPhase, ToldExactlyOnce
<1> QED
  BY <1>2, <1>3, <1>4, <1>5, <1>6, <1>7 DEF Next

\* In every chat that keeps the ledger, claims fit the status of their
\* summaries and every message is told exactly once: verbatim, or in the
\* recap of the one summary that sealed it.
THEOREM EverythingToldOnce == Spec => []LedgerTells
<1>1. Spec => []LedgerInv
  BY InitLedgerInv, StepLedgerInv, PTL DEF Spec
<1>2. LedgerInv => LedgerTells
  BY DEF LedgerInv, LedgerTells
<1> QED
  BY <1>1, <1>2, PTL

-----------------------------------------------------------------------------
(* Prompts.                                                                *)

\* What a request relies on between its two queries: a message it has not
\* read is told by a summary that is COMPLETED, and will be when it reads
\* the summaries.
ReadOrTold ==
  \A l \in Loaders :
    /\ load[l].pc = "page" =>
         \A m \in load[l].asked :
           m \in load[l].page \/ \E s \in Kept : m \in told[s]
    /\ load[l].pc = "done" =>
         /\ load[l].recaps \subseteq Kept
         /\ \A m \in load[l].asked :
              m \in load[l].page \/ \E s \in load[l].recaps : m \in told[s]

\* What was COMPLETED at the first query tells nothing of what was read.
PageUntold ==
  \A l \in Loaders :
    /\ load[l].before \subseteq Kept
    /\ \A s \in load[l].before : load[l].page \cap told[s] = {}

PromptInv ==
  /\ LedgerInv
  /\ load \in [Loaders -> Load]
  /\ ReadOrTold
  /\ PageUntold

\* What is finished stays finished, and its text stays as it is.
LEMMA KeptStays ==
  ASSUME LedgerInv, [Next]_vars
  PROVE  \A s \in Kept : s \in Kept' /\ told'[s] = told[s]
<1> SUFFICES ASSUME NEW s \in Summaries, phase[s] = "kept"
             PROVE  phase'[s] = "kept" /\ told'[s] = told[s]
    BY DEF Kept
<1>1. ASSUME NEW m \in Messages, Write(m) \/ Delete(m)
      PROVE  phase'[s] = "kept" /\ told'[s] = told[s]
  BY <1>1 DEF Write, Delete
<1>2. ASSUME NEW S \in SUBSET Summaries, Open(S)
      PROVE  phase'[s] = "kept" /\ told'[s] = told[s]
  <2>1. s \notin S
    BY <1>2 DEF Open
  <2> QED
    BY <1>2, <2>1 DEF Open
<1>3. ASSUME NEW S \in SUBSET Summaries, GiveUp(S)
      PROVE  phase'[s] = "kept" /\ told'[s] = told[s]
  <2>1. s \notin S
    BY <1>3 DEF GiveUp
  <2> QED
    BY <1>3, <2>1 DEF GiveUp
<1>4. ASSUME NEW r \in Summaries, Seal(r)
      PROVE  phase'[s] = "kept" /\ told'[s] = told[s]
  <2>1. s # r
    BY <1>4 DEF Seal
  <2>2. PICK W \in SUBSET (Messages \ unwritten) : told' = [told EXCEPT ![r] = W]
    BY <1>4 DEF Seal
  <2> QED
    BY <1>4, <2>1, <2>2 DEF Seal, LedgerInv, LedgerTypeOK
<1>5. CASE UNCHANGED vars
  BY <1>5 DEF vars
<1> QED
  BY <1>1, <1>2, <1>3, <1>4, <1>5 DEF Next

\* Every step of the chat leaves what a request relies on in place.
LEMMA ChatKeepsReading ==
  ASSUME PromptInv, [Next]_vars, load' = load
  PROVE  PromptInv'
<1>1. LedgerInv'
  BY StepLedgerInv DEF PromptInv
<1>2. \A s \in Kept : s \in Kept' /\ told'[s] = told[s]
  BY KeptStays DEF PromptInv
<1>3. ReadOrTold'
  BY <1>2 DEF PromptInv, ReadOrTold
<1>4. PageUntold'
  BY <1>2 DEF PromptInv, PageUntold
<1> QED
  BY <1>1, <1>3, <1>4 DEF PromptInv

\* A message that is not in the page is sealed, so its summary tells it.
LEMMA SealedIsTold ==
  ASSUME LedgerInv, NEW m \in present, m \in sealed
  PROVE  \E s \in Kept : m \in told[s]
<1>1. holder[m] \in Summaries /\ phase[holder[m]] = "kept"
  BY DEF LedgerInv, LedgerTypeOK, HeldInPhase
<1>2. m \in told[holder[m]]
  BY DEF LedgerInv, ToldExactlyOnce
<1> QED
  BY <1>1, <1>2 DEF Kept

\* A message that is in the page is in no recap yet.
LEMMA LiveIsUntold ==
  ASSUME LedgerInv, NEW s \in Kept
  PROVE  LiveMessages \cap told[s] = {}
<1>1. \A m \in LiveMessages :
        {r \in Summaries : phase[r] = "kept" /\ m \in told[r]} = {}
  BY DEF LedgerInv, ToldExactlyOnce, LiveMessages
<1> QED
  BY <1>1 DEF Kept

\* No step of a request or of a summary breaks what ties prompts to the ledger.
LEMMA StepPromptInv == PromptInv /\ [PromptNext]_allVars => PromptInv'
<1> SUFFICES ASSUME PromptInv, [PromptNext]_allVars
             PROVE  PromptInv'
    OBVIOUS
<1>1. ASSUME NEW m \in Messages, AddMessage(m) \/ DeleteMessage(m)
      PROVE  PromptInv'
  BY <1>1, ChatKeepsReading DEF AddMessage, DeleteMessage, promptVars, Next
<1>2. ASSUME NEW S \in SUBSET Summaries, OpenChapters(S) \/ Fail(S)
      PROVE  PromptInv'
  <2>1. [Next]_vars /\ load' = load
    BY <1>2 DEF OpenChapters, Fail, promptVars, Next
  <2> QED
    BY <2>1, ChatKeepsReading
<1>3. ASSUME NEW s \in Summaries, Complete(s)
      PROVE  PromptInv'
  BY <1>3, ChatKeepsReading DEF Complete, promptVars, Next
<1>4. ASSUME NEW l \in Loaders, ReadPage(l) \/ ReadRecaps(l) \/ Use(l)
      PROVE  PromptInv'
  <2>1. UNCHANGED vars
    BY <1>4 DEF ReadPage, ReadRecaps, Use
  <2>2. LedgerInv' /\ Kept' = Kept /\ told' = told
    BY <2>1, StepLedgerInv DEF PromptInv, vars, Kept
  <2>3. CASE ReadPage(l)
    <3>1. load' = [load EXCEPT ![l] =
            [pc |-> "page", page |-> LiveMessages, recaps |-> {},
             asked |-> present, before |-> Kept]]
      BY <2>3 DEF ReadPage
    <3>2. LiveMessages \in SUBSET Messages /\ present \in SUBSET Messages
          /\ Kept \in SUBSET Summaries
      BY DEF LiveMessages, Kept, PromptInv, LedgerInv, LedgerTypeOK
    <3>3. load' \in [Loaders -> Load]
      BY <3>1, <3>2 DEF PromptInv, Load
    <3>4. \A m \in present : m \in LiveMessages \/ \E s \in Kept : m \in told[s]
      BY SealedIsTold DEF LiveMessages, PromptInv
    <3>5. ReadOrTold'
      BY <2>2, <3>1, <3>4 DEF ReadOrTold, PromptInv
    <3>6. PageUntold'
      BY <2>2, <3>1, LiveIsUntold DEF PageUntold, PromptInv
    <3> QED
      BY <2>2, <3>3, <3>5, <3>6 DEF PromptInv
  <2>4. CASE ReadRecaps(l)
    <3>1. /\ load[l].pc = "page"
          /\ load' = [load EXCEPT ![l].pc = "done", ![l].recaps = Kept]
      BY <2>4 DEF ReadRecaps
    <3>2. load[l] \in Load
      BY DEF PromptInv
    <3>3. load' \in [Loaders -> Load]
      BY <3>1, <3>2 DEF PromptInv, Load, Kept
    <3>4. /\ load'[l].pc = "done"
          /\ load'[l].recaps = Kept
          /\ load'[l].asked = load[l].asked
          /\ load'[l].page = load[l].page
          /\ load'[l].before = load[l].before
      BY <3>1, <3>2 DEF PromptInv, Load
    <3>5. \A k \in Loaders : k # l => load'[k] = load[k]
      BY <3>1 DEF PromptInv
    <3>6. ReadOrTold'
      BY <2>2, <3>1, <3>4, <3>5 DEF ReadOrTold, PromptInv
    <3>7. PageUntold'
      BY <2>2, <3>1, <3>4, <3>5 DEF PageUntold, PromptInv
    <3> QED
      BY <2>2, <3>3, <3>6, <3>7 DEF PromptInv
  <2>5. CASE Use(l)
    <3>1. load' = [load EXCEPT ![l] = NoLoad]
      BY <2>5 DEF Use
    <3>2. load' \in [Loaders -> Load]
      BY <3>1 DEF PromptInv, Load, NoLoad
    <3>3. ReadOrTold'
      BY <2>2, <3>1 DEF ReadOrTold, PromptInv, NoLoad
    <3>4. PageUntold'
      BY <2>2, <3>1 DEF PageUntold, PromptInv, NoLoad
    <3> QED
      BY <2>2, <3>2, <3>3, <3>4 DEF PromptInv
  <2> QED
    BY <1>4, <2>3, <2>4, <2>5
<1>5. CASE UNCHANGED allVars
  <2>1. [Next]_vars /\ load' = load
    BY <1>5 DEF allVars, promptVars
  <2> QED
    BY <2>1, ChatKeepsReading
<1> QED
  BY <1>1, <1>2, <1>3, <1>4, <1>5 DEF PromptNext

\* So it always holds.
LEMMA PromptInvHolds == PromptSpec => []PromptInv
<1>1. PromptInit => PromptInv
  BY InitLedgerInv DEF PromptInit, PromptInv, ReadOrTold, PageUntold, NoLoad, Load
<1> QED
  BY <1>1, StepPromptInv, PTL DEF PromptSpec

\* _load_history never loses a message: whatever was in the chat when the
\* prompt was begun is told by it, whatever else happens meanwhile.
THEOREM NothingMissing == PromptSpec => []PromptMissesNothing
<1>1. PromptInv => PromptMissesNothing
  BY DEF PromptInv, ReadOrTold, PromptMissesNothing
<1> QED
  BY <1>1, PromptInvHolds, PTL

\* _load_history tells a message twice only when its summary completes
\* between the two queries, and never in two recaps.
THEOREM TwiceOnlyByRace == PromptSpec => []TwiceOnlyInRace
<1>1. ASSUME PromptInv
      PROVE  TwiceOnlyInRace
  <2> SUFFICES ASSUME NEW l \in Loaders, load[l].pc = "done",
                      NEW s \in load[l].recaps
               PROVE  /\ \A m \in load[l].page \cap told[s] : s \notin load[l].before
                      /\ \A m \in present \cap told[s] :
                           \A r \in load[l].recaps : m \in told[r] => r = s
      BY DEF TwiceOnlyInRace
  <2>1. \A m \in load[l].page \cap told[s] : s \notin load[l].before
    BY <1>1 DEF PromptInv, PageUntold
  <2>2. \A r \in load[l].recaps : r \in Summaries /\ phase[r] = "kept"
    BY <1>1 DEF PromptInv, ReadOrTold, Kept
  <2>3. ASSUME NEW m \in present, NEW r \in load[l].recaps,
               m \in told[r], m \in told[s]
        PROVE  r = s
    BY <1>1, <2>2, <2>3 DEF PromptInv, LedgerInv, ToldExactlyOnce
  <2> QED
    BY <2>1, <2>3
<1> QED
  BY <1>1, PromptInvHolds, PTL

\* The two queries of _load_history together tell what one would, up to a
\* repetition by a summary that completes between them.
THEOREM PromptIsRight == PromptSpec => []PromptTells
<1>1. PromptMissesNothing /\ TwiceOnlyInRace => PromptTells
  BY DEF PromptTells
<1> QED
  BY <1>1, NothingMissing, TwiceOnlyByRace, PTL

-----------------------------------------------------------------------------
(* Types.                                                                  *)

\* The greatest of a bounded set of numbers.
LEMMA GreatestNat ==
  ASSUME NEW S \in SUBSET Nat, S # {}, NEW b \in Nat, \A m \in S : m <= b
  PROVE  \E x \in S : \A y \in S : x >= y
<1>1. PICK T : T = {b - m : m \in S}
  OBVIOUS
<1>2. T \in SUBSET Nat /\ T # {}
  <2>1. \A m \in S : b - m \in Nat
    OBVIOUS
  <2>2. T \subseteq Nat
    BY <1>1, <2>1
  <2>3. T # {}
    BY <1>1
  <2> QED
    BY <2>2, <2>3
<1>3. PICK t \in T : \A u \in T : t <= u
  BY <1>2, LeastNat
<1>4. PICK x \in S : t = b - x
  BY <1>1
<1>5. ASSUME NEW y \in S
      PROVE  x >= y
  <2>1. b - y \in T
    BY <1>1
  <2>2. b - x <= b - y
    BY <1>3, <1>4, <2>1
  <2> QED
    BY <2>2
<1> QED
  BY <1>4, <1>5

\* A chapter has a first and a last message.
LEMMA SpanOfChapter ==
  ASSUME NEW S \in SUBSET Messages, S # {}, NEW b \in Nat, \A m \in S : m <= b
  PROVE  SpanOf(S) \in Span
<1>1. S \in SUBSET Nat
  BY CreatedAtAssumption
<1>2. Min(S) \in S
  <2>1. \E x \in S : \A y \in S : x =< y
    BY <1>1, LeastNat
  <2> QED
    BY <2>1, Zenon DEF Min
<1>3. Max(S) \in S
  <2>1. \E x \in S : \A y \in S : x >= y
    BY <1>1, GreatestNat
  <2> QED
    BY <2>1, Zenon DEF Max
<1> QED
  BY <1>2, <1>3 DEF SpanOf, Span

\* What gives every chapter an end: only finitely many messages are there.
Bounded == \E b \in Nat : \A m \in present : m <= b

TypeInv == PromptTypeOK /\ Bounded

\* Spans and requests keep their types, since a chapter has both its ends.
LEMMA StepTypeInv == PromptInv /\ TypeInv /\ [PromptNext]_allVars => TypeInv'
<1> SUFFICES ASSUME PromptInv, TypeInv, [PromptNext]_allVars
             PROVE  TypeInv'
    OBVIOUS
<1>1. PromptInv'
  BY StepPromptInv
<1>2. LedgerTypeOK' /\ load' \in [Loaders -> Load]
  BY <1>1 DEF PromptInv, LedgerInv
<1>3. LedgerTypeOK /\ \A s \in Summaries : phase[s] # "new" => span[s] \in Span
  BY DEF TypeInv, PromptTypeOK
<1>4. ASSUME NEW m \in Messages, AddMessage(m)
      PROVE  TypeInv'
  <2>1. late' \in SUBSET Messages /\ UNCHANGED <<span, phase>>
    BY <1>4 DEF AddMessage, Write, TypeInv, PromptTypeOK
  <2>2. Bounded'
    <3>1. PICK b \in Nat : \A n \in present : n <= b
      BY DEF TypeInv, Bounded
    <3>2. present' = present \cup {m} /\ m \in Nat /\ present \in SUBSET Nat
      BY <1>3, <1>4, CreatedAtAssumption DEF AddMessage, Write, LedgerTypeOK
    <3>3. \A n \in present' : n <= b + m
      BY <3>1, <3>2
    <3>4. b + m \in Nat
      BY <3>2
    <3> QED
      BY <3>3, <3>4 DEF Bounded
  <2> QED
    BY <1>2, <1>3, <2>1, <2>2 DEF TypeInv, PromptTypeOK
<1>5. ASSUME NEW S \in SUBSET Summaries, OpenChapters(S)
      PROVE  TypeInv'
  <2>1. PICK b \in Nat : \A m \in present : m <= b
    BY DEF TypeInv, Bounded
  <2>2. UNCHANGED <<present, late>> /\ phase' = [s \in Summaries |-> IF s \in S THEN "open" ELSE phase[s]]
    BY <1>5 DEF OpenChapters, Open
  <2>3. ASSUME NEW s \in Summaries, phase'[s] # "new"
        PROVE  span'[s] \in Span
    <3>1. CASE s \in S
      <4>1. PICK chapter : chapter = {m \in present : holder'[m] = s}
        OBVIOUS
      <4>2. chapter # {} /\ span'[s] = SpanOf(chapter)
        BY <1>5, <3>1, <4>1 DEF OpenChapters
      <4>3. chapter \in SUBSET Messages /\ \A m \in chapter : m <= b
        BY <1>3, <2>1, <4>1 DEF LedgerTypeOK
      <4> QED
        BY <4>2, <4>3, SpanOfChapter
    <3>2. CASE s \notin S
      BY <1>3, <1>5, <2>2, <2>3, <3>2 DEF OpenChapters
    <3> QED
      BY <3>1, <3>2
  <2> QED
    BY <1>2, <2>1, <2>2, <2>3 DEF TypeInv, PromptTypeOK, Bounded
<1>6. ASSUME UNCHANGED <<span, late>>, present' \subseteq present,
             \A s \in Summaries : phase'[s] # "new" => phase[s] # "new"
      PROVE  TypeInv'
  BY <1>2, <1>3, <1>6 DEF TypeInv, PromptTypeOK, Bounded
<1>7. ASSUME NEW m \in Messages, DeleteMessage(m)
      PROVE  TypeInv'
  BY <1>6, <1>7 DEF DeleteMessage, Delete, promptVars
<1>8. ASSUME NEW S \in SUBSET Summaries, Fail(S)
      PROVE  TypeInv'
  BY <1>6, <1>8, <1>3 DEF Fail, GiveUp, promptVars
<1>9. ASSUME NEW s \in Summaries, Complete(s)
      PROVE  TypeInv'
  BY <1>6, <1>9, <1>3 DEF Complete, Seal, promptVars, LedgerTypeOK
<1>10. ASSUME NEW l \in Loaders, ReadPage(l) \/ ReadRecaps(l) \/ Use(l)
       PROVE  TypeInv'
  BY <1>6, <1>10 DEF ReadPage, ReadRecaps, Use, vars
<1>11. CASE UNCHANGED allVars
  BY <1>6, <1>11 DEF allVars, vars, promptVars
<1> QED
  BY <1>4, <1>5, <1>7, <1>8, <1>9, <1>10, <1>11 DEF PromptNext

\* They have them to begin with.
LEMMA InitTypeInv == PromptInit => TypeInv
BY DEF PromptInit, Init, TypeInv, PromptTypeOK, LedgerTypeOK, Phases, Bounded, NoLoad, Load

\* A summary that was opened has the times of its first and its last message,
\* and what a request has read are messages and summaries of the chat
\* (_load_history).
THEOREM PromptTypeCorrect == PromptSpec => []PromptTypeOK
<1>1. PromptInit => TypeInv
  BY InitTypeInv
<1>2. TypeInv => PromptTypeOK
  BY DEF TypeInv
<1> QED
  BY <1>1, <1>2, PromptInvHolds, StepTypeInv, PTL DEF PromptSpec

-----------------------------------------------------------------------------
(* Sorting, for every finite set.                                          *)

\* The elements of S, each once, by rising key.
IsOrder(order, S, key) ==
  /\ order \in [1..Cardinality(S) -> S]
  /\ \A i, j \in 1..Cardinality(S) : i # j => order[i] # order[j]
  /\ \A i, j \in 1..Cardinality(S) : i < j => key[order[i]] <= key[order[j]]

\* One more element in front of an order.
LEMMA OrderInFront ==
  ASSUME NEW S, NEW key \in [S -> Nat], NEW T \in SUBSET S, IsFiniteSet(T),
         NEW x \in T, \A y \in T : key[x] <= key[y],
         NEW g, IsOrder(g, T \ {x}, key)
  PROVE  \E order : IsOrder(order, T, key)
<1>1. PICK n \in Nat : n = Cardinality(T) /\ n # 0 /\ Cardinality(T \ {x}) = n - 1
  BY FS_RemoveElement, FS_CardinalityType, FS_EmptySet
<1> DEFINE f == [k \in 1..n |-> IF k = 1 THEN x ELSE g[k - 1]]
<1>2. /\ g \in [1..(n - 1) -> T \ {x}]
      /\ \A i, j \in 1..(n - 1) : i # j => g[i] # g[j]
      /\ \A i, j \in 1..(n - 1) : i < j => key[g[i]] <= key[g[j]]
  BY <1>1 DEF IsOrder
<1>3. \A k \in 1..n : k = 1 \/ k - 1 \in 1..(n - 1)
  BY <1>1
<1>4. f \in [1..n -> T]
  BY <1>2, <1>3
<1>5. ASSUME NEW i \in 1..n, NEW j \in 1..n, i < j
      PROVE  f[i] # f[j] /\ key[f[i]] <= key[f[j]]
  <2>1. j # 1 /\ j - 1 \in 1..(n - 1) /\ f[j] = g[j - 1] /\ g[j - 1] \in T \ {x}
    BY <1>1, <1>2, <1>5
  <2>2. CASE i = 1
    BY <2>1, <2>2
  <2>3. CASE i # 1
    <3>1. i - 1 \in 1..(n - 1) /\ i - 1 < j - 1 /\ i - 1 # j - 1 /\ f[i] = g[i - 1]
      BY <1>1, <1>5, <2>3
    <3>2. g[i - 1] # g[j - 1] /\ key[g[i - 1]] <= key[g[j - 1]]
      BY <1>2, <2>1, <3>1
    <3> QED
      BY <2>1, <3>1, <3>2
  <2> QED
    BY <2>2, <2>3
<1>6. \A i, j \in 1..n : i # j => f[i] # f[j]
  <2> HIDE DEF f
  <2>1. \A i, j \in 1..n : i # j => i < j \/ j < i
    BY <1>1
  <2> QED
    BY <1>5, <2>1
<1>7. IsOrder(f, T, key)
  <2> HIDE DEF f
  <2> QED
    BY <1>1, <1>4, <1>5, <1>6 DEF IsOrder
<1> QED
  BY <1>7

\* Every finite set can be put in order.
LEMMA OrderExists ==
  ASSUME NEW S, NEW key \in [S -> Nat], IsFiniteSet(S)
  PROVE  \E order : IsOrder(order, S, key)
<1> DEFINE Fails(T) == ~\E order : IsOrder(order, T, key)
           Bad == {Cardinality(T) : T \in {U \in SUBSET S : Fails(U)}}
<1>1. ASSUME Fails(S)
      PROVE  FALSE
  <2>1. \A T \in SUBSET S : IsFiniteSet(T) /\ Cardinality(T) \in Nat
    BY FS_Subset, FS_CardinalityType
  <2>2. Bad \in SUBSET Nat /\ Bad # {}
    <3>1. S \in {U \in SUBSET S : Fails(U)}
      BY <1>1
    <3> HIDE DEF Fails
    <3> QED
      BY <2>1, <3>1
  <2>3. PICK n \in Bad : \A k \in Bad : n <= k
    <3> HIDE DEF Bad
    <3> QED
      BY <2>2, LeastNat
  <2>4. PICK T \in SUBSET S : Fails(T) /\ n = Cardinality(T)
    BY <2>3
  <2>5. T # {}
    <3>1. ASSUME T = {}
          PROVE  IsOrder(<<>>, T, key)
      <4>1. Cardinality(T) = 0 /\ 1..0 = {}
        BY <3>1, FS_EmptySet
      <4> QED
        BY <3>1, <4>1 DEF IsOrder
    <3> QED
      BY <2>4, <3>1
  <2> DEFINE K == {key[t] : t \in T}
  <2>6. K \in SUBSET Nat /\ K # {}
    BY <2>5
  <2>7. PICK c \in K : \A k \in K : c <= k
    <3> HIDE DEF K
    <3> QED
      BY <2>6, LeastNat
  <2>8. PICK x \in T : c = key[x]
    BY <2>7
  <2>9. \A y \in T : key[x] <= key[y]
    BY <2>7, <2>8
  <2>10. n \in Nat /\ n # 0 /\ Cardinality(T \ {x}) = n - 1 /\ T \ {x} \in SUBSET S
    BY <2>1, <2>4, <2>8, FS_RemoveElement, FS_EmptySet
  <2>11. ~Fails(T \ {x})
    <3>1. ASSUME Fails(T \ {x})
          PROVE  FALSE
      <4>1. n - 1 \in Bad
        <5> HIDE DEF Fails
        <5> QED
          BY <2>10, <3>1
      <4>2. n <= n - 1
        <5> HIDE DEF Bad, Fails
        <5> QED
          BY <2>3, <4>1
      <4> QED
        BY <2>10, <4>2
    <3> QED
      BY <3>1
  <2>12. PICK g : IsOrder(g, T \ {x}, key)
    BY <2>11
  <2> QED
    BY <2>1, <2>4, <2>9, <2>12, OrderInFront
<1> QED
  BY <1>1

\* What SortedBy gives.
LEMMA SortedByIs ==
  ASSUME NEW S, NEW key \in [S -> Nat], IsFiniteSet(S)
  PROVE  IsOrder(SortedBy(S, key), S, key)
<1>1. PICK order : IsOrder(order, S, key)
  BY OrderExists
<1>2. PICK n \in Nat : n = Cardinality(S)
  BY FS_CardinalityType
<1>3. order \in SetToSeqs(S) /\ DOMAIN order = 1..n
  BY <1>1, <1>2 DEF SetToSeqs, IsOrder
<1> DEFINE Right(q) == \A i, j \in DOMAIN q : i < j => key[q[i]] <= key[q[j]]
<1>4. \E q \in SetToSeqs(S) : Right(q)
  BY <1>1, <1>2, <1>3 DEF IsOrder
<1>5. SortedBy(S, key) = CHOOSE q \in SetToSeqs(S) : Right(q)
  BY DEF SortedBy
<1>6. SortedBy(S, key) \in SetToSeqs(S) /\ Right(SortedBy(S, key))
  <2> HIDE DEF Right
  <2> QED
    BY <1>4, <1>5, Zenon
<1> QED
  BY <1>2, <1>6 DEF SetToSeqs, IsOrder

-----------------------------------------------------------------------------
(* The merge of messages and recaps, for every page and every set of recaps. *)

Entry == [kind : {"message"}, of : Nat] \cup [kind : {"recap"}, of : Summaries]

\* What the loop is given: messages by time, summaries by their first message.
Timed(messages) ==
  messages \in Seq(Nat) /\ \A i, j \in 1..Len(messages) : i < j => messages[i] < messages[j]

HasSpan(s) ==
  s \in Summaries /\ span[s].from \in Nat /\ span[s].until \in Nat /\ span[s].from <= span[s].until

Waiting(waiting) ==
  /\ waiting \in Seq(Summaries)
  /\ \A k \in 1..Len(waiting) : HasSpan(waiting[k])
  /\ \A k, l \in 1..Len(waiting) : k < l => span[waiting[k]].from <= span[waiting[l]].from

\* A chapter that begins no later than that of s reaches to message m.
Blocked(waiting, s, m) ==
  \E k \in 1..Len(waiting) :
    span[waiting[k]].until >= m /\ span[waiting[k]].from <= span[s].from

Recapped(merged, j) == j \in 1..Len(merged) /\ merged[j].kind = "recap"
Quoted(merged, i) == i \in 1..Len(merged) /\ merged[i].kind = "message"

\* The recaps before a message end before it, and those after it are blocked.
Ordered(merged, waiting) ==
  \A i, j \in 1..Len(merged) :
    Quoted(merged, i) /\ Recapped(merged, j) =>
      /\ HasSpan(merged[j].of)
      /\ j < i => span[merged[j].of].until < merged[i].of
      /\ i < j => Blocked(waiting, merged[j].of, merged[i].of)

\* What the loop has after the message at position n.
Merged(acc, messages, waiting, n) ==
  /\ acc.merged \in Seq(Entry) /\ acc.taken \in 0..Len(waiting)
  /\ \A j \in 1..Len(acc.merged) : Recapped(acc.merged, j) =>
       HasSpan(acc.merged[j].of) /\ n # 0 /\ span[acc.merged[j].of].until < messages[n]
  /\ Ordered(acc.merged, waiting)
  /\ \A i \in 1..Len(acc.merged), k \in (acc.taken + 1)..Len(waiting) :
       Quoted(acc.merged, i) => Blocked(waiting, waiting[k], acc.merged[i].of)

\* Where the while loop stops.
LEMMA DueIs ==
  ASSUME NEW waiting, Waiting(waiting), NEW taken \in 0..Len(waiting), NEW m \in Nat
  PROVE  LET due == Due(waiting, taken, m) IN
         /\ due \in taken..Len(waiting)
         /\ \A k \in (taken + 1)..due : span[waiting[k]].until < m
         /\ due # Len(waiting) => span[waiting[due + 1]].until >= m
<1>0. PICK L \in Nat : L = Len(waiting)
  BY DEF Waiting
<1>1. PICK S : S = {n \in taken..L : n = L \/ span[waiting[n + 1]].until >= m}
  OBVIOUS
<1>2. S \in SUBSET Nat /\ L \in S
  BY <1>0, <1>1
<1>3. \E x \in S : \A y \in S : x <= y
  BY <1>2, LeastNat
<1>4. PICK due : due = Min(S)
  OBVIOUS
<1>5. due \in S /\ \A y \in S : due <= y
  BY <1>3, <1>4, Zenon DEF Min
<1>6. Due(waiting, taken, m) = due
  BY <1>0, <1>1, <1>4 DEF Due
<1>7. due \in taken..L /\ (due # L => span[waiting[due + 1]].until >= m)
  BY <1>1, <1>5
<1>8. ASSUME NEW k \in (taken + 1)..due
      PROVE  span[waiting[k]].until < m
  <2>1. k - 1 \in taken..L /\ k - 1 # L /\ ~(due <= k - 1) /\ k \in 1..L /\ (k - 1) + 1 = k
    BY <1>0, <1>7
  <2>2. k - 1 \notin S
    BY <1>5, <2>1
  <2>3. ~(span[waiting[k]].until >= m)
    BY <1>1, <2>1, <2>2
  <2>4. span[waiting[k]].until \in Nat
    BY <1>0, <2>1 DEF Waiting, HasSpan
  <2> QED
    BY <2>3, <2>4
<1> QED
  BY <1>0, <1>6, <1>7, <1>8

\* Recaps that are put in a row.
LEMMA RecapsAre ==
  ASSUME NEW waiting \in Seq(Summaries), NEW first \in Nat, NEW last \in first..Len(waiting)
  PROVE  /\ RecapsFrom(waiting, first, last) \in Seq(Entry)
         /\ Len(RecapsFrom(waiting, first, last)) = last - first
         /\ \A k \in 1..(last - first) :
              RecapsFrom(waiting, first, last)[k] = Recap(waiting[first + k])
<1>1. last - first \in Nat
  OBVIOUS
<1>2. \A k \in 1..(last - first) : waiting[first + k] \in Summaries
  OBVIOUS
<1>3. \A k \in 1..(last - first) : Recap(waiting[first + k]) \in Entry
  BY <1>2 DEF Recap, Entry
<1> QED
  BY <1>1, <1>3 DEF RecapsFrom

\* Two rows of entries after one another.
LEMMA InRow ==
  ASSUME NEW A \in Seq(Entry), NEW B \in Seq(Entry)
  PROVE  /\ A \o B \in Seq(Entry) /\ Len(A \o B) = Len(A) + Len(B)
         /\ \A i \in 1..(Len(A) + Len(B)) :
              /\ i <= Len(A) => i \in 1..Len(A) /\ (A \o B)[i] = A[i]
              /\ i > Len(A) => i - Len(A) \in 1..Len(B) /\ (A \o B)[i] = B[i - Len(A)]
OBVIOUS

IsRow(row, A, waiting, first, last) ==
  /\ row \in Seq(Entry) /\ Len(row) = Len(A) + (last - first)
  /\ \A i \in 1..Len(row) :
       \/ i \in 1..Len(A) /\ row[i] = A[i]
       \/ /\ i > Len(A) /\ first + (i - Len(A)) \in (first + 1)..last
          /\ row[i].kind = "recap" /\ row[i].of = waiting[first + (i - Len(A))]

\* The recaps of waiting chapters are in a row when the chapters are.
LEMMA RowOfRecaps ==
  ASSUME NEW A \in Seq(Entry), NEW waiting \in Seq(Summaries),
         NEW first \in Nat, NEW last \in first..Len(waiting)
  PROVE  IsRow(A \o RecapsFrom(waiting, first, last), A, waiting, first, last)
<1>1. PICK B : B = RecapsFrom(waiting, first, last)
  OBVIOUS
<1>2. B \in Seq(Entry) /\ Len(B) = last - first
      /\ \A k \in 1..(last - first) : B[k] = Recap(waiting[first + k])
  BY <1>1, RecapsAre
<1>3. PICK row : row = A \o B
  OBVIOUS
<1>4. row \in Seq(Entry) /\ Len(row) = Len(A) + Len(B)
      /\ \A i \in 1..(Len(A) + Len(B)) :
              /\ i <= Len(A) => i \in 1..Len(A) /\ row[i] = A[i]
              /\ i > Len(A) => i - Len(A) \in 1..Len(B) /\ row[i] = B[i - Len(A)]
  BY <1>2, <1>3, InRow
<1>5. ASSUME NEW i \in 1..Len(row), i > Len(A)
      PROVE  /\ first + (i - Len(A)) \in (first + 1)..last
             /\ row[i].kind = "recap" /\ row[i].of = waiting[first + (i - Len(A))]
  <2>1. i - Len(A) \in 1..(last - first) /\ row[i] = Recap(waiting[first + (i - Len(A))])
    BY <1>2, <1>4, <1>5
  <2> QED
    BY <2>1 DEF Recap
<1>6. Len(A) \in Nat /\ Len(row) \in Nat
  BY <1>4
<1>7. \A i \in 1..Len(row) : i <= Len(A) \/ i > Len(A)
  BY <1>6
<1>8. \A i \in 1..Len(row) : i <= Len(A) => i \in 1..Len(A) /\ row[i] = A[i]
  BY <1>4
<1> QED
  BY <1>1, <1>2, <1>3, <1>4, <1>5, <1>7, <1>8 DEF IsRow

\* Where a recap is appended after messages that it cannot precede.
LEMMA AppendRecaps ==
  ASSUME NEW acc, NEW messages, NEW waiting, Waiting(waiting), NEW n,
         Merged(acc, messages, waiting, n), NEW last \in acc.taken..Len(waiting)
  PROVE  /\ acc.merged \o RecapsFrom(waiting, acc.taken, last) \in Seq(Entry)
         /\ Ordered(acc.merged \o RecapsFrom(waiting, acc.taken, last), waiting)
<1>1. PICK A, first : A = acc.merged /\ first = acc.taken
  OBVIOUS
<1>2. /\ A \in Seq(Entry) /\ first \in 0..Len(waiting) /\ last \in first..Len(waiting)
      /\ waiting \in Seq(Summaries) /\ first \in Nat
  BY <1>1 DEF Merged, Waiting
<1>3. PICK row : row = A \o RecapsFrom(waiting, first, last)
  OBVIOUS
<1>4. /\ row \in Seq(Entry) /\ Len(row) = Len(A) + (last - first)
      /\ \A i \in 1..Len(row) :
           \/ i \in 1..Len(A) /\ row[i] = A[i]
           \/ /\ i > Len(A) /\ first + (i - Len(A)) \in (first + 1)..last
              /\ row[i].kind = "recap" /\ row[i].of = waiting[first + (i - Len(A))]
  <2>1. IsRow(A \o RecapsFrom(waiting, first, last), A, waiting, first, last)
    BY <1>2, RowOfRecaps
  <2> QED
    BY <1>3, <2>1 DEF IsRow
<1>5. ASSUME NEW i \in 1..Len(row), NEW j \in 1..Len(row), Quoted(row, i), Recapped(row, j)
      PROVE  /\ HasSpan(row[j].of)
             /\ j < i => span[row[j].of].until < row[i].of
             /\ i < j => Blocked(waiting, row[j].of, row[i].of)
  <2>1. i \in 1..Len(A) /\ row[i] = A[i] /\ Quoted(A, i)
    BY <1>4, <1>5 DEF Quoted
  <2>2. CASE j \in 1..Len(A) /\ row[j] = A[j]
    <3>1. Recapped(A, j)
      BY <1>5, <2>2 DEF Recapped
    <3>2. Ordered(A, waiting)
      BY <1>1 DEF Merged
    <3> QED
      BY <2>1, <2>2, <3>1, <3>2 DEF Ordered
  <2>3. CASE /\ j > Len(A) /\ first + (j - Len(A)) \in (first + 1)..last
             /\ row[j].of = waiting[first + (j - Len(A))]
    <3>1. ~(j < i)
      BY <1>2, <2>1, <2>3
    <3>2. first + (j - Len(A)) \in (first + 1)..Len(waiting)
      BY <1>2, <2>3
    <3>3. Blocked(waiting, waiting[first + (j - Len(A))], A[i].of)
      BY <1>1, <2>1, <3>2 DEF Merged
    <3>4. HasSpan(row[j].of)
      BY <1>2, <2>3, <3>2 DEF Waiting
    <3> QED
      BY <2>1, <2>3, <3>1, <3>3, <3>4
  <2> QED
    BY <1>4, <2>2, <2>3
<1>6. Ordered(row, waiting)
  BY <1>5 DEF Ordered
<1> QED
  BY <1>1, <1>3, <1>4, <1>6

\* One message more.
LEMMA StepMerged ==
  ASSUME NEW messages, Timed(messages), NEW waiting, Waiting(waiting),
         NEW n \in 1..Len(messages), NEW acc, Merged(acc, messages, waiting, n - 1)
  PROVE  Merged(MergeStep(acc, waiting, messages[n]), messages, waiting, n)
<1>1. PICK A, first, m, due : /\ A = acc.merged /\ first = acc.taken /\ m = messages[n]
                             /\ due = Due(waiting, first, m)
  OBVIOUS
<1>2. /\ A \in Seq(Entry) /\ first \in 0..Len(waiting) /\ m \in Nat /\ first \in Nat
      /\ waiting \in Seq(Summaries) /\ Len(waiting) \in Nat
  BY <1>1 DEF Merged, Waiting, Timed
<1>3. /\ due \in first..Len(waiting)
      /\ \A k \in (first + 1)..due : span[waiting[k]].until < m
      /\ due # Len(waiting) => span[waiting[due + 1]].until >= m
  BY <1>1, <1>2, DueIs
<1>4. PICK row : row = A \o RecapsFrom(waiting, first, due)
  OBVIOUS
<1>5. /\ row \in Seq(Entry) /\ Len(row) = Len(A) + (due - first)
      /\ \A i \in 1..Len(row) :
           \/ i \in 1..Len(A) /\ row[i] = A[i]
           \/ /\ i > Len(A) /\ first + (i - Len(A)) \in (first + 1)..due
              /\ row[i].kind = "recap" /\ row[i].of = waiting[first + (i - Len(A))]
  <2>1. IsRow(A \o RecapsFrom(waiting, first, due), A, waiting, first, due)
    BY <1>2, <1>3, RowOfRecaps
  <2> QED
    BY <1>4, <2>1 DEF IsRow
<1>6. Ordered(row, waiting)
  BY <1>1, <1>3, <1>4, AppendRecaps
<1>7. PICK z \in Nat : z = Len(row)
  BY <1>5
<1>8. PICK out : out = row \o <<Verbatim(m)>>
  OBVIOUS
<1>9. /\ out \in Seq(Entry) /\ Len(out) = z + 1 /\ out[z + 1] = Verbatim(m)
      /\ \A i \in 1..z : out[i] = row[i]
  <2>1. Verbatim(m) \in Entry
    BY <1>2 DEF Verbatim, Entry
  <2> QED
    BY <1>5, <1>7, <1>8, <2>1
<1>10. out[z + 1].kind = "message" /\ out[z + 1].of = m
  BY <1>9 DEF Verbatim
\* Every recap that is out ends before the message.
<1>11. ASSUME NEW j \in 1..z, Recapped(row, j)
       PROVE  HasSpan(row[j].of) /\ span[row[j].of].until < m
  <2>1. CASE j \in 1..Len(A) /\ row[j] = A[j]
    <3>1. Recapped(A, j)
      BY <1>11, <2>1 DEF Recapped
    <3>2. HasSpan(A[j].of) /\ n - 1 # 0 /\ span[A[j].of].until < messages[n - 1]
      BY <1>1, <2>1, <3>1 DEF Merged
    <3>3. messages[n - 1] < m /\ messages[n - 1] \in Nat
      BY <1>1, <3>2 DEF Timed
    <3>4. span[A[j].of].until \in Nat
      BY <3>2 DEF HasSpan
    <3> QED
      BY <1>2, <2>1, <3>2, <3>3, <3>4
  <2>2. CASE /\ first + (j - Len(A)) \in (first + 1)..due
             /\ row[j].of = waiting[first + (j - Len(A))]
    <3>1. first + (j - Len(A)) \in 1..Len(waiting)
      BY <1>2, <1>3, <2>2
    <3>2. HasSpan(waiting[first + (j - Len(A))])
      BY <3>1 DEF Waiting
    <3>3. span[waiting[first + (j - Len(A))]].until < m
      BY <1>3, <2>2
    <3> QED
      BY <2>2, <3>2, <3>3
  <2> QED
    BY <1>5, <1>7, <2>1, <2>2
<1>12. ASSUME NEW j \in 1..(z + 1), Recapped(out, j)
       PROVE  j \in 1..z /\ out[j] = row[j] /\ Recapped(row, j)
  <2>1. j # z + 1
    BY <1>10, <1>12 DEF Recapped
  <2>2. j \in 1..z
    BY <1>7, <2>1
  <2> QED
    BY <1>7, <1>9, <1>12, <2>2 DEF Recapped
<1>13. ASSUME NEW i \in 1..(z + 1), Quoted(out, i)
       PROVE  \/ i = z + 1 /\ out[i].of = m
              \/ i \in 1..z /\ out[i] = row[i] /\ Quoted(row, i)
  <2>1. i = z + 1 \/ i \in 1..z
    BY <1>7
  <2> QED
    BY <1>7, <1>9, <1>10, <1>13, <2>1 DEF Quoted
<1>14. Ordered(out, waiting)
  <2> SUFFICES ASSUME NEW i \in 1..(z + 1), NEW j \in 1..(z + 1), Quoted(out, i), Recapped(out, j)
               PROVE  /\ HasSpan(out[j].of)
                      /\ j < i => span[out[j].of].until < out[i].of
                      /\ i < j => Blocked(waiting, out[j].of, out[i].of)
    BY <1>9 DEF Ordered
  <2>1. j \in 1..z /\ out[j] = row[j] /\ Recapped(row, j)
    BY <1>12
  <2>2. CASE i = z + 1 /\ out[i].of = m
    <3>1. ~(i < j)
      BY <1>7, <2>1, <2>2
    <3> QED
      BY <1>11, <2>1, <2>2, <3>1
  <2>3. CASE i \in 1..z /\ out[i] = row[i] /\ Quoted(row, i)
    BY <1>6, <1>7, <2>1, <2>3 DEF Ordered
  <2> QED
    BY <1>13, <2>2, <2>3
<1>15. ASSUME NEW i \in 1..(z + 1), NEW k \in (due + 1)..Len(waiting), Quoted(out, i)
       PROVE  Blocked(waiting, waiting[k], out[i].of)
  <2>1. CASE i = z + 1 /\ out[i].of = m
    <3>1. due + 1 \in 1..Len(waiting) /\ due # Len(waiting) /\ k \in 1..Len(waiting)
      BY <1>2, <1>3
    <3>2. span[waiting[due + 1]].until >= m
      BY <1>3, <3>1
    <3>3. span[waiting[due + 1]].from <= span[waiting[k]].from
      <4>1. CASE k = due + 1
        BY <3>1, <4>1 DEF Waiting, HasSpan
      <4>2. CASE k # due + 1
        <5>1. due + 1 < k
          BY <1>2, <1>3, <4>2
        <5> QED
          BY <3>1, <5>1 DEF Waiting
      <4> QED
        BY <4>1, <4>2
    <3> QED
      BY <2>1, <3>1, <3>2, <3>3 DEF Blocked
  <2>2. CASE i \in 1..z /\ out[i] = row[i] /\ Quoted(row, i)
    <3>1. i \in 1..Len(A) /\ row[i] = A[i] /\ Quoted(A, i)
      BY <1>5, <1>7, <2>2 DEF Quoted
    <3>2. k \in (first + 1)..Len(waiting)
      BY <1>2, <1>3
    <3>3. Blocked(waiting, waiting[k], A[i].of)
      BY <1>1, <3>1, <3>2 DEF Merged
    <3> QED
      BY <2>2, <3>1, <3>3
  <2> QED
    BY <1>13, <1>15, <2>1, <2>2
<1>16. PICK next : next = MergeStep(acc, waiting, m)
  OBVIOUS
<1>17. next.merged = out /\ next.taken = due
  BY <1>1, <1>4, <1>8, <1>16, Zenon DEF MergeStep
<1>18. Merged(next, messages, waiting, n)
  <2>1. n # 0 /\ due \in 0..Len(waiting)
    BY <1>2, <1>3
  <2>2. \A j \in 1..Len(out) : Recapped(out, j) =>
          HasSpan(out[j].of) /\ n # 0 /\ span[out[j].of].until < messages[n]
    BY <1>1, <1>9, <1>11, <1>12, <2>1
  <2>3. \A i \in 1..Len(out), k \in (due + 1)..Len(waiting) :
          Quoted(out, i) => Blocked(waiting, waiting[k], out[i].of)
    BY <1>9, <1>15
  <2> QED
    BY <1>9, <1>14, <1>17, <2>1, <2>2, <2>3 DEF Merged
<1> QED
  BY <1>1, <1>16, <1>18

MergeState(waiting) == [merged : Seq(Entry), taken : 0..Len(waiting)]

NothingMerged == [merged |-> <<>>, taken |-> 0]

\* A step of the merge.
LEMMA MergeStepTyped ==
  ASSUME NEW waiting, Waiting(waiting), NEW acc \in MergeState(waiting), NEW m \in Nat
  PROVE  MergeStep(acc, waiting, m) \in MergeState(waiting)
<1>1. PICK A, first, due : /\ A = acc.merged /\ first = acc.taken /\ due = Due(waiting, first, m)
  OBVIOUS
<1>2. /\ A \in Seq(Entry) /\ first \in 0..Len(waiting) /\ waiting \in Seq(Summaries)
      /\ Len(waiting) \in Nat /\ first \in Nat
  BY <1>1 DEF MergeState, Waiting
<1>3. due \in first..Len(waiting)
  BY <1>1, <1>2, DueIs
<1>4. due \in 0..Len(waiting) /\ RecapsFrom(waiting, first, due) \in Seq(Entry)
  BY <1>2, <1>3, RecapsAre
<1>5. <<Verbatim(m)>> \in Seq(Entry)
  <2>1. Verbatim(m) \in Entry
    BY DEF Verbatim, Entry
  <2> QED
    BY <2>1
<1>6. A \o RecapsFrom(waiting, first, due) \o <<Verbatim(m)>> \in Seq(Entry)
  BY <1>2, <1>4, <1>5
<1>7. MergeStep(acc, waiting, m)
        = [merged |-> A \o RecapsFrom(waiting, first, due) \o <<Verbatim(m)>>, taken |-> due]
  BY <1>1, Zenon DEF MergeStep
<1> QED
  BY <1>4, <1>6, <1>7 DEF MergeState

\* The loop is what it is written as.
LEMMA MergingIs ==
  ASSUME NEW messages, Timed(messages), NEW waiting, Waiting(waiting)
  PROVE  /\ Merging(messages, waiting)[0] = NothingMerged
         /\ \A n \in 1..Len(messages) :
              Merging(messages, waiting)[n]
                = MergeStep(Merging(messages, waiting)[n - 1], waiting, messages[n])
<1> DEFINE L == Len(messages)
           A == MergeState(waiting)
           F == [n \in 1..L |-> [x \in A |-> MergeStep(x, waiting, messages[n])]]
           Loop(g) == [n \in 0..L |-> IF n = 0 THEN [merged |-> <<>>, taken |-> 0]
                                      ELSE MergeStep(g[n - 1], waiting, messages[n])]
<1>1. L \in Nat /\ NothingMerged \in A
  BY DEF NothingMerged, MergeState, Timed, Waiting
<1>2. ASSUME NEW n \in 1..L, NEW x \in A
      PROVE  F[n][x] = MergeStep(x, waiting, messages[n]) /\ F[n][x] \in A
  <2>1. messages[n] \in Nat
    BY DEF Timed
  <2>2. MergeStep(x, waiting, messages[n]) \in A
    BY <2>1, MergeStepTyped
  <2>3. F[n][x] = MergeStep(x, waiting, messages[n])
    OBVIOUS
  <2> QED
    BY <2>2, <2>3
<1>3. PICK g \in [0..L -> A] : g[0] = NothingMerged /\ \A n \in 1..L : g[n] = F[n][g[n - 1]]
  <2> HIDE DEF F, A, L
  <2>1. IsLoop(A, NothingMerged, L, F)
    BY <1>1, <1>2 DEF IsLoop
  <2>2. PICK g : IsRun(g, A, NothingMerged, L, F)
    BY <2>1, LoopExists
  <2> QED
    BY <2>2 DEF IsRun
<1>4. ASSUME NEW n \in 1..L
      PROVE  g[n] = MergeStep(g[n - 1], waiting, messages[n])
  <2>1. n - 1 \in 0..L
    BY <1>1
  <2>2. g[n - 1] \in A
    BY <1>3, <2>1
  <2> HIDE DEF F, A
  <2> QED
    BY <1>2, <1>3, <2>2
<1>5. g = Loop(g)
  <2>1. \A n \in 0..L : g[n] = IF n = 0 THEN [merged |-> <<>>, taken |-> 0]
                               ELSE MergeStep(g[n - 1], waiting, messages[n])
    BY <1>1, <1>3, <1>4 DEF NothingMerged
  <2> QED
    BY <1>3, <2>1, Zenon
<1>6. Merging(messages, waiting) = CHOOSE acc : acc = Loop(acc)
  BY DEF Merging
<1>7. PICK f : f = Merging(messages, waiting)
  OBVIOUS
<1>8. f = Loop(f)
  <2> HIDE DEF Loop
  <2> QED
    BY <1>5, <1>6, <1>7
<1>9. f[0] = NothingMerged /\ \A n \in 1..L : f[n] = MergeStep(f[n - 1], waiting, messages[n])
  BY <1>1, <1>8 DEF NothingMerged
<1> QED
  BY <1>7, <1>9

\* What the loop has after every message.
LEMMA AlwaysMerged ==
  ASSUME NEW messages, Timed(messages), NEW waiting, Waiting(waiting)
  PROVE  \A n \in 0..Len(messages) : Merged(Merging(messages, waiting)[n], messages, waiting, n)
<1> PICK f, L : f = Merging(messages, waiting) /\ L = Len(messages)
  OBVIOUS
<1>0. L \in Nat
  BY DEF Timed
<1>1. f[0] = NothingMerged /\ \A n \in 1..L : f[n] = MergeStep(f[n - 1], waiting, messages[n])
  BY MergingIs
<1>2. Merged(f[0], messages, waiting, 0)
  <2>1. f[0].merged = <<>> /\ f[0].taken = 0
    BY <1>1 DEF NothingMerged
  <2>2. Len(<<>>) = 0 /\ <<>> \in Seq(Entry) /\ 1..0 = {}
    OBVIOUS
  <2>3. 0 \in 0..Len(waiting)
    BY DEF Waiting
  <2> QED
    BY <2>1, <2>2, <2>3 DEF Merged, Ordered
<1> DEFINE Bad == {n \in 0..L : ~Merged(f[n], messages, waiting, n)}
<1>3. ASSUME Bad # {}
      PROVE  FALSE
  <2>0. Bad \in SUBSET Nat
    BY <1>0
  <2>1. PICK n \in Bad : \A k \in Bad : n <= k
    <3> HIDE DEF Bad
    <3> QED
      BY <1>3, <2>0, LeastNat
  <2>2. n \in 0..L /\ ~Merged(f[n], messages, waiting, n)
    BY <2>1
  <2>3. n # 0
    BY <1>2, <2>2
  <2>4. n \in 1..L /\ n - 1 \in 0..L /\ ~(n <= n - 1)
    BY <1>0, <2>2, <2>3
  <2>5. Merged(f[n - 1], messages, waiting, n - 1)
    BY <2>1, <2>4
  <2>6. f[n] = MergeStep(f[n - 1], waiting, messages[n])
    BY <1>1, <2>4
  <2> QED
    BY <2>2, <2>4, <2>5, <2>6, StepMerged
<1> QED
  BY <1>3

\* The pages and the recaps that a request reads can be put in order.
LEMMA TimeOrder ==
  ASSUME NEW page \in SUBSET Nat, IsFiniteSet(page)
  PROVE  Timed(InTimeOrder(page))
<1>1. PICK key : key = [m \in page |-> m]
  OBVIOUS
<1>2. key \in [page -> Nat] /\ \A m \in page : key[m] = m
  BY <1>1
<1>3. PICK order : order = SortedBy(page, key)
  OBVIOUS
<1>4. IsOrder(order, page, key)
  BY <1>2, <1>3, SortedByIs
<1>5. PICK n \in Nat : n = Cardinality(page)
  BY FS_CardinalityType
<1>6. /\ order \in [1..n -> page]
      /\ \A i, j \in 1..n : i # j => order[i] # order[j]
      /\ \A i, j \in 1..n : i < j => key[order[i]] <= key[order[j]]
  BY <1>4, <1>5 DEF IsOrder
<1>7. order \in Seq(Nat) /\ Len(order) = n /\ \A k \in 1..n : order[k] \in Nat
  <2>1. \A k \in 1..n : order[k] \in Nat
    BY <1>6
  <2> QED
    BY <1>6, <2>1
<1>8. ASSUME NEW i \in 1..n, NEW j \in 1..n, i < j
      PROVE  order[i] < order[j]
  <2>1. /\ order[i] \in page /\ order[j] \in page /\ i # j
        /\ order[i] \in Nat /\ order[j] \in Nat
    BY <1>6, <1>7, <1>8
  <2>2. order[i] <= order[j] /\ order[i] # order[j]
    BY <1>2, <1>6, <1>8, <2>1
  <2> QED
    BY <2>1, <2>2
<1>9. Timed(order)
  BY <1>7, <1>8 DEF Timed
<1> QED
  BY <1>1, <1>3, <1>9 DEF InTimeOrder

\* The recaps wait in the order in which their chapters begin.
LEMMA ChapterOrder ==
  ASSUME NEW recaps, IsFiniteSet(recaps), \A s \in recaps : HasSpan(s)
  PROVE  /\ Waiting(InChapterOrder(recaps))
         /\ \A k \in 1..Len(InChapterOrder(recaps)) : InChapterOrder(recaps)[k] \in recaps
<1>1. PICK key : key = [s \in recaps |-> span[s].from]
  OBVIOUS
<1>2. key \in [recaps -> Nat] /\ \A s \in recaps : key[s] = span[s].from
  BY <1>1 DEF HasSpan
<1>3. PICK order : order = SortedBy(recaps, key)
  OBVIOUS
<1>4. IsOrder(order, recaps, key)
  BY <1>2, <1>3, SortedByIs
<1>5. PICK n \in Nat : n = Cardinality(recaps)
  BY FS_CardinalityType
<1>6. /\ order \in [1..n -> recaps]
      /\ \A i, j \in 1..n : i < j => key[order[i]] <= key[order[j]]
  BY <1>4, <1>5 DEF IsOrder
<1>7. recaps \in SUBSET Summaries
  BY DEF HasSpan
<1>8. order \in Seq(Summaries) /\ Len(order) = n
  BY <1>6, <1>7
<1>9. \A k \in 1..n : order[k] \in recaps
  BY <1>6
<1>10. Waiting(order)
  BY <1>2, <1>6, <1>8, <1>9 DEF Waiting
<1> QED
  BY <1>1, <1>3, <1>8, <1>9, <1>10 DEF InChapterOrder

\* A merged history: a recap before a message ends before it, and before a
\* recap that comes after a message another chapter reaches to the message.
LEMMA MergeIs ==
  ASSUME NEW page \in SUBSET Nat, IsFiniteSet(page),
         NEW recaps, IsFiniteSet(recaps), \A s \in recaps : HasSpan(s)
  PROVE  LET out == MergeHistory(page, recaps) IN
         /\ out \in Seq(Entry)
         /\ \A i, j \in 1..Len(out) : Quoted(out, i) /\ Recapped(out, j) =>
              /\ HasSpan(out[j].of)
              /\ j < i => span[out[j].of].until < out[i].of
              /\ i < j => \E r \in recaps : /\ span[r].until >= out[i].of
                                            /\ span[r].from <= span[out[j].of].from
<1>1. PICK messages, waiting : /\ messages = InTimeOrder(page)
                               /\ waiting = InChapterOrder(recaps)
  OBVIOUS
<1>2. /\ Timed(messages) /\ Waiting(waiting)
      /\ \A k \in 1..Len(waiting) : waiting[k] \in recaps
  BY <1>1, TimeOrder, ChapterOrder
<1>3. PICK acc : acc = Merging(messages, waiting)[Len(messages)]
  OBVIOUS
<1>4. Merged(acc, messages, waiting, Len(messages))
  <2>1. Len(messages) \in 0..Len(messages)
    BY <1>2 DEF Timed
  <2> QED
    BY <1>2, <1>3, <2>1, AlwaysMerged
<1>5. PICK out : out = acc.merged \o RecapsFrom(waiting, acc.taken, Len(waiting))
  OBVIOUS
<1>6. MergeHistory(page, recaps) = out
  BY <1>1, <1>3, <1>5, Zenon DEF MergeHistory
<1>7. Len(waiting) \in acc.taken..Len(waiting)
  BY <1>2, <1>4 DEF Merged, Waiting
<1>8. out \in Seq(Entry) /\ Ordered(out, waiting)
  BY <1>2, <1>4, <1>5, <1>7, AppendRecaps
<1>9. \A s, m : Blocked(waiting, s, m) =>
        \E r \in recaps : span[r].until >= m /\ span[r].from <= span[s].from
  BY <1>2 DEF Blocked
<1> QED
  BY <1>6, <1>8, <1>9 DEF Ordered

-----------------------------------------------------------------------------
(* The order of a prompt.                                                  *)

InSpan(s, m) == span[s].from <= m /\ m <= span[s].until

\* A summary that is open holds, and one that is kept tells, everything that
\* was in time between its first and its last message.
SpanIsOwned(s) ==
  /\ span[s].from <= span[s].until
  /\ span[s].until \notin unwritten
  /\ \A m \in present \ late : InSpan(s, m) =>
       IF phase[s] = "open" THEN holder[m] = s ELSE m \in told[s]

SpansOwned == \A s \in Summaries : phase[s] \in {"open", "kept"} => SpanIsOwned(s)

Opened == {s \in Summaries : phase[s] # "new"}

\* Only finitely many rows are there or were read.
FinitelyMany ==
  /\ IsFiniteSet(present) /\ IsFiniteSet(Opened)
  /\ \A l \in Loaders : IsFiniteSet(load[l].page) /\ IsFiniteSet(load[l].recaps)

\* The first message of a chapter is no later than the last.
LEMMA SpanInOrder ==
  ASSUME NEW S \in SUBSET Messages, S # {}, NEW b \in Nat, \A m \in S : m <= b
  PROVE  /\ SpanOf(S).from \in S /\ SpanOf(S).until \in S
         /\ SpanOf(S).from <= SpanOf(S).until
<1>1. S \in SUBSET Nat
  BY CreatedAtAssumption
<1>2. Min(S) \in S /\ \A y \in S : Min(S) <= y
  <2>1. \E x \in S : \A y \in S : x <= y
    BY <1>1, LeastNat
  <2> QED
    BY <2>1, Zenon DEF Min
<1>3. Max(S) \in S
  <2>1. \E x \in S : \A y \in S : x >= y
    BY <1>1, GreatestNat
  <2> QED
    BY <2>1, Zenon DEF Max
<1> QED
  BY <1>2, <1>3 DEF SpanOf

\* A step that opens nothing leaves the chapters to their summaries.
LEMMA StaysOwned ==
  ASSUME LedgerTypeOK, SpansOwned, UNCHANGED span, unwritten' \subseteq unwritten,
         present' \ late' \subseteq present \ late,
         \A s \in Summaries : phase'[s] \in {"open", "kept"} =>
           /\ phase[s] \in {"open", "kept"} /\ phase'[s] = phase[s] /\ told'[s] = told[s]
           /\ \A m \in present' : holder[m] = s => holder'[m] = s
  PROVE  SpansOwned'
<1> SUFFICES ASSUME NEW s \in Summaries, phase'[s] \in {"open", "kept"}
             PROVE  SpanIsOwned(s)'
  BY DEF SpansOwned
<1>1. /\ SpanIsOwned(s) /\ phase'[s] = phase[s] /\ told'[s] = told[s]
      /\ \A m \in present' : holder[m] = s => holder'[m] = s
  BY DEF SpansOwned
<1> QED
  BY <1>1 DEF SpanIsOwned, InSpan

\* What lies in the span of a chapter stays the affair of its summary.
LEMMA StepSpansOwned ==
  PromptInv /\ TypeInv /\ SpansOwned /\ [PromptNext]_allVars => SpansOwned'
<1> SUFFICES ASSUME PromptInv, TypeInv, SpansOwned, [PromptNext]_allVars
             PROVE  SpansOwned'
    OBVIOUS
<1>1. /\ LedgerTypeOK /\ LedgerInv /\ late \in SUBSET Messages
      /\ \A s \in Summaries : phase[s] # "new" => span[s] \in Span
      /\ present \cap unwritten = {}
  BY DEF TypeInv, PromptTypeOK, PromptInv, LedgerInv
<1>2. ASSUME NEW m \in Messages, AddMessage(m)
      PROVE  SpansOwned'
  <2>1. /\ m \in unwritten /\ unwritten' = unwritten \ {m} /\ present' = present \cup {m}
        /\ UNCHANGED <<holder, sealed, phase, told, span>>
        /\ late' = IF \E n \in Messages \ unwritten : n > m THEN late \cup {m} ELSE late
    BY <1>2 DEF AddMessage, Write
  <2> SUFFICES ASSUME NEW s \in Summaries, phase[s] \in {"open", "kept"}
               PROVE  SpanIsOwned(s)'
    BY <2>1 DEF SpansOwned
  <2>2. SpanIsOwned(s) /\ span[s].until \in Messages
    BY <1>1 DEF SpansOwned, Span
  <2>3. ASSUME NEW n \in present' \ late', InSpan(s, n)
        PROVE  n \in present \ late
    <3>1. CASE n # m
      BY <2>1, <2>3, <3>1
    <3>2. CASE n = m
      <4>1. m <= span[s].until /\ m # span[s].until
        BY <2>1, <2>2, <2>3, <3>2 DEF SpanIsOwned, InSpan
      <4>2. span[s].until \in Messages \ unwritten /\ span[s].until > m
        BY <2>2, <4>1, CreatedAtAssumption DEF SpanIsOwned
      <4>3. m \in late'
        BY <2>1, <4>2
      <4> QED
        BY <2>3, <3>2, <4>3
    <3> QED
      BY <3>1, <3>2
  <2> QED
    BY <2>1, <2>2, <2>3 DEF SpanIsOwned, InSpan
<1>3. ASSUME NEW m \in Messages, DeleteMessage(m)
      PROVE  SpansOwned'
  <2>1. /\ present' = present \ {m} /\ holder' = [holder EXCEPT ![m] = NoSummary]
        /\ UNCHANGED <<unwritten, phase, told, span, late>>
    BY <1>3 DEF DeleteMessage, Delete, promptVars
  <2>2. \A n \in present' : holder'[n] = holder[n]
    BY <1>1, <2>1 DEF LedgerTypeOK
  <2> QED
    BY <1>1, <2>1, <2>2, StaysOwned
<1>4. ASSUME NEW S \in SUBSET Summaries, OpenChapters(S)
      PROVE  SpansOwned'
  <2>1. PICK b \in Nat : \A m \in present : m <= b
    BY DEF TypeInv, Bounded
  <2>2. /\ UNCHANGED <<unwritten, present, sealed, told, late>>
        /\ \A s \in S : phase[s] = "new"
        /\ phase' = [s \in Summaries |-> IF s \in S THEN "open" ELSE phase[s]]
    BY <1>4 DEF OpenChapters, Open
  <2>3. PICK chapter \in [S -> SUBSET FreeMessages] :
          holder' = [m \in Messages |->
                       IF \E s \in S : m \in chapter[s]
                       THEN CHOOSE s \in S : m \in chapter[s] ELSE holder[m]]
    BY <1>4 DEF OpenChapters, Open
  <2>4. ASSUME NEW s \in Summaries, s \notin S, phase'[s] \in {"open", "kept"}
        PROVE  SpanIsOwned(s)'
    <3>1. SpanIsOwned(s) /\ phase'[s] = phase[s]
      BY <2>2, <2>4 DEF SpansOwned
    <3>2. span'[s] = span[s]
      BY <1>4, <2>4 DEF OpenChapters
    <3>3. \A m \in present : holder[m] = s => holder'[m] = s
      <4>1. \A m \in Messages : (\E r \in S : m \in chapter[r]) => holder[m] = NoSummary
        BY <2>3 DEF FreeMessages
      <4> QED
        BY <1>1, <2>3, <4>1, HolderAssumption DEF LedgerTypeOK
    <3> QED
      BY <2>2, <3>1, <3>2, <3>3 DEF SpanIsOwned, InSpan
  <2>5. ASSUME NEW s \in S
        PROVE  SpanIsOwned(s)'
    <3>1. PICK own : own = {m \in present : holder'[m] = s}
      OBVIOUS
    <3>2. /\ own # {} /\ span'[s] = SpanOf(own)
          /\ \A m \in present \ own : m < Min(own) \/ m > Max(own)
      BY <1>4, <3>1 DEF OpenChapters
    <3>3. own \in SUBSET Messages /\ (\A m \in own : m <= b) /\ own \subseteq present
      BY <1>1, <2>1, <3>1 DEF LedgerTypeOK
    <3>4. SpanOf(own).from \in own /\ SpanOf(own).until \in own
          /\ SpanOf(own).from <= SpanOf(own).until
      BY <3>2, <3>3, SpanInOrder
    <3>5. SpanOf(own).from = Min(own) /\ SpanOf(own).until = Max(own)
      BY DEF SpanOf
    <3>6. Min(own) \in Nat /\ Max(own) \in Nat /\ present \in SUBSET Nat
      BY <1>1, <3>3, <3>4, <3>5, CreatedAtAssumption DEF LedgerTypeOK
    <3>7. \A m \in present : Min(own) <= m /\ m <= Max(own) => m \in own
      BY <3>2, <3>6
    <3>8. phase'[s] = "open"
      BY <2>2
    <3> QED
      BY <1>1, <2>2, <3>1, <3>2, <3>3, <3>4, <3>5, <3>7, <3>8 DEF SpanIsOwned, InSpan
  <2> QED
    BY <2>4, <2>5 DEF SpansOwned
<1>5. ASSUME NEW S \in SUBSET Summaries, Fail(S)
      PROVE  SpansOwned'
  <2>1. /\ UNCHANGED <<unwritten, present, sealed, told, span, late>>
        /\ phase' = [s \in Summaries |-> IF s \in S THEN "dropped" ELSE phase[s]]
        /\ holder' = [m \in Messages |-> IF holder[m] \in S THEN NoSummary ELSE holder[m]]
    BY <1>5 DEF Fail, GiveUp, promptVars
  <2>2. \A s \in Summaries : phase'[s] \in {"open", "kept"} => s \notin S /\ phase'[s] = phase[s]
    BY <2>1
  <2>3. \A s \in Summaries : phase'[s] \in {"open", "kept"} =>
          \A m \in present' : holder[m] = s => holder'[m] = s
    BY <1>1, <2>1, <2>2 DEF LedgerTypeOK
  <2> QED
    BY <1>1, <2>1, <2>2, <2>3, StaysOwned
<1>6. ASSUME NEW s \in Summaries, Complete(s)
      PROVE  SpansOwned'
  <2>1. PICK W \in SUBSET (Messages \ unwritten) :
          W \cap present = HeldBy(s) /\ told' = [told EXCEPT ![s] = W]
    BY <1>6 DEF Complete, Seal
  <2>2. /\ phase[s] = "open" /\ phase' = [phase EXCEPT ![s] = "kept"]
        /\ UNCHANGED <<unwritten, present, holder, span, late>>
    BY <1>6 DEF Complete, Seal, promptVars
  <2>3. SpanIsOwned(s)'
    <3>1. SpanIsOwned(s)
      BY <2>2 DEF SpansOwned
    <3>2. told'[s] = W /\ phase'[s] = "kept"
      BY <1>1, <2>1, <2>2 DEF LedgerTypeOK
    <3>3. \A m \in present : holder[m] = s => m \in W
      BY <2>1 DEF HeldBy
    <3> QED
      BY <2>2, <3>1, <3>2, <3>3 DEF SpanIsOwned, InSpan
  <2>4. ASSUME NEW r \in Summaries, r # s, phase'[r] \in {"open", "kept"}
        PROVE  SpanIsOwned(r)'
    <3>1. SpanIsOwned(r) /\ phase'[r] = phase[r] /\ told'[r] = told[r]
      BY <1>1, <2>1, <2>2, <2>4 DEF SpansOwned, LedgerTypeOK
    <3> QED
      BY <2>2, <3>1 DEF SpanIsOwned, InSpan
  <2> QED
    BY <2>3, <2>4 DEF SpansOwned
<1>7. ASSUME UNCHANGED <<vars, span, late>>
      PROVE  SpansOwned'
  BY <1>7 DEF vars, SpansOwned, SpanIsOwned, InSpan
<1>8. ASSUME NEW l \in Loaders, ReadPage(l) \/ ReadRecaps(l) \/ Use(l)
      PROVE  SpansOwned'
  BY <1>7, <1>8 DEF ReadPage, ReadRecaps, Use
<1>9. CASE UNCHANGED allVars
  BY <1>7, <1>9 DEF allVars, promptVars
<1> QED
  BY <1>2, <1>3, <1>4, <1>5, <1>6, <1>8, <1>9 DEF PromptNext

\* Summaries are opened over messages that are there, so over finitely many.
LEMMA OpenedFinite ==
  ASSUME LedgerTypeOK, IsFiniteSet(present), IsFiniteSet(Opened),
         NEW S \in SUBSET Summaries, OpenChapters(S)
  PROVE  IsFiniteSet(Opened)'
<1>1. phase' = [s \in Summaries |-> IF s \in S THEN "open" ELSE phase[s]]
  BY DEF OpenChapters, Open
<1>2. \A s \in S : \E m \in present : holder'[m] = s
  BY DEF OpenChapters
<1> DEFINE f == [s \in S |-> CHOOSE m \in present : holder'[m] = s]
<1>3. \A s \in S : f[s] \in present /\ holder'[f[s]] = s
  BY <1>2
<1>4. f \in [S -> present] /\ \A s, r \in S : f[s] = f[r] => s = r
  BY <1>3
<1>5. f \in Injection(S, present)
  <2> HIDE DEF f
  <2> QED
    BY <1>4, Zenon DEF Injection, IsInjective
<1>6. IsFiniteSet(S)
  <2> HIDE DEF f
  <2> QED
    BY <1>5, FS_Injection
<1>7. IsFiniteSet(Opened \cup S)
  BY <1>6, FS_Union
<1>8. Opened' = Opened \cup S
  BY <1>1 DEF Opened
<1> QED
  BY <1>7, <1>8

\* No step makes the chat or its summaries infinite.
LEMMA StepFinitelyMany ==
  PromptInv /\ FinitelyMany /\ [PromptNext]_allVars => FinitelyMany'
<1> SUFFICES ASSUME PromptInv, FinitelyMany, [PromptNext]_allVars
             PROVE  FinitelyMany'
    OBVIOUS
<1>1. LedgerTypeOK /\ load \in [Loaders -> Load]
  BY DEF PromptInv, LedgerInv
<1>2. /\ IsFiniteSet(present) /\ IsFiniteSet(Opened)
      /\ \A l \in Loaders : IsFiniteSet(load[l].page) /\ IsFiniteSet(load[l].recaps)
  BY DEF FinitelyMany
<1>3. ASSUME UNCHANGED load, IsFiniteSet(present'), Opened' = Opened
      PROVE  FinitelyMany'
  BY <1>2, <1>3 DEF FinitelyMany
<1>4. ASSUME NEW m \in Messages, AddMessage(m)
      PROVE  FinitelyMany'
  <2>1. present' = present \cup {m} /\ UNCHANGED <<load, phase>>
    BY <1>4 DEF AddMessage, Write
  <2>2. IsFiniteSet(present')
    BY <1>2, <2>1, FS_AddElement
  <2> QED
    BY <1>3, <2>1, <2>2 DEF Opened
<1>5. ASSUME NEW m \in Messages, DeleteMessage(m)
      PROVE  FinitelyMany'
  <2>1. present' = present \ {m} /\ UNCHANGED <<load, phase>>
    BY <1>5 DEF DeleteMessage, Delete, promptVars
  <2>2. IsFiniteSet(present')
    BY <1>2, <2>1, FS_RemoveElement
  <2> QED
    BY <1>3, <2>1, <2>2 DEF Opened
<1>6. ASSUME NEW S \in SUBSET Summaries, OpenChapters(S)
      PROVE  FinitelyMany'
  <2>1. UNCHANGED <<present, load>>
    BY <1>6 DEF OpenChapters, Open
  <2>2. IsFiniteSet(Opened)'
    BY <1>1, <1>2, <1>6, OpenedFinite
  <2> QED
    BY <1>2, <2>1, <2>2 DEF FinitelyMany
<1>7. ASSUME NEW S \in SUBSET Summaries, Fail(S)
      PROVE  FinitelyMany'
  <2>1. /\ UNCHANGED <<present, load>> /\ \A s \in S : phase[s] = "open"
        /\ phase' = [s \in Summaries |-> IF s \in S THEN "dropped" ELSE phase[s]]
    BY <1>7 DEF Fail, GiveUp, promptVars
  <2>2. Opened' = Opened
    BY <2>1 DEF Opened
  <2> QED
    BY <1>2, <1>3, <2>1, <2>2
<1>8. ASSUME NEW s \in Summaries, Complete(s)
      PROVE  FinitelyMany'
  <2>1. /\ UNCHANGED <<present, load>> /\ phase[s] = "open"
        /\ phase' = [phase EXCEPT ![s] = "kept"]
    BY <1>8 DEF Complete, Seal, promptVars
  <2>2. Opened' = Opened
    BY <1>1, <2>1 DEF Opened, LedgerTypeOK
  <2> QED
    BY <1>2, <1>3, <2>1, <2>2
<1>9. ASSUME NEW l \in Loaders, ReadPage(l) \/ ReadRecaps(l) \/ Use(l)
      PROVE  FinitelyMany'
  <2>1. present' = present /\ Opened' = Opened
    BY <1>9 DEF ReadPage, ReadRecaps, Use, vars, Opened
  <2>2. \A k \in Loaders : k # l => load'[k] = load[k]
    BY <1>1, <1>9 DEF ReadPage, ReadRecaps, Use
  <2>3. IsFiniteSet(LiveMessages) /\ IsFiniteSet(Kept) /\ IsFiniteSet({})
    <3>1. LiveMessages \subseteq present /\ Kept \subseteq Opened
      BY DEF LiveMessages, Kept, Opened
    <3> QED
      BY <1>2, <3>1, FS_Subset, FS_EmptySet
  <2>4. IsFiniteSet(load'[l].page) /\ IsFiniteSet(load'[l].recaps)
    <3>1. CASE ReadPage(l)
      <4>1. load'[l].page = LiveMessages /\ load'[l].recaps = {}
        BY <1>1, <3>1 DEF ReadPage
      <4> QED
        BY <2>3, <4>1
    <3>2. CASE ReadRecaps(l)
      <4>1. load[l] \in Load
        BY <1>1
      <4>2. load'[l].page = load[l].page /\ load'[l].recaps = Kept
        BY <1>1, <3>2, <4>1 DEF ReadRecaps, Load
      <4> QED
        BY <1>2, <2>3, <4>2
    <3>3. CASE Use(l)
      <4>1. load'[l].page = {} /\ load'[l].recaps = {}
        BY <1>1, <3>3 DEF Use, NoLoad
      <4> QED
        BY <2>3, <4>1
    <3> QED
      BY <1>9, <3>1, <3>2, <3>3
  <2> QED
    BY <1>2, <2>1, <2>2, <2>4 DEF FinitelyMany
<1>10. CASE UNCHANGED allVars
  <2>1. UNCHANGED <<present, load, phase>>
    BY <1>10 DEF allVars, vars, promptVars
  <2> QED
    BY <1>2, <1>3, <2>1 DEF Opened
<1> QED
  BY <1>4, <1>5, <1>6, <1>7, <1>8, <1>9, <1>10 DEF PromptNext

\* What a request has merged is in the order of the chat.
LEMMA MergedInOrder ==
  ASSUME PromptInv, PromptTypeOK, SpansOwned, FinitelyMany,
         NEW l \in Loaders, load[l].pc = "done"
  PROVE  LET prompt == Prompt(l) IN
         \A i, j \in DOMAIN prompt :
           (prompt[i].kind = "message" /\ prompt[j].kind = "recap") =>
             LET m == prompt[i].of
                 s == prompt[j].of
             IN  /\ m < span[s].from => i < j
                 /\ ( /\ m > span[s].until
                      /\ m \in present \ late
                      /\ \A r \in load[l].recaps : m \notin told[r] ) => j < i
<1>1. PICK page, recaps : page = load[l].page /\ recaps = load[l].recaps
  OBVIOUS
<1>2. /\ page \in SUBSET Nat /\ recaps \subseteq Kept
      /\ IsFiniteSet(page) /\ IsFiniteSet(recaps)
  BY <1>1, CreatedAtAssumption DEF PromptTypeOK, Load, PromptInv, ReadOrTold, FinitelyMany
<1>3. ASSUME NEW s \in recaps
      PROVE  /\ HasSpan(s) /\ span[s].from <= span[s].until
             /\ \A m \in present \ late : InSpan(s, m) => m \in told[s]
  <2>1. s \in Summaries /\ phase[s] = "kept"
    BY <1>2 DEF Kept
  <2>2. span[s] \in Span /\ SpanIsOwned(s)
    BY <2>1 DEF PromptTypeOK, SpansOwned
  <2> QED
    BY <2>1, <2>2, CreatedAtAssumption DEF Span, HasSpan, SpanIsOwned
<1>4. PICK out : out = MergeHistory(page, recaps)
  OBVIOUS
<1>5. /\ out \in Seq(Entry)
      /\ \A i, j \in 1..Len(out) : Quoted(out, i) /\ Recapped(out, j) =>
           /\ HasSpan(out[j].of)
           /\ j < i => span[out[j].of].until < out[i].of
           /\ i < j => \E r \in recaps : /\ span[r].until >= out[i].of
                                         /\ span[r].from <= span[out[j].of].from
  BY <1>2, <1>3, <1>4, MergeIs
<1>6. Prompt(l) = out /\ DOMAIN out = 1..Len(out) /\ Len(out) \in Nat
  BY <1>1, <1>4, <1>5 DEF Prompt
<1>7. ASSUME NEW i \in 1..Len(out), NEW j \in 1..Len(out),
             out[i].kind = "message", out[j].kind = "recap"
      PROVE  /\ out[i].of < span[out[j].of].from => i < j
             /\ ( /\ out[i].of > span[out[j].of].until
                  /\ out[i].of \in present \ late
                  /\ \A r \in recaps : out[i].of \notin told[r] ) => j < i
  <2>1. Quoted(out, i) /\ Recapped(out, j) /\ i # j
    BY <1>7 DEF Quoted, Recapped
  <2>2. PICK m \in Nat : m = out[i].of
    <3>1. out[i] \in Entry
      BY <1>5
    <3> QED
      BY <1>7, <3>1 DEF Entry
  <2>3. PICK s : s = out[j].of
    OBVIOUS
  <2>4. /\ HasSpan(s)
        /\ j < i => span[s].until < m
        /\ i < j => \E r \in recaps : span[r].until >= m /\ span[r].from <= span[s].from
    BY <1>5, <2>1, <2>2, <2>3
  <2>5. ASSUME m < span[s].from
        PROVE  i < j
    <3>1. ~(j < i)
      BY <2>4, <2>5 DEF HasSpan
    <3> QED
      BY <1>6, <2>1, <3>1
  <2>6. ASSUME m > span[s].until, m \in present \ late, \A r \in recaps : m \notin told[r]
        PROVE  j < i
    <3>1. ASSUME i < j
          PROVE  FALSE
      <4>1. PICK r \in recaps : span[r].until >= m /\ span[r].from <= span[s].from
        BY <2>4, <3>1
      <4>2. HasSpan(r)
        BY <1>3
      <4>3. InSpan(r, m)
        BY <2>4, <2>6, <4>1, <4>2 DEF HasSpan, InSpan
      <4> QED
        BY <1>3, <2>6, <4>3
    <3> QED
      BY <1>6, <2>1, <3>1
  <2> QED
    BY <2>2, <2>3, <2>5, <2>6
<1> QED
  BY <1>1, <1>6, <1>7

\* A prompt is in the order of the chat (_merge_history, llm_service.py:244-267):
\* no message is put after the recap of a later chapter, and none before that
\* of an earlier one unless it appeared late, is deleted by now, or its summary
\* has just completed.
THEOREM PromptStaysInOrder == PromptSpec => []PromptInOrder
<1>1. PromptInit => TypeInv /\ SpansOwned /\ FinitelyMany
  <2> SUFFICES ASSUME PromptInit
               PROVE  TypeInv /\ SpansOwned /\ FinitelyMany
      OBVIOUS
  <2>1. TypeInv
    BY InitTypeInv
  <2>2. \A s \in Summaries : phase[s] = "new"
    BY DEF PromptInit, Init
  <2>3. SpansOwned
    BY <2>2 DEF SpansOwned
  <2>4. Opened = {} /\ present = {} /\ \A l \in Loaders : load[l].page = {} /\ load[l].recaps = {}
    BY <2>2 DEF Opened, PromptInit, Init, NoLoad
  <2>5. FinitelyMany
    BY <2>4, FS_EmptySet DEF FinitelyMany
  <2> QED
    BY <2>1, <2>3, <2>5
<1>2. PromptInv /\ TypeInv /\ SpansOwned /\ FinitelyMany => PromptInOrder
  <2> SUFFICES ASSUME PromptInv, TypeInv, SpansOwned, FinitelyMany
               PROVE  PromptInOrder
      OBVIOUS
  <2>1. PromptTypeOK
    BY DEF TypeInv
  <2> QED
    BY <2>1, MergedInOrder DEF PromptInOrder
<1> QED
  BY <1>1, <1>2, PromptInvHolds, StepTypeInv, StepSpansOwned, StepFinitelyMany, PTL DEF PromptSpec

-----------------------------------------------------------------------------
(* The instance that looks at chapters, budgets and recalls: one input,    *)
(* one part, whatever the others do.                                       *)

\* A chat that is cut into chapters: the id of a message is its position.
Numbering(ms) == ms \in Seq(MessageRow(Nat)) /\ \A k \in 1..Len(ms) : ms[k].id = k

ChatNumbered == part = "chapters" => Numbering(input)

\* A message at the end.
LEMMA NumberOne ==
  ASSUME NEW ms, Numbering(ms), NEW tokens \in Nat
  PROVE  /\ [id |-> Len(ms) + 1, free |-> TRUE, tokens |-> tokens] \in MessageRow(Nat)
         /\ Numbering(Append(ms, [id |-> Len(ms) + 1, free |-> TRUE, tokens |-> tokens]))
<1>1. PICK m : m = [id |-> Len(ms) + 1, free |-> TRUE, tokens |-> tokens]
  OBVIOUS
<1>2. ms \in Seq(MessageRow(Nat)) /\ Len(ms) \in Nat
  BY DEF Numbering
<1>3. m \in MessageRow(Nat) /\ m.id = Len(ms) + 1
  BY <1>1, <1>2 DEF MessageRow
<1>4. PICK more : more = Append(ms, m)
  OBVIOUS
<1>5. /\ more \in Seq(MessageRow(Nat)) /\ Len(more) = Len(ms) + 1
      /\ more[Len(ms) + 1] = m /\ \A k \in 1..Len(ms) : more[k] = ms[k]
  BY <1>2, <1>3, <1>4
<1>6. \A k \in 1..Len(more) : k \in 1..Len(ms) \/ k = Len(ms) + 1
  BY <1>2, <1>5
<1>7. \A k \in 1..Len(more) : more[k].id = k
  BY <1>3, <1>5, <1>6 DEF Numbering
<1> QED
  BY <1>1, <1>3, <1>4, <1>5, <1>7 DEF Numbering

\* A release changes no id and no tokens.
LEMMA ReleaseIs ==
  ASSUME Numbering(input), NEW first, NEW last, Release(first, last)
  PROVE  Numbering(input') /\ Len(input') = Len(input)
<1>1. input \in Seq(MessageRow(Nat)) /\ DOMAIN input = 1..Len(input) /\ Len(input) \in Nat
  BY DEF Numbering
<1>2. input' = [k \in 1..Len(input) |->
                  IF k \in first..last THEN [input[k] EXCEPT !.free = TRUE] ELSE input[k]]
  BY <1>1 DEF Release
<1>3. ASSUME NEW k \in 1..Len(input)
      PROVE  input'[k] \in MessageRow(Nat) /\ input'[k].id = k
  <2>1. input[k] \in MessageRow(Nat) /\ input[k].id = k
    BY <1>1 DEF Numbering
  <2>2. CASE k \in first..last
    <3>1. input'[k] = [input[k] EXCEPT !.free = TRUE]
      BY <1>2, <2>2
    <3> QED
      BY <2>1, <3>1 DEF MessageRow
  <2>3. CASE k \notin first..last
    BY <1>2, <2>1, <2>3
  <2> QED
    BY <2>2, <2>3
<1>4. input' \in Seq(MessageRow(Nat)) /\ Len(input') = Len(input)
  BY <1>1, <1>2, <1>3
<1> QED
  BY <1>3, <1>4 DEF Numbering

\* A claim changes no id and no tokens.
LEMMA ClaimKeepsNumbers ==
  ASSUME NEW ms, Numbering(ms), NEW chapter
  PROVE  Numbering(Claimed(ms, chapter)) /\ Len(Claimed(ms, chapter)) = Len(ms)
<1>1. PICK more : more = Claimed(ms, chapter)
  OBVIOUS
<1>2. ms \in Seq(MessageRow(Nat))
  BY DEF Numbering
<1>3. /\ more \in Seq(MessageRow(Nat)) /\ Len(more) = Len(ms)
      /\ \A k \in 1..Len(ms) : more[k].id = ms[k].id
  BY <1>1, <1>2, ClaimedIs
<1>4. Numbering(more)
  BY <1>3 DEF Numbering
<1> QED
  BY <1>1, <1>3, <1>4

\* What a step can do to a chat.
LEMMA ChatSteps ==
  ASSUME [MCNext]_everything, part = "chapters"
  PROVE  \/ UNCHANGED input /\ UNCHANGED part
         \/ \E tokens \in Nat : AppendTo(tokens)
         \/ \E i \in DOMAIN Plan : Claim(i)
         \/ \E first \in DOMAIN input : \E last \in first..Len(input) : Release(first, last)
<1>1. CASE UNCHANGED everything
  BY <1>1 DEF everything, parts
<1>2. CASE part = "history" /\ PromptNext /\ UNCHANGED parts
  BY <1>2 DEF parts
<1>3. CASE InputNext
  <2>1. ChaptersNext
    BY <1>3 DEF InputNext
  <2>2. 0..MaxTokens \subseteq Nat
    BY BoundsAssumption
  <2> QED
    BY <2>1, <2>2 DEF ChaptersNext
<1> QED
  BY <1>1, <1>2, <1>3 DEF MCNext

\* No step looks at another part of the model.
LEMMA PartStays ==
  ASSUME [MCNext]_everything
  PROVE  part' = part
<1>1. CASE UNCHANGED everything
  BY <1>1 DEF everything, parts
<1>2. CASE part = "history" /\ PromptNext /\ UNCHANGED parts
  BY <1>2 DEF parts
<1>3. CASE InputNext
  <2>1. ChaptersNext \/ BudgetNext \/ RecallNext
    BY <1>3 DEF InputNext
  <2> QED
    BY <2>1 DEF ChaptersNext, AppendTo, Claim, Release, BudgetNext, AddTurn, Measure,
                RecallNext, AddFact, Judge
<1> QED
  BY <1>1, <1>2, <1>3 DEF MCNext

\* Whatever is added, claimed or released, ids stay positions.
LEMMA StepChatNumbered == ChatNumbered /\ [MCNext]_everything => ChatNumbered'
<1> SUFFICES ASSUME ChatNumbered, [MCNext]_everything, part = "chapters"
             PROVE  Numbering(input')
  BY PartStays DEF ChatNumbered
<1>1. Numbering(input) /\ input \in Seq(MessageRow(Nat))
  BY DEF ChatNumbered, Numbering
<1>2. ASSUME NEW tokens \in Nat, AppendTo(tokens)
      PROVE  Numbering(input')
  BY <1>1, <1>2, NumberOne DEF AppendTo
<1>3. ASSUME NEW i \in DOMAIN Plan, Claim(i)
      PROVE  Numbering(input')
  <2>1. PICK chapter : input' = Claimed(input, chapter)
    BY <1>3 DEF Claim
  <2>2. Numbering(Claimed(input, chapter))
    BY <1>1, ClaimKeepsNumbers
  <2> QED
    BY <2>1, <2>2
<1>4. ASSUME NEW first, NEW last, Release(first, last)
      PROVE  Numbering(input')
  BY <1>1, <1>4, ReleaseIs
<1>5. CASE UNCHANGED input
  BY <1>1, <1>5
<1> QED
  BY <1>2, <1>3, <1>4, <1>5, ChatSteps

\* So they always are.
LEMMA ChatNumberedHolds == MCSpec => []ChatNumbered
<1>1. MCInit => ChatNumbered
  BY DEF MCInit, ChatNumbered, Numbering
<1> QED
  BY <1>1, StepChatNumbered, PTL DEF MCSpec

\* Where the id of a message is its position, a chapter tells its cut.
LEMMA CutOfChapter ==
  ASSUME NEW ms, Numbering(ms), NEW cut \in Cut,
         1 <= cut.first, cut.first <= cut.last, cut.last <= Len(ms)
  PROVE  Head(IdsOf(ms, cut)) = cut.first /\ Last(IdsOf(ms, cut)) = cut.last
<1>1. PICK first \in Nat, last \in Nat : first = cut.first /\ last = cut.last
  BY DEF Cut
<1>2. PICK n \in Nat : n = last - first + 1
  BY <1>1
<1>3. PICK ids : ids = IdsOf(ms, cut)
  OBVIOUS
<1>4. ASSUME NEW k \in 1..n
      PROVE  ms[first + k - 1].id = first + k - 1 /\ first + k - 1 \in Nat
  <2>1. PICK j \in Nat : j = first + k - 1 /\ 1 <= j /\ j <= last
    BY <1>1, <1>2
  <2>2. j \in 1..Len(ms)
    BY <1>1, <2>1 DEF Numbering
  <2> QED
    BY <2>1, <2>2 DEF Numbering
<1>5. ids = [k \in 1..n |-> ms[first + k - 1].id]
  BY <1>1, <1>2, <1>3 DEF IdsOf
<1>6. ids \in Seq(Nat) /\ Len(ids) = n /\ 1 \in 1..n /\ n \in 1..n
  <2>1. \A k \in 1..n : ids[k] \in Nat
    BY <1>4, <1>5
  <2>2. ids \in Seq(Nat) /\ Len(ids) = n
    <3>1. ids \in [1..n -> Nat]
      BY <1>5, <2>1
    <3> QED
      BY <3>1
  <2>3. 1 <= n
    BY <1>1, <1>2
  <2> QED
    BY <2>2, <2>3
<1>7. ids[1] = first + 1 - 1 /\ ids[n] = first + n - 1
  BY <1>4, <1>5, <1>6
<1>8. Head(ids) = ids[1] /\ Last(ids) = ids[n]
  BY <1>6 DEF Last
<1> QED
  BY <1>1, <1>2, <1>3, <1>7, <1>8

\* A chat is always cut as it should be: its plan is the greedy partition of
\* its free messages (plan_chapters, chapters.py:42-73), whatever was claimed
\* and released before.
THEOREM ChaptersAlwaysRight == MCSpec => []ChaptersRight
<1>1. ASSUME ChatNumbered
      PROVE  ChaptersRight
  <2> SUFFICES ASSUME part = "chapters"
               PROVE  LET made == [i \in DOMAIN Plan |-> [first |-> Head(Plan[i]), last |-> Last(Plan[i])]]
                      IN Plan = Chapters(input, made) /\ IsPartition(input, made, Chunk, Len(input))
    BY DEF ChaptersRight
  <2>1. Numbering(input) /\ input \in Seq(MessageRow(Nat)) /\ Chunk \in Nat
    BY <1>1, BoundsAssumption DEF ChatNumbered, Numbering
  <2>2. PICK cuts \in Seq(Cut) : /\ PlanChapters(input, Chunk) = Chapters(input, cuts)
                                 /\ IsPartition(input, cuts, Chunk, Len(input))
    BY <2>1, PlanIsPartition
  <2>3. PICK plan : plan = Plan
    OBVIOUS
  <2>4. plan = Chapters(input, cuts) /\ DOMAIN plan = 1..Len(cuts)
        /\ \A i \in 1..Len(cuts) : plan[i] = IdsOf(input, cuts[i])
    BY <2>2, <2>3, ChaptersAre DEF Plan
  <2>5. ASSUME NEW i \in 1..Len(cuts)
        PROVE  [first |-> Head(plan[i]), last |-> Last(plan[i])] = cuts[i]
    <3>1. cuts[i] \in Cut /\ cuts[i] = Piece(cuts[i].first, cuts[i].last)
      BY CutsAre
    <3>2. 1 <= cuts[i].first /\ cuts[i].first <= cuts[i].last /\ cuts[i].last <= Len(input)
      BY <2>2, CutsAre DEF IsPartition, FreeMessagesOnce
    <3>3. Head(plan[i]) = cuts[i].first /\ Last(plan[i]) = cuts[i].last
      BY <2>1, <2>4, <3>1, <3>2, CutOfChapter
    <3> QED
      BY <3>1, <3>3 DEF Piece
  <2>6. PICK made : made = [i \in DOMAIN plan |-> [first |-> Head(plan[i]), last |-> Last(plan[i])]]
    OBVIOUS
  <2>7. cuts = [i \in 1..Len(cuts) |-> cuts[i]]
    OBVIOUS
  <2>8. made = cuts
    BY <2>4, <2>5, <2>6, <2>7
  <2> QED
    BY <2>2, <2>3, <2>4, <2>6, <2>8
<1> QED
  BY <1>1, ChatNumberedHolds, PTL

\* What list_chapters offered stays valid: a message at the end changes at
\* most the last chapter of the plan, and picking a chapter takes only that one
\* out of it (plan_chapters, claim_messages).
THEOREM OffersAlwaysStand == MCSpec => OffersStand
<1>1. ASSUME ChatNumbered, [MCNext]_everything, part = "chapters"
      PROVE  LET plan == Plan
             IN /\ Len(input') > Len(input) =>
                  \A i \in 1..(Len(plan) - 1) : i \in DOMAIN Plan' /\ Plan'[i] = plan[i]
                /\ \A i \in DOMAIN plan : Claim(i) => Plan' = RemoveAt(plan, i)
  <2>1. Numbering(input) /\ input \in Seq(MessageRow(Nat)) /\ Chunk \in Nat /\ Len(input) \in Nat
    BY <1>1, BoundsAssumption DEF ChatNumbered, Numbering
  <2>2. DistinctIds(input)
    BY <2>1 DEF Numbering, DistinctIds
  <2>3. ASSUME NEW i \in DOMAIN Plan, Claim(i)
        PROVE  Plan' = RemoveAt(Plan, i)
    <3>1. i \in DOMAIN PlanChapters(input, Chunk)
      BY <2>3 DEF Plan
    <3>2. PlanChapters(Claimed(input, PlanChapters(input, Chunk)[i]), Chunk)
            = RemoveAt(PlanChapters(input, Chunk), i)
      BY <2>1, <2>2, <3>1, ClaimKeepsOffers
    <3> QED
      BY <2>3, <3>2 DEF Claim, Plan
  <2>4. ASSUME NEW tokens \in Nat, AppendTo(tokens)
        PROVE  \A i \in 1..(Len(Plan) - 1) : i \in DOMAIN Plan' /\ Plan'[i] = Plan[i]
    <3>1. PICK m : m = [id |-> Len(input) + 1, free |-> TRUE, tokens |-> tokens]
      OBVIOUS
    <3>2. m \in MessageRow(Nat) /\ input' = Append(input, m)
      BY <2>1, <2>4, <3>1, NumberOne DEF AppendTo
    <3>3. \A i \in 1..(Len(PlanChapters(input, Chunk)) - 1) :
            /\ i \in DOMAIN PlanChapters(Append(input, m), Chunk)
            /\ PlanChapters(Append(input, m), Chunk)[i] = PlanChapters(input, Chunk)[i]
      BY <2>1, <3>2, AppendKeepsOffers
    <3> QED
      BY <3>2, <3>3 DEF Plan
  <2>5. ASSUME NEW i \in DOMAIN Plan, Claim(i)
        PROVE  ~(Len(input') > Len(input))
    <3>1. PICK chapter : input' = Claimed(input, chapter)
      BY <2>5 DEF Claim
    <3>2. Len(Claimed(input, chapter)) = Len(input)
      BY <2>1, ClaimKeepsNumbers
    <3> QED
      BY <2>1, <3>1, <3>2
  <2>6. ASSUME NEW first, NEW last, Release(first, last)
        PROVE  ~(Len(input') > Len(input))
    <3>1. Len(input') = Len(input)
      BY <2>1, <2>6, ReleaseIs
    <3> QED
      BY <2>1, <3>1
  <2>7. CASE UNCHANGED input
    <3>1. ~(Len(input') > Len(input))
      BY <2>1, <2>7
    <3> QED
      BY <2>3, <3>1
  <2>8. Len(input') > Len(input) =>
          \A i \in 1..(Len(Plan) - 1) : i \in DOMAIN Plan' /\ Plan'[i] = Plan[i]
    BY <1>1, <2>1, <2>4, <2>5, <2>6, <2>7, ChatSteps
  <2> QED
    BY <2>3, <2>8
<1>2. ChatNumbered /\ [MCNext]_everything =>
        [part = "chapters" =>
           LET plan == Plan
           IN /\ Len(input') > Len(input) =>
                \A i \in 1..(Len(plan) - 1) : i \in DOMAIN Plan' /\ Plan'[i] = plan[i]
              /\ \A i \in DOMAIN plan : Claim(i) => Plan' = RemoveAt(plan, i)]_everything
  BY <1>1
<1> QED
  BY <1>2, ChatNumberedHolds, PTL DEF MCSpec, OffersStand

-----------------------------------------------------------------------------
(* The context budget, for every window, setting and prompt.               *)

\* A chat whose budget can be told; its responseTokenLimit may be anything.
Measurable(chat) ==
  /\ chat.base \in Nat /\ chat.cards \in Nat /\ chat.message \in Nat
  /\ chat.history \in Seq(Nat)
  /\ chat.window \in Nat \cup {Unlisted}
  /\ chat.override \in Nat \cup {NoSetting}

\* The share of a limit that is used is at most the limit.
LEMMA SafeShare ==
  ASSUME NEW n \in Nat
  PROVE  (n * SafeTenths) \div 10 \in Nat /\ (n * SafeTenths) \div 10 <= n
<1>1. ASSUME NEW k \in 1..10
      PROVE  n * k \in Nat /\ n * k <= 10 * n
  BY <1>1
<1>2. PICK m : m = n * SafeTenths
  OBVIOUS
<1>3. m \in Nat /\ m <= 10 * n
  BY <1>1, <1>2, BudgetAssumption
<1>4. m \div 10 \in Nat /\ m \div 10 <= n
  BY <1>3
<1> QED
  BY <1>2, <1>4

\* Nothing has no tokens.
LEMMA NoTokens == Tokens(<<>>) = 0
<1>1. DOMAIN <<>> = {}
  OBVIOUS
<1> QED
  BY <1>1 DEF Tokens, FoldLeft, MapThenFoldSet

\* The reserve is a number of tokens.
LEMMA ReserveIsNat ==
  ASSUME NEW chat
  PROVE  OutputReserve(chat) \in Nat
BY BudgetAssumption DEF OutputReserve

\* The floor leaves room for a message, and above it the answer fits too.
LEMMA RoomAlways ==
  ASSUME NEW chat, Measurable(chat), chat.window # Unlisted
  PROVE  RoomForBoth(chat)
<1>1. PICK limit, reserve, share :
        /\ limit = Limit(chat) /\ reserve = OutputReserve(chat)
        /\ share = (limit * SafeTenths) \div 10
  OBVIOUS
<1>2. chat.window \in Nat /\ chat.override \in Nat \cup {NoSetting}
  BY DEF Measurable
<1>3. /\ limit \in Nat /\ limit <= chat.window
      /\ chat.override # NoSetting => limit <= chat.override
  BY <1>1, <1>2 DEF Limit
<1>4. share \in Nat /\ share <= limit
  BY <1>1, <1>3, SafeShare
<1>5. reserve \in Nat
  BY <1>1, ReserveIsNat
<1>6. UsableTokens(chat) = IF share - reserve < MinUsable THEN MinUsable ELSE share - reserve
  BY <1>1 DEF UsableTokens
<1>7. MinUsable \in Nat
  BY BudgetAssumption
<1> QED
  BY <1>1, <1>2, <1>3, <1>4, <1>5, <1>6, <1>7 DEF RoomForBoth

\* The gate counts the base prompt that the overview leaves out.
LEMMA FullIsRefused ==
  ASSUME NEW chat, Measurable(chat), chat.window # Unlisted
  PROVE  ShownAsFull(chat)
<1> SUFFICES ASSUME chat.history = <<>>, ~Usage(chat).fits
             PROVE  ~Accepted(chat)
  BY DEF ShownAsFull
<1>1. Tokens(Page(chat.history)) = 0
  <2>1. Page(chat.history) = <<>>
    BY BudgetAssumption DEF Page
  <2> QED
    BY <2>1, NoTokens
<1>2. chat.cards \in Nat /\ chat.base \in Nat
  BY DEF Measurable
<1>3. Usage(chat).fits <=> chat.cards <= UsableTokens(chat)
  <2>1. PICK cards, history : /\ cards = CountParts(chat, 0, FALSE).cards
                              /\ history = CountParts(chat, 0, FALSE).history
    OBVIOUS
  <2>2. cards = chat.cards /\ history = 0
    BY <1>1, <1>2, <2>1 DEF CountParts
  <2>3. Usage(chat).fits <=> cards + history <= UsableTokens(chat)
    BY <2>1, Zenon DEF Usage
  <2>4. cards + history = chat.cards
    BY <1>2, <2>2
  <2> QED
    BY <2>3, <2>4, Zenon
<1>4. UsableTokens(chat) \in Int
  <2>1. chat.window \in Nat /\ Limit(chat) \in Nat
    BY DEF Measurable, Limit
  <2>2. PICK share : share = (Limit(chat) * SafeTenths) \div 10 /\ share \in Nat
    BY <2>1, SafeShare
  <2> QED
    BY <2>2, ReserveIsNat, BudgetAssumption DEF UsableTokens
<1>5. CountParts(chat, chat.message, TRUE).cards = chat.cards + chat.base
  BY DEF CountParts
<1>6. ~(chat.cards <= UsableTokens(chat))
  BY <1>3
<1>7. ~(chat.cards + chat.base <= UsableTokens(chat))
  BY <1>2, <1>4, <1>6
<1> QED
  BY <1>5, <1>7 DEF Accepted

\* A listed model's budget leaves room for a message and for the answer, and
\* what the overview shows as too full the gate refuses in a new chat
\* (_usable_tokens, get_context_usage, _require_fits_window), for every
\* window, setting and prompt.
THEOREM BudgetAlwaysHolds == \A chat : Measurable(chat) => BudgetHolds(chat)
BY RoomAlways, FullIsRefused DEF BudgetHolds

\* A chat gets turns, then it is measured.
BudgetTyped ==
  part = "budget" =>
    \/ input.chosen = FALSE /\ input.history \in Seq(Nat)
    \/ input.chosen = TRUE /\ Measurable(input)

\* Whatever is measured can be told.
LEMMA StepBudgetTyped == BudgetTyped /\ [MCNext]_everything => BudgetTyped'
<1> SUFFICES ASSUME BudgetTyped, [MCNext]_everything, part = "budget"
             PROVE  \/ input'.chosen = FALSE /\ input'.history \in Seq(Nat)
                    \/ input'.chosen = TRUE /\ Measurable(input')
  BY PartStays DEF BudgetTyped
<1>1. CASE UNCHANGED input
  BY <1>1 DEF BudgetTyped
<1>2. CASE ~input.chosen /\ BudgetNext
  <2>1. input.history \in Seq(Nat) /\ input.chosen = FALSE
    BY <1>2 DEF BudgetTyped
  <2>2. ASSUME NEW tokens \in 1..3, AddTurn(tokens)
        PROVE  input'.chosen = FALSE /\ input'.history \in Seq(Nat)
    BY <2>1, <2>2 DEF AddTurn
  <2>3. \/ \E tokens \in 1..3 : AddTurn(tokens)
        \/ \E cards \in {0, 4, 9}, message \in {1, 6}, window \in {2, 6, 20, Unlisted},
              override \in {1, 9, 30, NoSetting}, limit \in DOMAIN ReserveOf \cup {NoSetting} :
             Measure(cards, message, window, override, limit)
    BY <1>2 DEF BudgetNext
  <2>4. CASE \E tokens \in 1..3 : AddTurn(tokens)
    BY <2>2, <2>4
  <2>5. ASSUME ~\E tokens \in 1..3 : AddTurn(tokens)
        PROVE  input'.chosen = TRUE /\ Measurable(input')
    <3>1. PICK cards \in {0, 4, 9}, message \in {1, 6}, window \in {2, 6, 20, Unlisted},
               override \in {1, 9, 30, NoSetting}, limit \in DOMAIN ReserveOf \cup {NoSetting} :
                 Measure(cards, message, window, override, limit)
      BY <2>3, <2>5
    <3>2. /\ input'.chosen = TRUE /\ input'.base = 1 /\ input'.cards = cards
          /\ input'.history = input.history /\ input'.message = message
          /\ input'.window = window /\ input'.override = override
      BY <3>1 DEF Measure
    <3>3. /\ cards \in Nat /\ message \in Nat /\ window \in Nat \cup {Unlisted}
          /\ override \in Nat \cup {NoSetting}
      BY <3>1
    <3> QED
      BY <2>1, <3>2, <3>3 DEF Measurable
  <2> QED
    BY <2>4, <2>5
<1> QED
  BY <1>1, <1>2 DEF MCNext, InputNext, everything, parts

\* Whatever a chat has become when a message is sent in it, its budget leaves
\* room for the message and the answer, and the overview alarms nobody alone.
THEOREM BudgetAlwaysSound == MCSpec => []BudgetIsSound
<1>1. MCInit => BudgetTyped
  <2> SUFFICES ASSUME MCInit, part = "budget"
               PROVE  input.chosen = FALSE /\ input.history \in Seq(Nat)
    BY DEF BudgetTyped
  <2>1. input = NewTurns
    BY DEF MCInit
  <2> QED
    BY <2>1 DEF NewTurns
<1>2. BudgetTyped => BudgetIsSound
  BY BudgetAlwaysHolds DEF BudgetTyped, BudgetIsSound, Chosen
<1> QED
  BY <1>1, <1>2, StepBudgetTyped, PTL DEF MCSpec

-----------------------------------------------------------------------------
(* What a recall experiment reports, whatever the judge answers.           *)

\* A weight is what parse_facts leaves of it.
LEMMA WeightIs ==
  ASSUME NEW raw
  PROVE  Weight(raw) \in 1..3
BY DEF Weight

\* What fact n adds to the sum over ns.
Worth(facts, ns, n) == IF n \in ns THEN Weight(facts[n]) ELSE 0

\* Facts outside ns add nothing, those in it their weight.
LEMMA WorthIs ==
  ASSUME NEW facts, NEW ns, NEW n
  PROVE  /\ Worth(facts, ns, n) \in 0..3
         /\ n \in ns => Worth(facts, ns, n) \in 1..3 /\ Worth(facts, ns, n) = Weight(facts[n])
         /\ n \notin ns => Worth(facts, ns, n) = 0
BY WeightIs DEF Worth

\* WeightUpTo is the sum it is written as.
LEMMA WeightsAre ==
  ASSUME NEW facts, Len(facts) \in Nat, NEW ns
  PROVE  /\ WeightUpTo(facts, ns)[0] = 0
         /\ \A n \in 1..Len(facts) :
              WeightUpTo(facts, ns)[n] = WeightUpTo(facts, ns)[n - 1] + Worth(facts, ns, n)
<1> DEFINE L == Len(facts)
           F == [n \in 1..L |-> [x \in Nat |-> x + Worth(facts, ns, n)]]
           Loop(g) == [n \in 0..L |-> IF n = 0 THEN 0
                                      ELSE g[n - 1] + (IF n \in ns THEN Weight(facts[n]) ELSE 0)]
<1>1. L \in Nat
  OBVIOUS
<1>2. ASSUME NEW n \in 1..L, NEW x \in Nat
      PROVE  F[n][x] = x + Worth(facts, ns, n) /\ F[n][x] \in Nat
  <2>1. x + Worth(facts, ns, n) \in Nat
    BY WorthIs
  <2>2. F[n][x] = x + Worth(facts, ns, n)
    OBVIOUS
  <2> QED
    BY <2>1, <2>2
<1>3. PICK g \in [0..L -> Nat] : g[0] = 0 /\ \A n \in 1..L : g[n] = F[n][g[n - 1]]
  <2> HIDE DEF F, L
  <2>1. IsLoop(Nat, 0, L, F)
    BY <1>1, <1>2 DEF IsLoop
  <2>2. PICK g : IsRun(g, Nat, 0, L, F)
    BY <2>1, LoopExists
  <2> QED
    BY <2>2 DEF IsRun
<1>4. ASSUME NEW n \in 1..L
      PROVE  g[n] = g[n - 1] + (IF n \in ns THEN Weight(facts[n]) ELSE 0)
  <2>1. n - 1 \in 0..L
    BY <1>1
  <2>2. g[n - 1] \in Nat
    BY <1>3, <2>1
  <2>3. g[n] = g[n - 1] + Worth(facts, ns, n)
    <3> HIDE DEF F
    <3> QED
      BY <1>2, <1>3, <2>2
  <2> QED
    BY <2>3 DEF Worth
<1>5. g = Loop(g)
  <2>1. \A n \in 0..L : g[n] = IF n = 0 THEN 0
                               ELSE g[n - 1] + (IF n \in ns THEN Weight(facts[n]) ELSE 0)
    BY <1>1, <1>3, <1>4
  <2> QED
    BY <1>3, <2>1, Zenon
<1>6. WeightUpTo(facts, ns) = CHOOSE sum : sum = Loop(sum)
  BY DEF WeightUpTo
<1>7. PICK f : f = WeightUpTo(facts, ns)
  OBVIOUS
<1>8. f = Loop(f)
  <2> HIDE DEF Loop
  <2> QED
    BY <1>5, <1>6, <1>7
<1>9. f[0] = 0 /\ \A n \in 1..L : f[n] = f[n - 1] + Worth(facts, ns, n)
  BY <1>1, <1>8 DEF Worth
<1> QED
  BY <1>7, <1>9

\* How the sum over some facts compares with the sum over all, which is as
\* the facts are counted: x of them weigh f, all of them weigh g.
Compared(facts, ns, n) ==
  LET some == WeightUpTo(facts, ns)[n]
      all == WeightUpTo(facts, 1..Len(facts))[n]
  IN /\ some \in Nat /\ all \in Nat /\ some <= all /\ n <= all
     /\ some = 0 <=> \A k \in 1..n : k \notin ns

\* Some facts never weigh more than all, and weigh something if there are any.
LEMMA AlwaysCompared ==
  ASSUME NEW facts, Len(facts) \in Nat, NEW ns
  PROVE  \A n \in 0..Len(facts) : Compared(facts, ns, n)
<1> PICK L, f, g : L = Len(facts) /\ f = WeightUpTo(facts, ns) /\ g = WeightUpTo(facts, 1..Len(facts))
  OBVIOUS
<1>1. /\ f[0] = 0 /\ \A n \in 1..L : f[n] = f[n - 1] + Worth(facts, ns, n)
      /\ g[0] = 0 /\ \A n \in 1..L : g[n] = g[n - 1] + Worth(facts, 1..L, n)
  BY WeightsAre
<1> DEFINE Bad == {n \in 0..L : ~Compared(facts, ns, n)}
<1>2. ASSUME Bad # {}
      PROVE  FALSE
  <2>0. Bad \in SUBSET Nat
    OBVIOUS
  <2>1. PICK n \in Bad : \A k \in Bad : n <= k
    <3> HIDE DEF Bad
    <3> QED
      BY <1>2, <2>0, LeastNat
  <2>2. n \in 0..L /\ ~Compared(facts, ns, n)
    BY <2>1
  <2>3. n # 0
    BY <1>1, <2>2 DEF Compared
  <2>4. n \in 1..L /\ n - 1 \in 0..L /\ ~(n <= n - 1)
    BY <2>2, <2>3
  <2>5. Compared(facts, ns, n - 1)
    BY <2>1, <2>4
  <2>6. PICK a \in Nat, b \in Nat : a = f[n - 1] /\ b = g[n - 1] /\ a <= b /\ n - 1 <= b
                                    /\ (a = 0 <=> \A k \in 1..(n - 1) : k \notin ns)
    BY <2>5 DEF Compared
  <2>7. PICK v \in 0..3, w \in 1..3 : /\ v = Worth(facts, ns, n) /\ w = Worth(facts, 1..L, n)
                                      /\ v <= w /\ (v = 0 <=> n \notin ns)
    <3>1. Worth(facts, ns, n) \in 0..3 /\ Worth(facts, 1..L, n) \in 1..3
      BY <2>4, WorthIs
    <3>2. Worth(facts, 1..L, n) = Weight(facts[n])
      BY <2>4, WorthIs
    <3>3. n \in ns => Worth(facts, ns, n) \in 1..3 /\ Worth(facts, ns, n) = Weight(facts[n])
      BY WorthIs
    <3>4. n \notin ns => Worth(facts, ns, n) = 0
      BY WorthIs
    <3> QED
      BY <3>1, <3>2, <3>3, <3>4
  <2>8. f[n] = a + v /\ g[n] = b + w
    BY <1>1, <2>4, <2>6, <2>7
  <2>9. \A k \in 1..n : k \in 1..(n - 1) \/ k = n
    BY <2>4
  <2>10. 1..(n - 1) \subseteq 1..n /\ n \in 1..n
    BY <2>4
  <2>11. (a + v = 0) <=> \A k \in 1..n : k \notin ns
    <3>1. (a + v = 0) <=> (a = 0 /\ v = 0)
      BY <2>6, <2>7
    <3> QED
      BY <2>6, <2>7, <2>9, <2>10, <3>1
  <2>12. a + v \in Nat /\ b + w \in Nat /\ a + v <= b + w /\ n <= b + w
    <3>1. v \in Nat /\ w \in Nat /\ 1 <= w /\ v <= w /\ n \in Nat
      BY <2>4, <2>7
    <3>2. a <= b /\ n - 1 <= b
      BY <2>6
    <3> QED
      BY <3>1, <3>2
  <2> QED
    BY <2>2, <2>8, <2>11, <2>12 DEF Compared
<1> QED
  BY <1>2

-----------------------------------------------------------------------------
(* Counting.                                                               *)

\* What can be told apart by its pictures in a finite set is not more.
LEMMA NotMore ==
  ASSUME NEW S, NEW T, IsFiniteSet(T), NEW f \in [S -> T], \A x, y \in S : f[x] = f[y] => x = y
  PROVE  IsFiniteSet(S) /\ Cardinality(S) <= Cardinality(T) /\ Cardinality(S) \in Nat
<1>1. f \in Injection(S, T)
  BY Zenon DEF Injection, IsInjective
<1>2. IsFiniteSet(S) /\ Cardinality(S) <= Cardinality(T)
  BY <1>1, FS_Injection
<1>3. Cardinality(S) \in Nat
  BY <1>2, FS_CardinalityType
<1> QED
  BY <1>2, <1>3

\* A finite set that is pictured in itself without a repetition fills it.
LEMMA AllReached ==
  ASSUME NEW S, IsFiniteSet(S), NEW f \in [S -> S], \A x, y \in S : f[x] = f[y] => x = y
  PROVE  \A z \in S : \E x \in S : f[x] = z
<1>1. f \in Injection(S, S)
  BY Zenon DEF Injection, IsInjective
<1>2. f \in Surjection(S, S)
  BY <1>1, FS_Injection
<1> QED
  BY <1>2, Zenon DEF Surjection

\* Two different answers are counted over different facts.
LEMMA CountsApart ==
  ASSUME NEW n \in Nat, NEW S \in SUBSET (1..n), NEW T \in SUBSET (1..n), S \cap T = {}
  PROVE  Cardinality(S) \in Nat /\ Cardinality(T) \in Nat /\ Cardinality(S) + Cardinality(T) <= n
<1>1. IsFiniteSet(1..n) /\ Cardinality(1..n) = n
  BY FS_Interval
<1>2. IsFiniteSet(S) /\ IsFiniteSet(T)
  BY <1>1, FS_Subset
<1>3. Cardinality(S) \in Nat /\ Cardinality(T) \in Nat
  BY <1>2, FS_CardinalityType
<1>4. Cardinality(S \cup T) = Cardinality(S) + Cardinality(T)
  <2>1. Cardinality(S \cup T) = Cardinality(S) + Cardinality(T) - Cardinality(S \cap T)
    BY <1>2, FS_Union
  <2>2. Cardinality(S \cap T) = 0
    BY FS_EmptySet
  <2> QED
    BY <1>3, <2>1, <2>2
<1>5. Cardinality(S \cup T) <= n
  <2>1. S \cup T \in SUBSET (1..n)
    OBVIOUS
  <2> QED
    BY <1>1, <2>1, FS_Subset
<1> QED
  BY <1>3, <1>4, <1>5

-----------------------------------------------------------------------------
(* Percentiles.                                                            *)

\* A rank is one of the places, and percent of them are up to it.
LEMMA RankIs ==
  ASSUME NEW percent \in 0..100, NEW count \in Nat \ {0}
  PROVE  /\ Rank(percent, count) \in 1..count
         /\ 100 * Rank(percent, count) >= percent * count
         /\ percent > 0 => 100 * (Rank(percent, count) - 1) < percent * count
<1>1. ASSUME NEW k \in 0..100
      PROVE  k * count \in Nat /\ k * count <= 100 * count /\ (k > 0 => k * count > 0)
  BY <1>1
<1>2. PICK x \in Nat : x = percent * count /\ x <= 100 * count /\ (percent > 0 => x > 0)
  BY <1>1
<1>3. PICK r : r = Rank(percent, count)
  OBVIOUS
<1>4. CASE x = 0
  <2>1. r = 1
    BY <1>2, <1>3, <1>4 DEF Rank
  <2> QED
    BY <1>2, <1>3, <1>4, <2>1
<1>5. CASE x # 0
  <2>1. r = (x + 99) \div 100
    BY <1>2, <1>3, <1>5 DEF Rank
  <2>2. r \in Nat /\ 1 <= r /\ r <= count /\ 100 * r >= x /\ 100 * (r - 1) < x
    BY <1>2, <1>5, <2>1
  <2> QED
    BY <1>2, <1>3, <2>2
<1> QED
  BY <1>4, <1>5

\* A percentile of scores is a score.
LEMMA PercentileIs ==
  ASSUME NEW values \in Seq(Nat), NEW percent \in 0..100
  PROVE  PercentileIsNearestRank(values, percent)
<1> SUFFICES ASSUME values # <<>>
             PROVE  LET p == Percentile(values, percent)
                    IN /\ p \in ToSet(values)
                       /\ 100 * Cardinality({n \in DOMAIN values : values[n] <= p}) >= percent * Len(values)
                       /\ percent > 0 => 100 * Cardinality({n \in DOMAIN values : values[n] < p}) < percent * Len(values)
  BY DEF PercentileIsNearestRank
<1>1. PICK L \in Nat \ {0} : L = Len(values) /\ DOMAIN values = 1..L /\ values \in [1..L -> Nat]
  OBVIOUS
<1>2. IsFiniteSet(1..L) /\ Cardinality(1..L) = L
  BY FS_Interval
<1>3. PICK order : /\ order = SortedBy(1..L, values) /\ order \in [1..L -> 1..L]
                   /\ \A i, j \in 1..L : i # j => order[i] # order[j]
                   /\ \A i, j \in 1..L : i < j => values[order[i]] <= values[order[j]]
  <2>1. IsOrder(SortedBy(1..L, values), 1..L, values)
    BY <1>1, <1>2, SortedByIs
  <2> QED
    BY <1>2, <2>1 DEF IsOrder
<1>4. \A n \in 1..L : \E k \in 1..L : order[k] = n
  <2>1. \A x, y \in 1..L : order[x] = order[y] => x = y
    BY <1>3
  <2>2. IsFiniteSet(1..L) /\ order \in [1..L -> 1..L]
    BY <1>2, <1>3
  <2> QED
    BY <2>1, <2>2, AllReached
<1>5. PICK r \in 1..L : /\ r = Rank(percent, L)
                        /\ 100 * r >= percent * L
                        /\ percent > 0 => 100 * (r - 1) < percent * L
  BY RankIs
<1>6. PICK p \in Nat : p = values[order[r]] /\ p = Percentile(values, percent)
  BY <1>1, <1>3, <1>5 DEF Percentile
<1>7. p \in ToSet(values)
  BY <1>1, <1>3, <1>5, <1>6 DEF ToSet
<1>8. PICK upTo : upTo = {n \in 1..L : values[n] <= p}
  OBVIOUS
<1>9. Cardinality(upTo) \in Nat /\ r <= Cardinality(upTo)
  <2>1. IsFiniteSet(upTo)
    BY <1>2, <1>8, FS_Subset
  <2> DEFINE f == [k \in 1..r |-> order[k]]
  <2>2. ASSUME NEW k \in 1..r
        PROVE  order[k] \in upTo
    <3>1. k \in 1..L /\ order[k] \in 1..L
      BY <1>1, <1>3, <1>5
    <3>2. CASE k = r
      <4>1. order[k] \in 1..L /\ values[order[k]] = p
        BY <1>6, <3>1, <3>2
      <4> QED
        BY <1>6, <1>8, <4>1
    <3>3. CASE k < r
      BY <1>3, <1>5, <1>6, <1>8, <3>1, <3>3
    <3> QED
      BY <1>5, <3>1, <3>2, <3>3
  <2>3. f \in [1..r -> upTo] /\ \A x, y \in 1..r : f[x] = f[y] => x = y
    <3>1. \A x, y \in 1..r : order[x] = order[y] => x = y
      <4>1. 1..r \subseteq 1..L
        BY <1>1, <1>5
      <4> QED
        BY <1>3, <4>1
    <3> QED
      BY <2>2, <3>1
  <2>4. Cardinality(1..r) <= Cardinality(upTo)
    <3> HIDE DEF f
    <3> QED
      BY <2>1, <2>3, NotMore
  <2>5. Cardinality(1..r) = r
    BY <1>5, FS_Interval
  <2> QED
    BY <2>1, <2>4, <2>5, FS_CardinalityType
<1>10. PICK below : below = {n \in 1..L : values[n] < p}
  OBVIOUS
<1>11. Cardinality(below) \in Nat /\ Cardinality(below) <= r - 1
  <2> DEFINE g == [n \in below |-> CHOOSE k \in 1..L : order[k] = n]
  <2>1. ASSUME NEW n \in below
        PROVE  g[n] \in 1..L /\ order[g[n]] = n
    BY <1>4, <1>10
  <2>2. ASSUME NEW n \in below
        PROVE  g[n] \in 1..(r - 1)
    <3>1. PICK k \in 1..L : k = g[n] /\ order[k] = n
      BY <2>1
    <3>2. n \in 1..L /\ values[n] < p /\ values[n] \in Nat
      BY <1>1, <1>10
    <3>3. k # r
      <4>1. ASSUME k = r
            PROVE  FALSE
        <5>1. p = values[n]
          BY <1>6, <3>1, <4>1
        <5> QED
          BY <3>2, <5>1
      <4> QED
        BY <4>1
    <3>4. ~(r < k)
      <4>1. ASSUME r < k
            PROVE  FALSE
        <5>1. p <= values[n]
          BY <1>3, <1>5, <1>6, <3>1, <4>1
        <5> QED
          BY <3>2, <5>1
      <4> QED
        BY <4>1
    <3>5. k \in 1..(r - 1)
      BY <1>5, <3>3, <3>4
    <3> QED
      BY <3>1, <3>5
  <2>3. g \in [below -> 1..(r - 1)] /\ \A x, y \in below : g[x] = g[y] => x = y
    <3>1. \A x, y \in below : g[x] = g[y] => x = y
      BY <2>1
    <3> QED
      BY <2>2, <3>1
  <2>4. IsFiniteSet(1..(r - 1)) /\ Cardinality(1..(r - 1)) = r - 1
    <3>1. r - 1 \in Nat
      BY <1>1, <1>5
    <3> QED
      BY <3>1, FS_Interval
  <2> HIDE DEF g
  <2> QED
    BY <2>3, <2>4, NotMore
<1>12. 100 * Cardinality(upTo) >= percent * L
  <2>1. PICK x \in Nat : x = percent * L
    OBVIOUS
  <2> QED
    BY <1>5, <1>9, <2>1
<1>13. percent > 0 => 100 * Cardinality(below) < percent * L
  <2>1. PICK x \in Nat : x = percent * L
    OBVIOUS
  <2> QED
    BY <1>5, <1>11, <2>1
<1> QED
  BY <1>1, <1>6, <1>7, <1>8, <1>10, <1>12, <1>13

-----------------------------------------------------------------------------
(* Verdicts.                                                               *)

\* Facts and, for each batch of them, a reply of the judge.
Judged(facts, replies) ==
  /\ facts \in Seq(Int \cup {NoNumber})
  /\ replies \in [1..Batches(facts) -> Seq(Answers)]

BatchOf(n) == ((n - 1) \div BatchSize) + 1
PlaceOf(n) == ((n - 1) % BatchSize) + 1

\* Every fact is in a batch that was answered.
LEMMA BatchExists ==
  ASSUME NEW L \in Nat, NEW n \in 1..L
  PROVE  BatchOf(n) \in 1..((L + BatchSize - 1) \div BatchSize) /\ PlaceOf(n) \in Nat
<1>1. PICK B \in Nat \ {0} : B = BatchSize
  BY BatchAssumption
<1>2. PICK q \in Nat, m \in Nat : q = (n - 1) \div B /\ m = (n - 1) % B /\ n - 1 = B * q + m
  BY <1>1
<1>3. PICK x \in Nat : x = L + B - 1
  BY <1>1
<1>4. PICK d \in Nat, e \in Nat : d = x \div B /\ e = x % B /\ x = B * d + e /\ e < B
  BY <1>1, <1>3
<1>5. q + 1 <= d
  <2>1. B * (q + 1) = B * q + B /\ B * (d + 1) = B * d + B
    BY <1>1, <1>2, <1>4
  <2>2. B * (q + 1) <= x
    BY <1>1, <1>2, <1>3, <2>1
  <2>3. B * (q + 1) < B * (d + 1)
    BY <1>1, <1>2, <1>4, <2>1, <2>2
  <2>4. ASSUME d + 1 <= q + 1
        PROVE  B * (d + 1) <= B * (q + 1)
    BY <1>1, <2>4
  <2> QED
    BY <2>3, <2>4
<1> QED
  BY <1>1, <1>2, <1>3, <1>4, <1>5 DEF BatchOf, PlaceOf

\* The last entry with a number counts.
LEMMA VerdictIs ==
  ASSUME NEW reply \in Seq(Answers), NEW number
  PROVE  \/ /\ \A k \in DOMAIN reply : reply[k].id # number
            /\ VerdictOf(reply, number) = "missing"
         \/ \E k \in DOMAIN reply : /\ reply[k].id = number
                                    /\ VerdictOf(reply, number) = reply[k].verdict
<1>1. PICK entries : entries = {k \in DOMAIN reply : reply[k].id = number}
  OBVIOUS
<1>2. CASE entries = {}
  BY <1>1, <1>2 DEF VerdictOf
<1>3. CASE entries # {}
  <2>1. entries \in SUBSET Nat /\ Len(reply) \in Nat /\ \A k \in entries : k <= Len(reply)
    BY <1>1
  <2>2. \E x \in entries : \A y \in entries : x >= y
    BY <1>3, <2>1, GreatestNat
  <2>3. Max(entries) \in entries
    BY <2>2, Zenon DEF Max
  <2>4. VerdictOf(reply, number) = reply[Max(entries)].verdict
    BY <1>1, <1>3 DEF VerdictOf
  <2> QED
    BY <1>1, <2>3, <2>4
<1> QED
  BY <1>2, <1>3

\* The verdict of a fact is the one of its place in the reply to its batch.
LEMMA VerifyIs ==
  ASSUME NEW facts, NEW replies, Judged(facts, replies)
  PROVE  /\ Len(facts) \in Nat /\ DOMAIN facts = 1..Len(facts)
         /\ DOMAIN Verify(facts, replies) = 1..Len(facts)
         /\ Verify(facts, replies) \in Seq({"supported", "contradicted", "missing"})
         /\ Len(Verify(facts, replies)) = Len(facts)
         /\ \A n \in 1..Len(facts) :
              /\ replies[BatchOf(n)] \in Seq(Answers)
              /\ Verify(facts, replies)[n] = VerdictOf(replies[BatchOf(n)], PlaceOf(n))
<1>1. PICK L \in Nat : L = Len(facts) /\ DOMAIN facts = 1..L
  BY DEF Judged
<1>2. PICK verdicts : verdicts = Verify(facts, replies)
  OBVIOUS
<1>3. verdicts = [n \in 1..L |-> VerdictOf(replies[BatchOf(n)], PlaceOf(n))]
  BY <1>1, <1>2 DEF Verify, BatchOf, PlaceOf, Numbered
<1>4. ASSUME NEW n \in 1..L
      PROVE  /\ replies[BatchOf(n)] \in Seq(Answers)
             /\ verdicts[n] = VerdictOf(replies[BatchOf(n)], PlaceOf(n))
             /\ verdicts[n] \in {"supported", "contradicted", "missing"}
  <2>1. BatchOf(n) \in 1..Batches(facts)
    BY <1>1, BatchExists DEF Batches
  <2>2. PICK reply \in Seq(Answers) : reply = replies[BatchOf(n)]
    BY <2>1 DEF Judged
  <2>3. verdicts[n] = VerdictOf(reply, PlaceOf(n))
    BY <1>3, <2>2
  <2>4. \A k \in DOMAIN reply : reply[k].verdict \in {"supported", "contradicted"}
    <3>1. ASSUME NEW k \in DOMAIN reply
          PROVE  reply[k].verdict \in {"supported", "contradicted"}
      <4>1. reply[k] \in Answers
        BY <2>2
      <4> QED
        BY <4>1 DEF Answers
    <3> QED
      BY <3>1
  <2>5. VerdictOf(reply, PlaceOf(n)) \in {"supported", "contradicted", "missing"}
    BY <2>2, <2>4, VerdictIs
  <2> QED
    BY <2>2, <2>3, <2>5
<1>5. verdicts \in [1..L -> {"supported", "contradicted", "missing"}]
  BY <1>3, <1>4
<1>6. verdicts \in Seq({"supported", "contradicted", "missing"}) /\ Len(verdicts) = L
      /\ DOMAIN verdicts = 1..L
  BY <1>5
<1> QED
  BY <1>1, <1>2, <1>4, <1>6

\* A verdict is never taken from the reply to another batch.
LEMMA VerdictsStayInBatch ==
  ASSUME NEW facts, NEW replies, Judged(facts, replies)
  PROVE  VerdictsInTheirBatch(facts, replies)
<1>1. PICK L \in Nat, verdicts \in Seq({"supported", "contradicted", "missing"}) :
        /\ L = Len(facts) /\ DOMAIN facts = 1..L
        /\ verdicts = Verify(facts, replies) /\ Len(verdicts) = L
  BY VerifyIs
<1>2. ASSUME NEW n \in 1..L
      PROVE  LET reply == replies[((n - 1) \div BatchSize) + 1]
                 said == {e \in ToSet(reply) : e.id = ((n - 1) % BatchSize) + 1}
             IN IF said = {} THEN verdicts[n] = "missing" ELSE \E e \in said : verdicts[n] = e.verdict
  <2>0. PICK place : place = ((n - 1) % BatchSize) + 1
    OBVIOUS
  <2>1. PICK reply \in Seq(Answers) : reply = replies[((n - 1) \div BatchSize) + 1]
    BY <1>1, VerifyIs DEF BatchOf
  <2>2. PICK said : said = {e \in ToSet(reply) : e.id = place}
    OBVIOUS
  <2>3. verdicts[n] = VerdictOf(reply, place)
    BY <1>1, <2>0, <2>1, VerifyIs DEF BatchOf, PlaceOf
  <2>4. \A e : e \in said <=> \E k \in DOMAIN reply : reply[k].id = place /\ e = reply[k]
    <3>1. ToSet(reply) = {reply[k] : k \in DOMAIN reply}
      BY DEF ToSet
    <3> QED
      BY <2>2, <3>1
  <2>5. CASE \A k \in DOMAIN reply : reply[k].id # place
    <3>1. said = {} /\ VerdictOf(reply, place) = "missing"
      BY <2>4, <2>5, VerdictIs
    <3> QED
      BY <2>0, <2>1, <2>2, <2>3, <3>1
  <2>6. CASE ~\A k \in DOMAIN reply : reply[k].id # place
    <3>1. PICK k \in DOMAIN reply : reply[k].id = place /\ VerdictOf(reply, place) = reply[k].verdict
      BY <2>6, VerdictIs
    <3>2. reply[k] \in said /\ verdicts[n] = reply[k].verdict
      BY <2>3, <2>4, <3>1
    <3>3. said # {} /\ \E e \in said : verdicts[n] = e.verdict
      BY <3>2
    <3> QED
      BY <2>0, <2>1, <2>2, <3>3
  <2> QED
    BY <2>5, <2>6
<1> QED
  BY <1>1, <1>2 DEF VerdictsInTheirBatch

\* The rates of an experiment are rates.
LEMMA RatesAlwaysInRange ==
  ASSUME NEW facts, NEW replies, Judged(facts, replies)
  PROVE  RatesInRange(facts, replies)
<1>1. PICK L \in Nat, verdicts \in Seq({"supported", "contradicted", "missing"}) :
        /\ L = Len(facts) /\ DOMAIN facts = 1..L /\ verdicts = Verify(facts, replies)
        /\ DOMAIN verdicts = 1..L /\ Len(verdicts) = L
  BY VerifyIs
<1>2. PICK ns, against : /\ ns = {n \in 1..L : verdicts[n] = "supported"}
                         /\ against = {n \in 1..L : verdicts[n] = "contradicted"}
  OBVIOUS
<1>3. /\ Cardinality(ns) \in Nat /\ Cardinality(against) \in Nat
      /\ Cardinality(ns) + Cardinality(against) <= L
  <2>1. ns \in SUBSET (1..L) /\ against \in SUBSET (1..L) /\ ns \cap against = {}
    BY <1>2
  <2> QED
    BY <2>1, CountsApart
<1>4. /\ Count(verdicts, "supported") = Cardinality(ns)
      /\ Count(verdicts, "contradicted") = Cardinality(against)
  BY <1>1, <1>2 DEF Count
<1>5. PICK some \in Nat, all \in Nat :
        /\ some = WeightOf(facts, ns) /\ all = WeightOf(facts, 1..L)
        /\ some <= all /\ L <= all /\ (some = 0 <=> \A k \in 1..L : k \notin ns)
  <2>1. Compared(facts, ns, L)
    BY <1>1, AlwaysCompared
  <2> QED
    BY <1>1, <2>1 DEF Compared, WeightOf
<1>6. PICK weighted, plain : weighted = WeightedRecall(facts, verdicts) /\ plain = Recall(verdicts)
  OBVIOUS
<1>7. /\ 0 <= weighted[1] /\ weighted[1] <= weighted[2] /\ weighted[2] > 0
      /\ weighted[1] = 0 <=> plain[1] = 0
  <2>1. CASE L = 0
    <3>1. verdicts = <<>>
      BY <1>1, <2>1
    <3>2. plain = <<1, 1>>
      BY <1>6, <3>1 DEF Recall
    <3>3. all = 0
      <4>1. WeightUpTo(facts, 1..L)[0] = 0
        BY <1>1, WeightsAre
      <4> QED
        BY <1>1, <1>5, <2>1, <4>1 DEF WeightOf
    <3>4. weighted = <<1, 1>>
      BY <1>1, <1>5, <1>6, <3>3 DEF WeightedRecall
    <3> QED
      BY <3>2, <3>4
  <2>2. CASE L # 0
    <3>1. verdicts # <<>> /\ all # 0
      BY <1>1, <1>5, <2>2
    <3>2. plain[1] = Cardinality(ns)
      BY <1>4, <1>6, <3>1 DEF Recall
    <3>3. weighted[1] = some /\ weighted[2] = all
      BY <1>1, <1>2, <1>5, <1>6, <3>1 DEF WeightedRecall
    <3>4. Cardinality(ns) = 0 <=> ns = {}
      <4>1. IsFiniteSet(1..L)
        BY FS_Interval
      <4>2. IsFiniteSet(ns)
        BY <1>2, <4>1, FS_Subset
      <4> QED
        BY <4>2, FS_EmptySet
    <3>5. ns = {} <=> \A k \in 1..L : k \notin ns
      BY <1>2
    <3>6. some = 0 <=> Cardinality(ns) = 0
      BY <1>5, <3>4, <3>5
    <3>7. 0 <= some /\ some <= all /\ all > 0
      BY <1>5, <3>1
    <3> QED
      BY <3>2, <3>3, <3>6, <3>7
  <2> QED
    BY <2>1, <2>2
<1> QED
  BY <1>1, <1>3, <1>4, <1>6, <1>7 DEF RatesInRange

\* Whatever facts a judge finds and whatever it answers about them, each has
\* its own verdict, the rates are rates and a percentile is one of the scores
\* at its rank (fact_recall.py, scripts/summary_fact_recall.py).
THEOREM RecallAlwaysHonest ==
  \A facts, replies : Judged(facts, replies) =>
    \A percent \in 0..100 : RecallIsHonest(facts, replies, percent)
<1> SUFFICES ASSUME NEW facts, NEW replies, Judged(facts, replies), NEW percent \in 0..100
             PROVE  RecallIsHonest(facts, replies, percent)
  OBVIOUS
<1>1. PICK L \in Nat : L = Len(facts) /\ DOMAIN facts = 1..L
  BY VerifyIs
<1>2. PICK values : values = [n \in DOMAIN facts |-> Weight(facts[n])]
  OBVIOUS
<1>3. \A n \in 1..L : values[n] \in Nat
  BY <1>1, <1>2, WeightIs
<1>4. values \in [1..L -> Nat]
  BY <1>1, <1>2, <1>3
<1>5. values \in Seq(Nat)
  BY <1>4
<1>6. PercentileIsNearestRank(values, percent)
  BY <1>5, PercentileIs
<1> QED
  BY <1>2, <1>6, VerdictsStayInBatch, RatesAlwaysInRange DEF RecallIsHonest

\* A judge gets facts, then it answers.
RecallTyped ==
  part = "recall" =>
    \/ input.chosen = FALSE /\ input.facts \in Seq(Int \cup {NoNumber})
    \/ input.chosen = TRUE /\ Judged(input.facts, input.replies) /\ input.percent \in 0..100

\* Whatever is judged has an answer for each batch.
LEMMA StepRecallTyped == RecallTyped /\ [MCNext]_everything => RecallTyped'
<1> SUFFICES ASSUME RecallTyped, [MCNext]_everything, part = "recall"
             PROVE  \/ input'.chosen = FALSE /\ input'.facts \in Seq(Int \cup {NoNumber})
                    \/ /\ input'.chosen = TRUE
                       /\ Judged(input'.facts, input'.replies)
                       /\ input'.percent \in 0..100
  BY PartStays DEF RecallTyped
<1>1. CASE UNCHANGED input
  BY <1>1 DEF RecallTyped
<1>2. CASE ~input.chosen /\ RecallNext
  <2>1. input.facts \in Seq(Int \cup {NoNumber}) /\ input.chosen = FALSE
    BY <1>2 DEF RecallTyped
  <2>2. ASSUME NEW weight \in {NoNumber, -1, 2, 5}, AddFact(weight)
        PROVE  input'.chosen = FALSE /\ input'.facts \in Seq(Int \cup {NoNumber})
    BY <2>1, <2>2 DEF AddFact
  <2>3. CASE \E weight \in {NoNumber, -1, 2, 5} : AddFact(weight)
    BY <2>2, <2>3
  <2>4. ASSUME ~\E weight \in {NoNumber, -1, 2, 5} : AddFact(weight)
        PROVE  /\ input'.chosen = TRUE
               /\ Judged(input'.facts, input'.replies)
               /\ input'.percent \in 0..100
    <3>1. PICK reply \in Replies, short \in SeqOf(Answers, 1), percent \in {0, 10, 50} :
            Judge([batch \in 1..Batches(input.facts) |-> IF batch = 1 THEN reply ELSE short], percent)
      BY <1>2, <2>4 DEF RecallNext
    <3>2. reply \in Seq(Answers) /\ short \in Seq(Answers)
      <4>1. PICK m \in 0..2 : reply \in [1..m -> Answers]
        BY <3>1 DEF Replies, SeqOf
      <4>2. PICK h \in 0..1 : short \in [1..h -> Answers]
        BY <3>1 DEF SeqOf
      <4> QED
        BY <4>1, <4>2
    <3>3. PICK replies : replies = [batch \in 1..Batches(input.facts) |-> IF batch = 1 THEN reply ELSE short]
      OBVIOUS
    <3>4. replies \in [1..Batches(input.facts) -> Seq(Answers)]
      BY <3>2, <3>3
    <3>5. /\ input'.chosen = TRUE /\ input'.facts = input.facts
          /\ input'.replies = replies /\ input'.percent = percent
      BY <3>1, <3>3 DEF Judge
    <3> QED
      BY <2>1, <3>1, <3>4, <3>5 DEF Judged
  <2> QED
    BY <2>3, <2>4
<1> QED
  BY <1>1, <1>2 DEF MCNext, InputNext, everything, parts

\* Whatever a judge has been given and has answered, what a recall experiment
\* reports can be believed.
THEOREM RecallAlwaysSound == MCSpec => []RecallIsSound
<1>1. MCInit => RecallTyped
  <2> SUFFICES ASSUME MCInit, part = "recall"
               PROVE  input.chosen = FALSE /\ input.facts \in Seq(Int \cup {NoNumber})
    BY DEF RecallTyped
  <2>1. input = NewFacts
    BY DEF MCInit
  <2> QED
    BY <2>1 DEF NewFacts
<1>2. RecallTyped => RecallIsSound
  BY RecallAlwaysHonest DEF RecallTyped, RecallIsSound, Chosen
<1> QED
  BY <1>1, <1>2, StepRecallTyped, PTL DEF MCSpec
=============================================================================
