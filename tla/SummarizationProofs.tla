------------------------ MODULE SummarizationProofs ------------------------
(* Proofs about Summarization, for every number of messages, summaries and *)
(* handlers and every set of faults.                                       *)
EXTENDS Summarization, FiniteSetTheorems, TLAPS

-----------------------------------------------------------------------------
(* Where a handler can go.                                                 *)

\* A handler that works on a summary.
HoldingPcs == {"locked", "build", "submit", "refuse", "handle", "write", "edit"}

HoldsSummary == \A t \in Tasks : task[t].pc \in HoldingPcs => task[t].sum \in Summaries

TypeInv == TypeOK /\ HoldsSummary

LEMMA IdleIsTask == Idle \in Task
BY DEF Idle, Task, Pcs

\* The handler states that Build, SubmitFailed and SubmitInline reach.
LEMMA SubmittingIsTask ==
  ASSUME NEW r \in Task, NEW S \in SUBSET Messages
  PROVE  [r EXCEPT !.pc = "submit", !.source = S] \in Task
BY DEF Task, Pcs

LEMMA RefusingIsTask ==
  ASSUME NEW r \in Task
  PROVE  [r EXCEPT !.pc = "refuse", !.source = {}] \in Task
BY DEF Task, Pcs

LEMMA AnsweredIsTask ==
  ASSUME NEW r \in Task, NEW ok \in BOOLEAN
  PROVE  [r EXCEPT !.pc = "handle", !.ok = ok] \in Task
BY DEF Task, Pcs

\* A handler's next state after its pump, and before one, is a handler state.
LEMMA PumpIsTask ==
  ASSUME TypeOK, NEW t \in Tasks
  PROVE  AfterPump(t) \in Task /\ ToPump(t) \in Task
BY DEF TypeOK, AfterPump, ToPump, Idle, Task, Pcs

\* Becoming r keeps the table of handlers well typed.
LEMMA BecomeType ==
  ASSUME TypeInv, NEW t \in Tasks, NEW r \in Task,
         r.pc \in HoldingPcs => r.sum \in Summaries, Become(t, r)
  PROVE  task' \in [Tasks -> Task] /\ HoldsSummary'
BY DEF TypeInv, TypeOK, HoldsSummary, Become

LEMMA ReleasedType ==
  ASSUME TypeOK, NEW S
  PROVE  Released(S) \in [Messages -> Summaries \cup {NoSummary}]
BY DEF TypeOK, Released

LEMMA PlannedType == Planned \subseteq SUBSET exists
BY DEF Planned

LEMMA InitTypeInv == Init => TypeInv
BY IdleIsTask DEF Init, TypeInv, TypeOK, HoldsSummary, HoldingPcs, Idle, Statuses

\* Every step keeps the columns, queues and handlers well typed.
LEMMA StepTypeInv == TypeInv /\ [Next]_vars => TypeInv'
<1> SUFFICES ASSUME TypeInv, [Next]_vars
             PROVE  TypeInv'
    OBVIOUS
<1> USE DEF chatVars, summaryVars, queueVars
<1>1. ASSUME NEW m \in Messages, NewMessage(m)
      PROVE  TypeInv'
  BY <1>1 DEF NewMessage, TypeInv, TypeOK, HoldsSummary
<1>2. ASSUME NEW m \in Messages, DeleteMessage(m)
      PROVE  TypeInv'
  BY <1>2 DEF DeleteMessage, TypeInv, TypeOK, HoldsSummary
<1>3. CASE DropScene
  BY <1>3 DEF DropScene, TypeInv, TypeOK, HoldsSummary
<1>4. ASSUME NEW t \in Tasks, NEW S \in SUBSET Pending, NEW next \in {"idle", "plan"},
             ExpireStale(t, S, next)
      PROVE  TypeInv'
  <2> DEFINE r == [Idle EXCEPT !.pc = "pump", !.next = next]
  <2>1. r \in Task /\ r.pc \notin HoldingPcs
    BY DEF Idle, Task, Pcs, HoldingPcs
  <2>2. task' \in [Tasks -> Task] /\ HoldsSummary'
    BY <1>4, <2>1, BecomeType DEF ExpireStale
  <2>3. status' \in [Summaries -> Statuses]
    BY <1>4 DEF ExpireStale, TypeInv, TypeOK, Statuses
  <2>4. summaryOf' \in [Messages -> Summaries \cup {NoSummary}]
    BY <1>4, ReleasedType DEF ExpireStale, TypeInv
  <2> QED
    BY <1>4, <2>2, <2>3, <2>4 DEF ExpireStale, TypeInv, TypeOK
<1>5. ASSUME NEW t \in Tasks, Poll(t)
      PROVE  TypeInv'
  BY <1>4, <1>5 DEF Poll
<1>6. ASSUME NEW t \in Tasks, Summarize(t)
      PROVE  TypeInv'
  <2>1. [Idle EXCEPT !.pc = "plan"] \in Task
    BY DEF Idle, Task, Pcs
  <2>2. [Idle EXCEPT !.pc = "plan"].pc \notin HoldingPcs
    BY DEF Idle, HoldingPcs
  <2>3. ASSUME Become(t, [Idle EXCEPT !.pc = "plan"])
        PROVE  task' \in [Tasks -> Task] /\ HoldsSummary'
    BY <2>1, <2>2, <2>3, BecomeType
  <2> QED
    BY <1>4, <1>6, <2>3 DEF Summarize, TypeInv, TypeOK
<1>7. ASSUME NEW t \in Tasks, PlanChosen(t)
      PROVE  TypeInv'
  <2>1. ASSUME NEW chosen \in SUBSET Planned,
               Become(t, [Idle EXCEPT !.pc = "claim", !.chapters = chosen])
        PROVE  task' \in [Tasks -> Task] /\ HoldsSummary'
    <3>1. chosen \in SUBSET SUBSET Messages
      BY PlannedType DEF TypeInv, TypeOK
    <3>2. [Idle EXCEPT !.pc = "claim", !.chapters = chosen] \in Task
      BY <3>1 DEF Idle, Task, Pcs
    <3>3. [Idle EXCEPT !.pc = "claim", !.chapters = chosen].pc \notin HoldingPcs
      BY DEF Idle, HoldingPcs
    <3> QED
      BY <2>1, <3>2, <3>3, BecomeType
  <2>2. ASSUME Become(t, Idle)
        PROVE  task' \in [Tasks -> Task] /\ HoldsSummary'
    BY <2>2, IdleIsTask, BecomeType DEF Idle, HoldingPcs
  <2> QED
    BY <1>7, <2>1, <2>2 DEF PlanChosen, TypeInv, TypeOK
<1>8. ASSUME NEW t \in Tasks, Claim(t)
      PROVE  TypeInv'
  <2>1. task' \in [Tasks -> Task] /\ HoldsSummary'
    BY <1>8, PumpIsTask, BecomeType DEF Claim, ToPump, Idle, HoldingPcs, TypeInv
  <2>2. task[t].chapters \in SUBSET SUBSET Messages
    BY DEF TypeInv, TypeOK, Task
  <2>3. PICK row \in [task[t].chapters -> WithStatus("absent")] :
          /\ status' = [s \in Summaries |->
                       IF \E c \in task[t].chapters : row[c] = s THEN "queued" ELSE status[s]]
          /\ covers' = [s \in Summaries |->
                       IF \E c \in task[t].chapters : row[c] = s
                       THEN CHOOSE c \in task[t].chapters : row[c] = s ELSE covers[s]]
          /\ summaryOf' = [m \in Messages |->
                       IF \E c \in task[t].chapters : m \in c
                       THEN row[CHOOSE c \in task[t].chapters : m \in c] ELSE summaryOf[m]]
    BY <1>8 DEF Claim
  <2>4. WithStatus("absent") \subseteq Summaries
    BY DEF WithStatus
  <2>5. status' \in [Summaries -> Statuses]
    BY <2>3 DEF TypeInv, TypeOK, Statuses
  <2>6. covers' \in [Summaries -> SUBSET Messages]
    BY <2>2, <2>3 DEF TypeInv, TypeOK
  <2>7. summaryOf' \in [Messages -> Summaries \cup {NoSummary}]
    BY <2>2, <2>3, <2>4 DEF TypeInv, TypeOK
  <2> QED
    BY <1>8, <2>1, <2>5, <2>6, <2>7 DEF Claim, TypeInv, TypeOK
<1>9. ASSUME NEW t \in Tasks, ClaimStale(t) \/ EditWrite(t) \/ Abort(t)
      PROVE  TypeInv'
  <2>1. task' \in [Tasks -> Task] /\ HoldsSummary'
    BY <1>9, IdleIsTask, BecomeType DEF ClaimStale, EditWrite, Abort, Idle, HoldingPcs
  <2>2. EditWrite(t) => task[t].sum \in Summaries
    BY DEF EditWrite, TypeInv, HoldsSummary, HoldingPcs
  <2> QED
    BY <1>9, <2>1, <2>2 DEF ClaimStale, EditWrite, Abort, TypeInv, TypeOK
<1>10. ASSUME NEW t \in Tasks, NEW s \in Summaries, EditCheck(t, s)
       PROVE  TypeInv'
  <2>1. [Idle EXCEPT !.pc = "edit", !.sum = s] \in Task
    BY DEF Idle, Task, Pcs
  <2>2. [Idle EXCEPT !.pc = "edit", !.sum = s].sum = s
    BY DEF Idle
  <2>3. task' \in [Tasks -> Task] /\ HoldsSummary'
    BY <1>10, <2>1, <2>2, BecomeType DEF EditCheck
  <2> QED
    BY <1>10, <2>3 DEF EditCheck, TypeInv, TypeOK
<1>11. ASSUME NEW t \in Tasks, DispatchSelect(t)
       PROVE  TypeInv'
  <2>1. AfterPump(t) \in Task /\ ToPump(t) \in Task
    BY PumpIsTask DEF TypeInv
  <2>2. AfterPump(t).pc \notin HoldingPcs
    BY DEF AfterPump, Idle, HoldingPcs
  <2>3. ASSUME NEW s \in Dispatchable,
               Become(t, [ToPump(t) EXCEPT !.pc = "locked", !.sum = s])
        PROVE  task' \in [Tasks -> Task] /\ HoldsSummary'
    <3>1. s \in Summaries
      BY DEF Dispatchable, Queued, WithStatus
    <3>2. [ToPump(t) EXCEPT !.pc = "locked", !.sum = s] \in Task
      BY <2>1, <3>1 DEF Task, Pcs
    <3>3. [ToPump(t) EXCEPT !.pc = "locked", !.sum = s].sum = s
      BY DEF ToPump, Idle
    <3> QED
      BY <2>3, <3>1, <3>2, <3>3, BecomeType
  <2>4. ASSUME Become(t, AfterPump(t))
        PROVE  task' \in [Tasks -> Task] /\ HoldsSummary'
    BY <2>1, <2>2, <2>4, BecomeType
  <2> QED
    BY <1>11, <2>3, <2>4 DEF DispatchSelect, TypeInv, TypeOK
<1>12. ASSUME NEW t \in Tasks, DispatchCommit(t)
       PROVE  TypeInv'
  <2>1. [task[t] EXCEPT !.pc = "build"] \in Task
    BY DEF TypeInv, TypeOK, Task, Pcs
  <2>2. task[t].sum \in Summaries
    BY <1>12 DEF DispatchCommit, TypeInv, HoldsSummary, HoldingPcs
  <2>3. task' \in [Tasks -> Task] /\ HoldsSummary'
    BY <1>12, <2>1, <2>2, BecomeType DEF DispatchCommit, TypeInv, TypeOK, Task
  <2> QED
    BY <1>12, <2>3 DEF DispatchCommit, TypeInv, TypeOK, Statuses
<1>13. ASSUME NEW t \in Tasks, Build(t)
       PROVE  TypeInv'
  <2> DEFINE source == {m \in exists : summaryOf[m] = task[t].sum}
  <2>1. [task[t] EXCEPT !.pc = "refuse"] \in Task
    BY DEF TypeInv, TypeOK, Task, Pcs
  <2>2. source \in SUBSET Messages
    BY DEF TypeInv, TypeOK
  <2>3. [task[t] EXCEPT !.pc = "submit", !.source = source] \in Task
    <3>1. task[t] \in Task
      BY DEF TypeInv, TypeOK
    <3> QED
      BY <2>2, <3>1, SubmittingIsTask
  <2>4. task[t].sum \in Summaries
    BY <1>13 DEF Build, TypeInv, HoldsSummary, HoldingPcs
  <2>5. task' \in [Tasks -> Task] /\ HoldsSummary'
    BY <1>13, <2>1, <2>3, <2>4, BecomeType DEF Build, TypeInv, TypeOK, Task
  <2> QED
    BY <1>13, <2>5 DEF Build, TypeInv, TypeOK
<1>14. ASSUME NEW t \in Tasks, SubmitPublished(t) \/ SubmitFailed(t)
       PROVE  TypeInv'
  <2>1. task[t].sum \in Summaries
    BY <1>14 DEF SubmitPublished, SubmitFailed, TypeInv, HoldsSummary, HoldingPcs
  <2>2. [sum |-> task[t].sum, source |-> task[t].source] \in Request
    BY <2>1 DEF TypeInv, TypeOK, Task, Request
  <2>3. [task[t] EXCEPT !.pc = "refuse", !.source = {}] \in Task
    <3>1. task[t] \in Task
      BY DEF TypeInv, TypeOK
    <3> QED
      BY <3>1, RefusingIsTask
  <2>4. AfterPump(t) \in Task /\ AfterPump(t).pc \notin HoldingPcs
    BY PumpIsTask DEF TypeInv, AfterPump, Idle, HoldingPcs
  <2>5. task' \in [Tasks -> Task] /\ HoldsSummary'
    BY <1>14, <2>1, <2>3, <2>4, BecomeType
    DEF SubmitPublished, SubmitFailed, TypeInv, TypeOK, Task
  <2> QED
    BY <1>14, <2>2, <2>5 DEF SubmitPublished, SubmitFailed, TypeInv, TypeOK
<1>15. ASSUME NEW t \in Tasks, SubmitInline(t)
       PROVE  TypeInv'
  <2>1. task[t].sum \in Summaries
    BY <1>15 DEF SubmitInline, TypeInv, HoldsSummary, HoldingPcs
  <2>2. \A ok \in BOOLEAN : [task[t] EXCEPT !.pc = "handle", !.ok = ok] \in Task
    <3>1. task[t] \in Task
      BY DEF TypeInv, TypeOK
    <3> QED
      BY <3>1, AnsweredIsTask
  <2>3. task' \in [Tasks -> Task] /\ HoldsSummary'
    BY <1>15, <2>1, <2>2, BecomeType DEF SubmitInline, TypeInv, TypeOK, Task
  <2> QED
    BY <1>15, <2>3 DEF SubmitInline, TypeInv, TypeOK
<1>16. ASSUME NEW t \in Tasks, RefuseDispatch(t) \/ Complete(t) \/ FailResult(t)
       PROVE  TypeInv'
  <2>1. task[t].sum \in Summaries /\ task[t].source \in SUBSET Messages
    BY <1>16 DEF RefuseDispatch, Complete, FailResult, TypeInv, TypeOK, Task,
                 HoldsSummary, HoldingPcs
  <2>2. ToPump(t) \in Task /\ ToPump(t).pc \notin HoldingPcs
    BY PumpIsTask DEF TypeInv, ToPump, Idle, HoldingPcs
  <2>3. task' \in [Tasks -> Task] /\ HoldsSummary'
    BY <1>16, <2>2, BecomeType DEF RefuseDispatch, Complete, FailResult
  <2>4. status' \in [Summaries -> Statuses]
    BY <1>16 DEF RefuseDispatch, Complete, FailResult, TypeInv, TypeOK, Statuses
  <2>5. summaryOf' \in [Messages -> Summaries \cup {NoSummary}]
    BY <1>16, ReleasedType DEF RefuseDispatch, Complete, FailResult, TypeInv, TypeOK
  <2>6. archived' \in SUBSET Messages /\ recap' \in [Summaries -> SUBSET Messages]
    BY <1>16, <2>1 DEF RefuseDispatch, Complete, FailResult, ArchivedBy, TypeInv, TypeOK
  <2> QED
    BY <1>16, <2>3, <2>4, <2>5, <2>6
    DEF RefuseDispatch, Complete, FailResult, TypeInv, TypeOK
<1>17. ASSUME NEW req \in requests, AgentAnswers(req)
       PROVE  TypeInv'
  <2>1. \A ok \in BOOLEAN : [sum |-> req.sum, source |-> req.source, ok |-> ok] \in Result
    BY DEF TypeInv, TypeOK, Request, Result
  <2> QED
    BY <1>17, <2>1 DEF AgentAnswers, TypeInv, TypeOK, HoldsSummary
<1>18. ASSUME NEW t \in Tasks, NEW res \in results, Receive(t, res)
       PROVE  TypeInv'
  <2> DEFINE r == [Idle EXCEPT !.pc = "handle", !.sum = res.sum, !.source = res.source,
                               !.ok = res.ok, !.unacked = {res}]
  <2>1. res \in Result
    BY DEF TypeInv, TypeOK
  <2>2. r \in Task /\ r.sum \in Summaries
    BY <2>1 DEF Idle, Task, Pcs, Result
  <2>3. task' \in [Tasks -> Task] /\ HoldsSummary'
    BY <1>18, <2>2, BecomeType DEF Receive
  <2> QED
    BY <1>18, <2>3 DEF Receive, TypeInv, TypeOK
<1>19. ASSUME NEW t \in Tasks, HandleResult(t)
       PROVE  TypeInv'
  <2>1. task[t].sum \in Summaries
    BY <1>19 DEF HandleResult, TypeInv, HoldsSummary, HoldingPcs
  <2>2. [task[t] EXCEPT !.pc = "write"] \in Task
    BY DEF TypeInv, TypeOK, Task, Pcs
  <2>3. AfterPump(t) \in Task /\ AfterPump(t).pc \notin HoldingPcs
    BY PumpIsTask DEF TypeInv, AfterPump, Idle, HoldingPcs
  <2>4. task' \in [Tasks -> Task] /\ HoldsSummary'
    BY <1>19, <2>1, <2>2, <2>3, BecomeType DEF HandleResult, TypeInv, TypeOK, Task
  <2> QED
    BY <1>19, <2>4 DEF HandleResult, TypeInv, TypeOK
<1>20. CASE Crash
  <2>1. UNION {task[t].unacked : t \in Tasks} \subseteq Result
    BY DEF TypeInv, TypeOK, Task
  <2>2. task' \in [Tasks -> Task] /\ HoldsSummary'
    BY <1>20, IdleIsTask DEF Crash, HoldsSummary, HoldingPcs, Idle
  <2> QED
    BY <1>20, <2>1, <2>2 DEF Crash, TypeInv, TypeOK
<1>21. CASE UNCHANGED vars
  BY <1>21 DEF vars, TypeInv, TypeOK, HoldsSummary
<1> QED
  BY <1>1, <1>2, <1>3, <1>5, <1>6, <1>7, <1>8, <1>9, <1>10, <1>11, <1>12, <1>13,
     <1>14, <1>15, <1>16, <1>17, <1>18, <1>19, <1>20, <1>21
  DEF Next, Handler

\* Every column, queue and handler of the summarization service always holds
\* what its declaration says, under every fault.
THEOREM TypeCorrect == Spec => []TypeOK
<1>1. Spec => []TypeInv
  BY InitTypeInv, StepTypeInv, PTL DEF Spec
<1>2. TypeInv => TypeOK
  BY DEF TypeInv
<1> QED
  BY <1>1, <1>2, PTL

-----------------------------------------------------------------------------
(* The claims: ClaimInv is inductive.                                      *)

\* What ClaimInv says about the rows of messages and chat_summaries.
RowInv == RowsAgree /\ ActiveKeepsChapter /\ NothingBeforeItIsWritten

\* Steps that write no row keep what is said about the rows.
LEMMA SameRows ==
  ASSUME RowInv, UNCHANGED <<unsent, exists, summaryOf, archived, status, covers>>
  PROVE  RowInv'
BY DEF RowInv, RowsAgree, ActiveKeepsChapter, NothingBeforeItIsWritten,
       WithStatus, Pending

\* Failing dispatched summaries and releasing what they hold keeps the rows
\* in agreement: nothing a summary under way holds is touched.
LEMMA FailedRows ==
  ASSUME TypeInv, RowInv, NEW S \in SUBSET Dispatched,
         status' = [s \in Summaries |-> IF s \in S THEN "failed" ELSE status[s]],
         summaryOf' = Released(S),
         UNCHANGED <<unsent, exists, archived, covers>>
  PROVE  RowInv'
<1> USE NoSummaryAssumption
<1>1. RowsAgree'
  BY DEF RowInv, RowsAgree, Released, TypeInv, TypeOK, Active, Terminal
<1>2. ActiveKeepsChapter'
  <2> SUFFICES ASSUME NEW s \in Summaries, status'[s] \in Active,
                      NEW m \in covers[s] \cap exists
               PROVE  summaryOf'[m] = s /\ m \notin archived
    BY DEF ActiveKeepsChapter, WithStatus, Pending, Active
  <2>1. s \notin S /\ status[s] \in Active
    BY DEF Active
  <2>2. summaryOf[m] = s /\ m \notin archived
    BY <2>1 DEF RowInv, ActiveKeepsChapter, WithStatus, Pending, Active
  <2> QED
    BY <2>1, <2>2 DEF Released, TypeInv, TypeOK
<1>3. NothingBeforeItIsWritten'
  BY DEF RowInv, NothingBeforeItIsWritten
<1> QED
  BY <1>1, <1>2, <1>3 DEF RowInv

\* A handler's step keeps the locks and what is in flight in order when it
\* leaves the rows other handlers have locked alone, undoes no dispatch and
\* brings only dispatched summaries into play.
LEMMA HandlerStep ==
  ASSUME TypeInv, LocksHeld, OnlyDispatched,
         NEW t \in Tasks, NEW r \in Task, Become(t, r),
         Dispatched \subseteq Dispatched',
         \A u \in Tasks \ {t} : task[u].pc = "locked" =>
            /\ status'[task[u].sum] = "queued"
            /\ ~(r.pc = "locked" /\ r.sum = task[u].sum),
         r.pc = "locked" => status'[r.sum] = "queued",
         r.pc \in {"build", "submit", "refuse", "handle", "write"} => r.sum \in Dispatched',
         \A res \in r.unacked : res.sum \in Dispatched',
         \A req \in requests' : req.sum \in Dispatched',
         \A res \in results' : res.sum \in Dispatched'
  PROVE  LocksHeld' /\ OnlyDispatched'
<1>1. task' = [task EXCEPT ![t] = r] /\ task \in [Tasks -> Task]
  BY DEF Become, TypeInv, TypeOK
<1>2. \A u \in Tasks : task'[u] = IF u = t THEN r ELSE task[u]
  BY <1>1
<1>3. LocksHeld'
  BY <1>2 DEF LocksHeld
<1>4. ASSUME NEW u \in Tasks
      PROVE  /\ task'[u].pc \in {"build", "submit", "refuse", "handle", "write"}
                   => task'[u].sum \in Dispatched'
             /\ \A res \in task'[u].unacked : res.sum \in Dispatched'
  <2>1. CASE u = t
    BY <1>2, <2>1
  <2>2. CASE u # t
    <3>1. task'[u] = task[u] /\ task[u] \in Task
      BY <1>1, <1>2, <2>2
    <3> QED
      BY <3>1 DEF OnlyDispatched
  <2> QED
    BY <2>1, <2>2
<1> QED
  BY <1>3, <1>4 DEF OnlyDispatched

\* The form of HandlerStep for steps that leave the statuses and the queues
\* alone.
LEMMA QuietStep ==
  ASSUME TypeInv, LocksHeld, OnlyDispatched,
         NEW t \in Tasks, NEW r \in Task, Become(t, r),
         UNCHANGED <<status, requests, results>>,
         r.pc # "locked",
         r.pc \in {"build", "submit", "refuse", "handle", "write"} => r.sum \in Dispatched,
         r.unacked \subseteq task[t].unacked
  PROVE  LocksHeld' /\ OnlyDispatched'
<1>1. Dispatched' = Dispatched
  BY DEF Dispatched
<1>2. \A u \in Tasks : task[u].pc = "locked" => status'[task[u].sum] = "queued"
  BY DEF LocksHeld
<1>3. \A res \in r.unacked : res.sum \in Dispatched
  BY DEF OnlyDispatched
<1>4. /\ \A req \in requests' : req.sum \in Dispatched
      /\ \A res \in results' : res.sum \in Dispatched
  BY DEF OnlyDispatched
<1> QED
  BY <1>1, <1>2, <1>3, <1>4, HandlerStep

LEMMA InitClaimInv == Init => ClaimInv
BY DEF Init, ClaimInv, RowsAgree, ActiveKeepsChapter, NothingBeforeItIsWritten, LocksHeld,
       OnlyDispatched, WithStatus, Pending, Idle

\* No action strands a claim, breaks a chapter under way, takes a lock that is
\* held, or sends a summary that was not dispatched.
LEMMA StepClaimInv == TypeInv /\ ClaimInv /\ [Next]_vars => ClaimInv'
<1> SUFFICES ASSUME TypeInv, ClaimInv, [Next]_vars
             PROVE  RowInv' /\ LocksHeld' /\ OnlyDispatched'
    BY DEF ClaimInv, RowInv
<1> USE NoSummaryAssumption DEF chatVars, summaryVars, queueVars
<1>0. RowInv /\ LocksHeld /\ OnlyDispatched
  BY DEF ClaimInv, RowInv
<1>1. ASSUME UNCHANGED <<status, requests, results, task>>
      PROVE  LocksHeld' /\ OnlyDispatched'
  BY <1>0, <1>1 DEF LocksHeld, OnlyDispatched, Dispatched
<1>2. ASSUME NEW m \in Messages, NewMessage(m)
      PROVE  RowInv' /\ LocksHeld' /\ OnlyDispatched'
  <2>1. RowInv'
    BY <1>0, <1>2 DEF NewMessage, RowInv, RowsAgree, ActiveKeepsChapter,
         NothingBeforeItIsWritten, WithStatus, Pending, TypeInv, TypeOK
  <2> QED
    BY <1>1, <1>2, <2>1 DEF NewMessage
<1>3. ASSUME NEW m \in Messages, DeleteMessage(m)
      PROVE  RowInv' /\ LocksHeld' /\ OnlyDispatched'
  <2>1. RowInv'
    BY <1>0, <1>3 DEF DeleteMessage, RowInv, RowsAgree, ActiveKeepsChapter,
         NothingBeforeItIsWritten, WithStatus, Pending, TypeInv, TypeOK
  <2> QED
    BY <1>1, <1>3, <2>1 DEF DeleteMessage
<1>4. CASE DropScene
  BY <1>0, <1>1, <1>4, SameRows DEF DropScene
<1>5. ASSUME NEW t \in Tasks, NEW S \in SUBSET Pending, NEW next \in {"idle", "plan"},
             ExpireStale(t, S, next)
      PROVE  RowInv' /\ LocksHeld' /\ OnlyDispatched'
  <2>1. S \in SUBSET Dispatched
    BY DEF Pending, WithStatus, Dispatched
  <2>2. RowInv'
    BY <1>0, <1>5, <2>1, FailedRows DEF ExpireStale
  <2> DEFINE r == [Idle EXCEPT !.pc = "pump", !.next = next]
  <2>3. r \in Task /\ r.pc = "pump" /\ r.unacked = {}
    BY DEF Idle, Task, Pcs
  <2>4. Dispatched \subseteq Dispatched'
    BY <1>5 DEF ExpireStale, Dispatched, Terminal
  <2>5. \A u \in Tasks \ {t} : task[u].pc = "locked" => status'[task[u].sum] = "queued"
    BY <1>0, <1>5 DEF ExpireStale, LocksHeld, Pending, WithStatus, TypeInv, HoldsSummary,
         HoldingPcs
  <2>6. /\ \A req \in requests' : req.sum \in Dispatched'
        /\ \A res \in results' : res.sum \in Dispatched'
    BY <1>0, <1>5, <2>4 DEF ExpireStale, OnlyDispatched
  <2>7. Become(t, r)
    BY <1>5 DEF ExpireStale
  <2> HIDE DEF r
  <2>8. LocksHeld' /\ OnlyDispatched'
    BY <1>0, <2>3, <2>4, <2>5, <2>6, <2>7, HandlerStep
  <2> QED
    BY <2>2, <2>8
<1>6. ASSUME NEW t \in Tasks, Poll(t)
      PROVE  RowInv' /\ LocksHeld' /\ OnlyDispatched'
  BY <1>5, <1>6 DEF Poll
<1>7. ASSUME NEW t \in Tasks, NEW r \in Task, Become(t, r),
             UNCHANGED <<unsent, exists, summaryOf, archived, status, covers, requests, results>>,
             r.pc # "locked",
             r.pc \in {"build", "submit", "refuse", "handle", "write"} => r.sum \in Dispatched,
             r.unacked \subseteq task[t].unacked
      PROVE  RowInv' /\ LocksHeld' /\ OnlyDispatched'
  BY <1>0, <1>7, SameRows, QuietStep
<1>8. ASSUME NEW t \in Tasks, Summarize(t)
      PROVE  RowInv' /\ LocksHeld' /\ OnlyDispatched'
  <2> DEFINE r == [Idle EXCEPT !.pc = "plan"]
  <2>1. r \in Task /\ r.pc = "plan" /\ r.unacked = {}
    BY DEF Idle, Task, Pcs
  <2> HIDE DEF r
  <2>2. CASE /\ Become(t, r)
             /\ UNCHANGED <<chatVars, summaryOf, archived, status, summaryVars, queueVars>>
    BY <1>7, <2>1, <2>2
  <2>3. CASE \E S \in SUBSET Pending : ExpireStale(t, S, "plan")
    BY <1>5, <2>3
  <2> QED
    BY <1>8, <2>2, <2>3 DEF Summarize, r
<1>9. ASSUME NEW t \in Tasks, PlanChosen(t)
      PROVE  RowInv' /\ LocksHeld' /\ OnlyDispatched'
  <2>1. CASE Become(t, Idle)
    <3>1. Idle \in Task /\ Idle.pc = "idle" /\ Idle.unacked = {}
      BY IdleIsTask DEF Idle
    <3> QED
      BY <1>7, <1>9, <2>1, <3>1 DEF PlanChosen
  <2>2. ASSUME NEW chosen \in SUBSET Planned,
               Become(t, [Idle EXCEPT !.pc = "claim", !.chapters = chosen])
        PROVE  RowInv' /\ LocksHeld' /\ OnlyDispatched'
    <3> DEFINE r == [Idle EXCEPT !.pc = "claim", !.chapters = chosen]
    <3>1. chosen \in SUBSET SUBSET Messages
      BY PlannedType DEF TypeInv, TypeOK
    <3>2. r \in Task /\ r.pc = "claim" /\ r.unacked = {}
      BY <3>1 DEF Idle, Task, Pcs
    <3>3. Become(t, r)
      BY <2>2
    <3> HIDE DEF r
    <3> QED
      BY <1>7, <1>9, <3>2, <3>3 DEF PlanChosen
  <2> QED
    BY <1>9, <2>1, <2>2 DEF PlanChosen
<1>10. ASSUME NEW t \in Tasks, ClaimStale(t) \/ EditWrite(t) \/ Abort(t)
       PROVE  RowInv' /\ LocksHeld' /\ OnlyDispatched'
  <2>1. Idle \in Task /\ Idle.pc = "idle" /\ Idle.unacked = {}
    BY IdleIsTask DEF Idle
  <2> QED
    BY <1>7, <1>10, <2>1 DEF ClaimStale, EditWrite, Abort
<1>11. ASSUME NEW t \in Tasks, NEW s \in Summaries, EditCheck(t, s)
       PROVE  RowInv' /\ LocksHeld' /\ OnlyDispatched'
  <2> DEFINE r == [Idle EXCEPT !.pc = "edit", !.sum = s]
  <2>1. r \in Task /\ r.pc = "edit" /\ r.unacked = {}
    BY DEF Idle, Task, Pcs
  <2>2. Become(t, r)
    BY <1>11 DEF EditCheck
  <2> HIDE DEF r
  <2> QED
    BY <1>7, <1>11, <2>1, <2>2 DEF EditCheck
<1>12. ASSUME NEW t \in Tasks
       PROVE  /\ AfterPump(t) \in Task /\ AfterPump(t).pc \in {"idle", "plan"}
              /\ AfterPump(t).unacked = {}
              /\ ToPump(t) \in Task /\ ToPump(t).pc = "pump"
              /\ ToPump(t).unacked = task[t].unacked
  BY PumpIsTask DEF TypeInv, AfterPump, ToPump, Idle
<1>13. ASSUME NEW t \in Tasks, DispatchSelect(t)
       PROVE  RowInv' /\ LocksHeld' /\ OnlyDispatched'
  <2>1. CASE Become(t, AfterPump(t))
    BY <1>7, <1>12, <1>13, <2>1 DEF DispatchSelect
  <2>2. ASSUME NEW s \in Dispatchable,
               Become(t, [ToPump(t) EXCEPT !.pc = "locked", !.sum = s])
        PROVE  RowInv' /\ LocksHeld' /\ OnlyDispatched'
    <3> DEFINE r == [ToPump(t) EXCEPT !.pc = "locked", !.sum = s]
    <3>1. s \in Summaries /\ s \notin Locked /\ status[s] = "queued"
      BY DEF Dispatchable, Queued, WithStatus
    <3>2. r \in Task
      BY <1>12, <3>1 DEF Task, Pcs
    <3>3. r.pc = "locked" /\ r.sum = s /\ r.unacked = task[t].unacked
      BY <1>12, <3>2 DEF ToPump, Idle
    <3>4. Become(t, r)
      BY <2>2
    <3>5. UNCHANGED <<unsent, exists, summaryOf, archived, status, covers, requests, results>>
      BY <1>13 DEF DispatchSelect
    <3>6. Dispatched' = Dispatched
      BY <3>5 DEF Dispatched
    <3>7. \A u \in Tasks \ {t} : task[u].pc = "locked" =>
            status'[task[u].sum] = "queued" /\ task[u].sum # s
      BY <1>0, <3>1, <3>5 DEF LocksHeld, Locked
    <3>8. /\ \A res \in r.unacked : res.sum \in Dispatched'
          /\ \A req \in requests' : req.sum \in Dispatched'
          /\ \A res \in results' : res.sum \in Dispatched'
      BY <1>0, <3>3, <3>5, <3>6 DEF OnlyDispatched
    <3> HIDE DEF r
    <3>9. LocksHeld' /\ OnlyDispatched'
      BY <1>0, <3>1, <3>2, <3>3, <3>4, <3>5, <3>6, <3>7, <3>8, HandlerStep
    <3> QED
      BY <1>0, <3>5, <3>9, SameRows
  <2> QED
    BY <1>13, <2>1, <2>2 DEF DispatchSelect
<1>14. ASSUME NEW t \in Tasks, DispatchCommit(t)
       PROVE  RowInv' /\ LocksHeld' /\ OnlyDispatched'
  <2> DEFINE s == task[t].sum
             r == [task[t] EXCEPT !.pc = "build"]
  <2>1. s \in Summaries /\ status[s] = "queued" /\ task[t] \in Task
    BY <1>0, <1>14 DEF DispatchCommit, LocksHeld, TypeInv, TypeOK, HoldsSummary, HoldingPcs
  <2>2. r \in Task /\ r.pc = "build" /\ r.sum = s /\ r.unacked = task[t].unacked
    BY <2>1 DEF Task, Pcs
  <2>3. Become(t, r) /\ UNCHANGED <<unsent, exists, summaryOf, archived, covers, requests, results>>
    BY <1>14 DEF DispatchCommit
  <2>4. status' = [status EXCEPT ![s] = "pending"] /\ status \in [Summaries -> Statuses]
    BY <1>14 DEF DispatchCommit, TypeInv, TypeOK
  <2>5. RowInv'
    BY <1>0, <2>1, <2>3, <2>4 DEF RowInv, RowsAgree, ActiveKeepsChapter,
         NothingBeforeItIsWritten, WithStatus, Pending, Active, Terminal, TypeInv, TypeOK
  <2>6. Dispatched \subseteq Dispatched' /\ s \in Dispatched'
    BY <2>1, <2>4 DEF Dispatched
  <2>7. \A u \in Tasks \ {t} : task[u].pc = "locked" => status'[task[u].sum] = "queued"
    BY <1>0, <1>14, <2>1, <2>4 DEF DispatchCommit, LocksHeld, TypeInv, HoldsSummary, HoldingPcs
  <2>8. /\ \A res \in r.unacked : res.sum \in Dispatched'
        /\ \A req \in requests' : req.sum \in Dispatched'
        /\ \A res \in results' : res.sum \in Dispatched'
    BY <1>0, <2>2, <2>3, <2>6 DEF OnlyDispatched
  <2> HIDE DEF r, s
  <2>9. LocksHeld' /\ OnlyDispatched'
    BY <1>0, <2>2, <2>3, <2>6, <2>7, <2>8, HandlerStep
  <2> QED
    BY <2>5, <2>9
<1>15. ASSUME NEW t \in Tasks
       PROVE  /\ task[t] \in Task
              /\ task[t].pc \in {"build", "submit", "refuse", "handle", "write"}
                   => task[t].sum \in Dispatched
  BY <1>0 DEF TypeInv, TypeOK, OnlyDispatched
<1>16. ASSUME NEW t \in Tasks, Build(t)
       PROVE  RowInv' /\ LocksHeld' /\ OnlyDispatched'
  <2> DEFINE source == {m \in exists : summaryOf[m] = task[t].sum}
  <2>1. task[t].sum \in Dispatched
    BY <1>15, <1>16 DEF Build
  <2>2. source \in SUBSET Messages
    BY DEF TypeInv, TypeOK
  <2> HIDE DEF source
  <2>3. CASE Become(t, [task[t] EXCEPT !.pc = "submit", !.source = source])
    <3> DEFINE r == [task[t] EXCEPT !.pc = "submit", !.source = source]
    <3>1. r \in Task
      BY <1>15, <2>2, SubmittingIsTask
    <3>2. r.pc = "submit" /\ r.sum = task[t].sum /\ r.unacked = task[t].unacked
      BY <1>15 DEF Task
    <3>3. Become(t, r)
      BY <2>3
    <3> HIDE DEF r
    <3> QED
      BY <1>7, <1>16, <2>1, <3>1, <3>2, <3>3 DEF Build
  <2>4. CASE Become(t, [task[t] EXCEPT !.pc = "refuse"])
    <3> DEFINE r == [task[t] EXCEPT !.pc = "refuse"]
    <3>1. r \in Task /\ r.pc = "refuse" /\ r.sum = task[t].sum /\ r.unacked = task[t].unacked
      BY <1>15 DEF Task, Pcs
    <3>2. Become(t, r)
      BY <2>4
    <3> HIDE DEF r
    <3> QED
      BY <1>7, <1>16, <2>1, <3>1, <3>2 DEF Build
  <2> QED
    BY <1>16, <2>3, <2>4 DEF Build, source
<1>17. ASSUME NEW t \in Tasks, SubmitPublished(t) \/ SubmitFailed(t)
       PROVE  RowInv' /\ LocksHeld' /\ OnlyDispatched'
  <2>1. task[t].sum \in Dispatched
    BY <1>15, <1>17 DEF SubmitPublished, SubmitFailed
  <2>2. UNCHANGED <<unsent, exists, summaryOf, archived, status, covers, results>>
    BY <1>17 DEF SubmitPublished, SubmitFailed
  <2>3. Dispatched' = Dispatched
    BY <2>2 DEF Dispatched
  <2>4. \A req \in requests' : req.sum \in Dispatched'
    BY <1>0, <1>17, <2>1, <2>3 DEF SubmitPublished, SubmitFailed, OnlyDispatched
  <2>5. ASSUME NEW r \in Task, Become(t, r), r.pc # "locked",
               r.pc \in {"build", "submit", "refuse", "handle", "write"}
                 => r.sum \in Dispatched,
               r.unacked \subseteq task[t].unacked
        PROVE  LocksHeld' /\ OnlyDispatched'
    <3>1. \A u \in Tasks : task[u].pc = "locked" => status'[task[u].sum] = "queued"
      BY <1>0, <2>2 DEF LocksHeld
    <3>2. /\ \A res \in r.unacked : res.sum \in Dispatched'
          /\ \A res \in results' : res.sum \in Dispatched'
      BY <1>0, <2>2, <2>3, <2>5 DEF OnlyDispatched
    <3> QED
      BY <1>0, <2>3, <2>4, <2>5, <3>1, <3>2, HandlerStep
  <2>6. CASE Become(t, AfterPump(t))
    BY <1>12, <2>5, <2>6, <1>0, <2>2, SameRows
  <2>7. CASE Become(t, [task[t] EXCEPT !.pc = "refuse", !.source = {}])
    <3> DEFINE r == [task[t] EXCEPT !.pc = "refuse", !.source = {}]
    <3>1. r \in Task
      BY <1>15, RefusingIsTask
    <3>2. r.pc = "refuse" /\ r.sum = task[t].sum /\ r.unacked = task[t].unacked
      BY <1>15 DEF Task
    <3>3. Become(t, r)
      BY <2>7
    <3> HIDE DEF r
    <3> QED
      BY <1>0, <2>1, <2>2, <2>5, <3>1, <3>2, <3>3, SameRows
  <2> QED
    BY <1>17, <2>6, <2>7 DEF SubmitPublished, SubmitFailed
<1>18. ASSUME NEW t \in Tasks, SubmitInline(t)
       PROVE  RowInv' /\ LocksHeld' /\ OnlyDispatched'
  <2>1. PICK ok \in BOOLEAN : Become(t, [task[t] EXCEPT !.pc = "handle", !.ok = ok])
    BY <1>18 DEF SubmitInline
  <2> DEFINE r == [task[t] EXCEPT !.pc = "handle", !.ok = ok]
  <2>2. r \in Task
    BY <1>15, AnsweredIsTask
  <2>3. r.pc = "handle" /\ r.sum = task[t].sum /\ r.unacked = task[t].unacked
    BY <1>15 DEF Task
  <2>4. Become(t, r) /\ task[t].sum \in Dispatched
    BY <1>15, <1>18, <2>1 DEF SubmitInline
  <2> HIDE DEF r
  <2> QED
    BY <1>7, <1>18, <2>2, <2>3, <2>4 DEF SubmitInline
<1>19. ASSUME NEW t \in Tasks, HandleResult(t)
       PROVE  RowInv' /\ LocksHeld' /\ OnlyDispatched'
  <2> DEFINE r == [task[t] EXCEPT !.pc = "write"]
  <2>1. r \in Task /\ r.pc = "write" /\ r.sum = task[t].sum /\ r.unacked = task[t].unacked
    BY <1>15 DEF Task, Pcs
  <2>2. task[t].sum \in Dispatched
    BY <1>15, <1>19 DEF HandleResult
  <2>3. Become(t, r) \/ Become(t, AfterPump(t))
    BY <1>19 DEF HandleResult
  <2> HIDE DEF r
  <2> QED
    BY <1>7, <1>12, <1>19, <2>1, <2>2, <2>3 DEF HandleResult
<1>20. ASSUME NEW t \in Tasks, Become(t, ToPump(t)), task[t].pc # "locked",
              UNCHANGED queueVars, Dispatched \subseteq Dispatched',
              \A s \in Summaries : status[s] = "queued" => status'[s] = "queued"
       PROVE  LocksHeld' /\ OnlyDispatched'
  <2>1. \A u \in Tasks : task[u].pc = "locked" => status'[task[u].sum] = "queued"
    BY <1>0, <1>20 DEF LocksHeld, TypeInv, HoldsSummary, HoldingPcs
  <2>2. /\ \A res \in ToPump(t).unacked : res.sum \in Dispatched'
        /\ \A req \in requests' : req.sum \in Dispatched'
        /\ \A res \in results' : res.sum \in Dispatched'
    BY <1>0, <1>12, <1>20 DEF OnlyDispatched
  <2> QED
    BY <1>0, <1>12, <1>20, <2>1, <2>2, HandlerStep
<1>21. ASSUME NEW t \in Tasks, RefuseDispatch(t) \/ FailResult(t)
       PROVE  RowInv' /\ LocksHeld' /\ OnlyDispatched'
  <2> DEFINE S == {task[t].sum}
  <2>1. S \in SUBSET Dispatched /\ S \subseteq Summaries
    BY <1>15, <1>21 DEF RefuseDispatch, FailResult, Dispatched
  <2>2. status' = [s \in Summaries |-> IF s \in S THEN "failed" ELSE status[s]]
    BY <1>21 DEF RefuseDispatch, FailResult, TypeInv, TypeOK
  <2>3. summaryOf' = Released(S) /\ UNCHANGED <<unsent, exists, archived, covers>>
    BY <1>21 DEF RefuseDispatch, FailResult
  <2> HIDE DEF S
  <2>4. RowInv'
    BY <1>0, <2>1, <2>2, <2>3, FailedRows
  <2>5. Dispatched \subseteq Dispatched'
    BY <2>2 DEF Dispatched, Terminal
  <2>6. \A s \in Summaries : status[s] = "queued" => status'[s] = "queued"
    BY <2>1, <2>2 DEF Dispatched, Terminal
  <2> QED
    BY <1>20, <1>21, <2>4, <2>5, <2>6 DEF RefuseDispatch, FailResult
<1>22. ASSUME NEW t \in Tasks, Complete(t)
       PROVE  RowInv' /\ LocksHeld' /\ OnlyDispatched'
  <2> DEFINE s == task[t].sum
  <2>1. s \in Summaries /\ status[s] \in {"pending"} \cup Terminal
    BY <1>15, <1>22 DEF Complete, Dispatched
  <2>2. status' = [status EXCEPT ![s] = "completed"] /\ status \in [Summaries -> Statuses]
    BY <1>22 DEF Complete, TypeInv, TypeOK
  <2>3. archived' = ArchivedBy(s) /\ UNCHANGED <<unsent, exists, summaryOf, covers>>
    BY <1>22 DEF Complete
  <2> HIDE DEF s
  <2>4. RowsAgree'
    BY <1>0, <2>1, <2>2, <2>3 DEF RowInv, RowsAgree, ArchivedBy, Active, Terminal, TypeInv, TypeOK
  <2>5. ActiveKeepsChapter'
    BY <1>0, <2>1, <2>2, <2>3 DEF RowInv, ActiveKeepsChapter, ArchivedBy, WithStatus, Pending,
         TypeInv, TypeOK
  <2>6. NothingBeforeItIsWritten'
    BY <1>0, <2>3 DEF RowInv, NothingBeforeItIsWritten
  <2>7. Dispatched \subseteq Dispatched'
    BY <2>2 DEF Dispatched, Terminal
  <2>8. \A r \in Summaries : status[r] = "queued" => status'[r] = "queued"
    BY <2>1, <2>2 DEF Terminal
  <2>9. LocksHeld' /\ OnlyDispatched'
    BY <1>20, <1>22, <2>7, <2>8 DEF Complete
  <2> QED
    BY <2>4, <2>5, <2>6, <2>9 DEF RowInv
<1>23. ASSUME NEW req \in requests, AgentAnswers(req)
       PROVE  RowInv' /\ LocksHeld' /\ OnlyDispatched'
  <2>1. RowInv'
    BY <1>0, <1>23, SameRows DEF AgentAnswers
  <2>2. Dispatched' = Dispatched /\ LocksHeld'
    BY <1>0, <1>23 DEF AgentAnswers, Dispatched, LocksHeld
  <2>3. OnlyDispatched'
    BY <1>0, <1>23, <2>2 DEF AgentAnswers, OnlyDispatched
  <2> QED
    BY <2>1, <2>2, <2>3
<1>24. ASSUME NEW t \in Tasks, NEW res \in results, Receive(t, res)
       PROVE  RowInv' /\ LocksHeld' /\ OnlyDispatched'
  <2> DEFINE r == [Idle EXCEPT !.pc = "handle", !.sum = res.sum, !.source = res.source,
                               !.ok = res.ok, !.unacked = {res}]
  <2>1. res \in Result
    BY DEF TypeInv, TypeOK
  <2>2. r \in Task /\ r.pc = "handle" /\ r.sum = res.sum /\ r.unacked = {res}
    BY <2>1 DEF Idle, Task, Pcs, Result
  <2>3. Become(t, r)
    BY <1>24 DEF Receive
  <2>4. UNCHANGED <<unsent, exists, summaryOf, archived, status, covers, requests>>
    BY <1>24 DEF Receive
  <2>5. Dispatched' = Dispatched
    BY <2>4 DEF Dispatched
  <2>6. \A u \in Tasks : task[u].pc = "locked" => status'[task[u].sum] = "queued"
    BY <1>0, <2>4 DEF LocksHeld
  <2>7. /\ r.sum \in Dispatched'
        /\ \A a \in r.unacked : a.sum \in Dispatched'
        /\ \A req \in requests' : req.sum \in Dispatched'
        /\ \A a \in results' : a.sum \in Dispatched'
    BY <1>0, <1>24, <2>2, <2>4, <2>5 DEF Receive, OnlyDispatched
  <2> HIDE DEF r
  <2>8. LocksHeld' /\ OnlyDispatched'
    BY <1>0, <2>2, <2>3, <2>5, <2>6, <2>7, HandlerStep
  <2> QED
    BY <1>0, <2>4, <2>8, SameRows
<1>25. CASE Crash
  <2>1. RowInv'
    BY <1>0, <1>25, SameRows DEF Crash
  <2>2. \A t \in Tasks : task'[t] = Idle
    BY <1>25 DEF Crash
  <2>3. Dispatched' = Dispatched /\ requests' = requests
    BY <1>25 DEF Crash, Dispatched
  <2>4. \A res \in results' : res.sum \in Dispatched
    BY <1>0, <1>25 DEF Crash, OnlyDispatched
  <2>5. LocksHeld'
    BY <2>2 DEF LocksHeld, Idle
  <2>6. OnlyDispatched'
    BY <1>0, <2>2, <2>3, <2>4 DEF OnlyDispatched, Idle
  <2> QED
    BY <2>1, <2>5, <2>6
<1>26. CASE UNCHANGED vars
  BY <1>0, <1>1, <1>26, SameRows DEF vars
<1>27. ASSUME NEW t \in Tasks, Claim(t)
       PROVE  RowInv' /\ LocksHeld' /\ OnlyDispatched'
  <2> DEFINE C == task[t].chapters
  <2>1. PICK row \in [C -> WithStatus("absent")] :
          /\ \A c, d \in C : c # d => row[c] # row[d]
          /\ status' = [s \in Summaries |->
                       IF \E c \in C : row[c] = s THEN "queued" ELSE status[s]]
          /\ covers' = [s \in Summaries |->
                       IF \E c \in C : row[c] = s
                       THEN CHOOSE c \in C : row[c] = s ELSE covers[s]]
          /\ summaryOf' = [m \in Messages |->
                       IF \E c \in C : m \in c
                       THEN row[CHOOSE c \in C : m \in c] ELSE summaryOf[m]]
    BY <1>27 DEF Claim
  <2>2. /\ \A c \in C : c \subseteq exists /\ \A m \in c : Free(m)
        /\ \A c, d \in C : c # d => c \cap d = {}
    BY <1>27 DEF Claim, Claimable
  <2>3. UNCHANGED <<unsent, exists, archived, requests, results>> /\ Become(t, ToPump(t))
    BY <1>27 DEF Claim
  <2> HIDE DEF C
  <2>4. \A c \in C : row[c] \in Summaries /\ status[row[c]] = "absent"
    BY <2>1 DEF WithStatus
  <2>5. ASSUME NEW c \in C
        PROVE  status'[row[c]] = "queued" /\ covers'[row[c]] = c
    <3>1. (CHOOSE d \in C : row[d] = row[c]) = c
      BY <2>1
    <3> QED
      BY <2>1, <2>4, <3>1
  <2>6. ASSUME NEW c \in C, NEW m \in c
        PROVE  m \in Messages /\ summaryOf'[m] = row[c]
    <3>1. (CHOOSE d \in C : m \in d) = c
      BY <2>2
    <3> QED
      BY <2>1, <2>2, <3>1 DEF TypeInv, TypeOK
  <2>7. \A s \in Summaries : (\A c \in C : row[c] # s) =>
          status'[s] = status[s] /\ covers'[s] = covers[s]
    BY <2>1
  <2>8. \A m \in Messages : (\A c \in C : m \notin c) => summaryOf'[m] = summaryOf[m]
    BY <2>1
  <2>9. RowsAgree'
    <3>1. ASSUME NEW m \in Messages, summaryOf'[m] # NoSummary
          PROVE  /\ m \in exists
                 /\ m \in covers'[summaryOf'[m]]
                 /\ status'[summaryOf'[m]] \in IF m \in archived THEN Terminal ELSE Active
      <4>1. CASE \E c \in C : m \in c
        BY <2>2, <2>5, <2>6, <4>1 DEF Free, Active
      <4>2. CASE \A c \in C : m \notin c
        <5>1. /\ summaryOf'[m] = summaryOf[m]
              /\ m \in exists
              /\ m \in covers[summaryOf[m]]
              /\ status[summaryOf[m]] \in IF m \in archived THEN Terminal ELSE Active
          BY <1>0, <2>8, <3>1, <4>2 DEF RowInv, RowsAgree
        <5>2. summaryOf[m] \in Summaries
          BY <3>1, <5>1 DEF TypeInv, TypeOK
        <5>3. \A c \in C : row[c] # summaryOf[m]
          BY <2>4, <5>1 DEF Active, Terminal
        <5> QED
          BY <2>7, <5>1, <5>2, <5>3
      <4> QED
        BY <4>1, <4>2
    <3>2. \A m \in archived : summaryOf'[m] # NoSummary
      BY <1>0, <2>2, <2>8 DEF RowInv, RowsAgree, Free, TypeInv, TypeOK
    <3> QED
      BY <1>0, <2>3, <3>1, <3>2 DEF RowInv, RowsAgree
  <2>10. ActiveKeepsChapter'
    <3> SUFFICES ASSUME NEW s \in Summaries, status'[s] \in Active,
                        NEW m \in covers'[s] \cap exists
                 PROVE  summaryOf'[m] = s /\ m \notin archived
      BY <2>3 DEF ActiveKeepsChapter, WithStatus, Pending, Active
    <3>1. CASE \E c \in C : row[c] = s
      BY <2>2, <2>5, <2>6, <3>1 DEF Free
    <3>2. CASE \A c \in C : row[c] # s
      <4>1. summaryOf[m] = s /\ m \notin archived
        BY <1>0, <2>7, <3>2 DEF RowInv, ActiveKeepsChapter, WithStatus, Pending, Active
      <4>2. \A c \in C : m \notin c
        BY <2>2, <4>1, NoSummaryAssumption DEF Free
      <4> QED
        BY <2>8, <4>1, <4>2 DEF TypeInv, TypeOK
    <3> QED
      BY <3>1, <3>2
  <2>11. NothingBeforeItIsWritten'
    BY <1>0, <2>2, <2>3, <2>5, <2>7 DEF RowInv, NothingBeforeItIsWritten
  <2>12. \A s \in Summaries : status[s] # "absent" => status'[s] = status[s]
    BY <2>4, <2>7
  <2>13. Dispatched \subseteq Dispatched'
    BY <2>12 DEF Dispatched, Terminal
  <2>14. LocksHeld' /\ OnlyDispatched'
    BY <1>20, <1>27, <2>3, <2>12, <2>13 DEF Claim
  <2> QED
    BY <2>9, <2>10, <2>11, <2>14 DEF RowInv
<1> QED
  BY <1>2, <1>3, <1>4, <1>6, <1>8, <1>9, <1>10, <1>11, <1>13, <1>14, <1>16, <1>17,
     <1>18, <1>19, <1>21, <1>22, <1>23, <1>24, <1>25, <1>26, <1>27
  DEF Next, Handler

\* The claims of the messages, the row locks and everything in flight always
\* fit together (claim_messages, dispatch_next_queued, release_messages,
\* archive_messages), whatever the environment does.
THEOREM ClaimsCorrect == Spec => []ClaimInv
<1>1. Init => TypeInv /\ ClaimInv
  BY InitTypeInv, InitClaimInv
<1>2. TypeInv /\ ClaimInv /\ [Next]_vars => (TypeInv /\ ClaimInv)'
  BY StepTypeInv, StepClaimInv
<1> QED
  BY <1>1, <1>2, PTL DEF Spec

\* No live message is left claimed by a summary that is over: it can always
\* be summarised again, or is being summarised.
THEOREM NoStrandedClaim == Spec => []ClaimsAreActive
<1>1. TypeInv /\ ClaimInv => ClaimsAreActive
  BY DEF TypeInv, TypeOK, ClaimInv, RowsAgree, ClaimsAreActive
<1>2. Spec => []TypeInv
  BY InitTypeInv, StepTypeInv, PTL DEF Spec
<1> QED
  BY <1>1, <1>2, ClaimsCorrect, PTL

\* A summary under way holds every message it was planned from until it is
\* over: no other summary claims, releases or archives one of them.
THEOREM ChapterHeld == Spec => []ActiveKeepsChapter
<1>1. ClaimInv => ActiveKeepsChapter
  BY DEF ClaimInv
<1> QED
  BY <1>1, ClaimsCorrect, PTL

\* An archived message names the finished summary that archived it and that
\* was planned from it.
THEOREM ArchivesNamed == Spec => []ArchivedByItsSummary
<1>1. TypeInv /\ ClaimInv => ArchivedByItsSummary
  BY DEF TypeInv, TypeOK, ClaimInv, RowsAgree, ArchivedByItsSummary
<1>2. Spec => []TypeInv
  BY InitTypeInv, StepTypeInv, PTL DEF Spec
<1> QED
  BY <1>1, <1>2, ClaimsCorrect, PTL

-----------------------------------------------------------------------------
(* Who carries a summary: FlightInv is inductive.                          *)

\* The behaviour's faults are chosen once.
LEMMA FaultsStay == [Next]_vars => faults' = faults
BY DEF Next, vars, Handler, chatVars, NewMessage, DeleteMessage, DropScene, Poll, Summarize,
       ExpireStale, PlanChosen, Claim, ClaimStale, EditCheck, EditWrite, DispatchSelect,
       DispatchCommit, Build, SubmitPublished, SubmitFailed, SubmitInline, RefuseDispatch,
       AgentAnswers, Receive, HandleResult, Complete, FailResult, Abort, Crash

\* A handler state that decides about nothing and carries no more than t did.
Rests(t, r) ==
  /\ r \in Task
  /\ r.pc \notin {"build", "submit", "refuse", "handle", "write", "edit"}
  /\ r.unacked \subseteq task[t].unacked

\* The steps after which a handler has nothing left to decide.
LEMMA IdleRests == ASSUME TypeInv, NEW t \in Tasks PROVE Rests(t, Idle)
BY IdleIsTask DEF Rests, Idle

LEMMA PumpRests ==
  ASSUME TypeInv, NEW t \in Tasks
  PROVE  Rests(t, ToPump(t)) /\ Rests(t, AfterPump(t))
<1>1. ToPump(t).pc = "pump" /\ ToPump(t).unacked = task[t].unacked
  BY DEF ToPump, Idle
<1>2. AfterPump(t).pc \in {"idle", "plan"} /\ AfterPump(t).unacked = {}
  BY DEF AfterPump, Idle
<1> QED
  BY <1>1, <1>2, PumpIsTask DEF Rests, TypeInv

LEMMA ExpiryRests ==
  ASSUME TypeInv, NEW t \in Tasks, NEW S, NEW next \in {"idle", "plan"}, ExpireStale(t, S, next)
  PROVE  \E r : Rests(t, r) /\ Become(t, r)
<1> DEFINE r == [Idle EXCEPT !.pc = "pump", !.next = next]
<1>1. r \in Task /\ r.pc = "pump" /\ r.unacked = {}
  BY DEF Idle, Task, Pcs
<1>2. Become(t, r)
  BY DEF ExpireStale
<1> HIDE DEF r
<1> QED
  BY <1>1, <1>2 DEF Rests

LEMMA PlanRests ==
  ASSUME TypeInv, NEW t \in Tasks, PlanChosen(t)
  PROVE  \E r : Rests(t, r) /\ Become(t, r)
<1>1. ASSUME NEW chosen \in SUBSET Planned,
             Become(t, [Idle EXCEPT !.pc = "claim", !.chapters = chosen])
      PROVE  \E r : Rests(t, r) /\ Become(t, r)
  <2> DEFINE r == [Idle EXCEPT !.pc = "claim", !.chapters = chosen]
  <2>1. chosen \in SUBSET SUBSET Messages
    BY PlannedType DEF TypeInv, TypeOK
  <2>2. r \in Task /\ r.pc = "claim" /\ r.unacked = {}
    BY <2>1 DEF Idle, Task, Pcs
  <2> HIDE DEF r
  <2>3. Become(t, r)
    BY <1>1 DEF r
  <2> QED
    BY <2>2, <2>3 DEF Rests
<1> QED
  BY <1>1, IdleRests DEF PlanChosen

LEMMA SelectRests ==
  ASSUME TypeInv, NEW t \in Tasks, DispatchSelect(t)
  PROVE  \E r : Rests(t, r) /\ Become(t, r)
<1>1. ASSUME NEW s \in Dispatchable,
             Become(t, [ToPump(t) EXCEPT !.pc = "locked", !.sum = s])
      PROVE  \E r : Rests(t, r) /\ Become(t, r)
  <2> DEFINE r == [ToPump(t) EXCEPT !.pc = "locked", !.sum = s]
  <2>1. s \in Summaries
    BY DEF Dispatchable, Queued, WithStatus
  <2>2. ToPump(t) \in Task /\ ToPump(t).unacked = task[t].unacked
    BY PumpIsTask DEF TypeInv, ToPump, Idle
  <2>3. r \in Task /\ r.pc = "locked" /\ r.unacked = task[t].unacked
    BY <2>1, <2>2 DEF Task, Pcs
  <2> HIDE DEF r
  <2>4. Become(t, r)
    BY <1>1 DEF r
  <2> QED
    BY <2>3, <2>4 DEF Rests
<1> QED
  BY <1>1, PumpRests DEF DispatchSelect

\* One handler's step keeps every summary with one carrier when nobody else
\* carries what it takes up, and the queues hold nothing twice.
LEMMA CarrierMoves ==
  ASSUME TypeInv, TypeInv', OneCarrier, NEW t \in Tasks, NEW r \in Task, Become(t, r),
         \A s \in Summaries : Carries(r, s) =>
            /\ \A u \in Tasks \ {t} : ~Carries(task[u], s)
            /\ \A q \in requests' \cup results' : q.sum # s,
         \A u \in Tasks \ {t} : \A q \in requests' \cup results' : ~Carries(task[u], q.sum),
         \A a, b \in r.unacked : a = b,
         \A a, b \in requests' : a.sum = b.sum => a = b,
         \A a, b \in results' : a.sum = b.sum => a = b,
         \A a \in requests', b \in results' : a.sum # b.sum
  PROVE  OneCarrier'
<1>1. \A u \in Tasks : task'[u] = IF u = t THEN r ELSE task[u]
  BY DEF Become, TypeInv, TypeOK
<1>2. \A q \in requests' \cup results' : q.sum \in Summaries
  BY DEF TypeInv, TypeOK, Request, Result
<1>3. ASSUME NEW u \in Tasks, NEW v \in Tasks, NEW s \in Summaries,
             Carries(task'[u], s), Carries(task'[v], s)
      PROVE  u = v
  <2>1. CASE u = t \/ v = t
    BY <1>1, <1>3, <2>1
  <2>2. CASE u # t /\ v # t
    BY <1>1, <1>3, <2>2 DEF OneCarrier
  <2> QED
    BY <2>1, <2>2
<1>4. ASSUME NEW u \in Tasks, NEW q \in requests' \cup results'
      PROVE  ~Carries(task'[u], q.sum)
  BY <1>1, <1>2
<1>5. ASSUME NEW u \in Tasks, NEW a \in task'[u].unacked, NEW b \in task'[u].unacked
      PROVE  a = b
  BY <1>1, <1>5 DEF OneCarrier
<1>6. /\ \A u, v \in Tasks, s \in Summaries :
            Carries(task'[u], s) /\ Carries(task'[v], s) => u = v
      /\ \A u \in Tasks : \A q \in requests' \cup results' : ~Carries(task'[u], q.sum)
      /\ \A u \in Tasks : \A a, b \in task'[u].unacked : a = b
  BY <1>3, <1>4, <1>5
<1> QED
  BY <1>6 DEF OneCarrier, Carries

\* A handler that carries no more than before, while the queues rest.
LEMMA CarrierQuiet ==
  ASSUME TypeInv, TypeInv', OneCarrier, NEW t \in Tasks, NEW r \in Task, Become(t, r),
         UNCHANGED queueVars, r.unacked \subseteq task[t].unacked,
         \A s \in Summaries : Carries(r, s) => Carries(task[t], s)
  PROVE  OneCarrier'
<1>1. requests' = requests /\ results' = results
  BY DEF queueVars
<1>2. \A s \in Summaries : Carries(r, s) =>
        /\ \A u \in Tasks \ {t} : ~Carries(task[u], s)
        /\ \A q \in requests' \cup results' : q.sum # s
  BY <1>1 DEF OneCarrier
<1>3. /\ \A u \in Tasks \ {t} : \A q \in requests' \cup results' : ~Carries(task[u], q.sum)
      /\ \A a, b \in r.unacked : a = b
      /\ \A a, b \in requests' : a.sum = b.sum => a = b
      /\ \A a, b \in results' : a.sum = b.sum => a = b
      /\ \A a \in requests', b \in results' : a.sum # b.sum
  BY <1>1 DEF OneCarrier
<1> QED
  BY <1>2, <1>3, CarrierMoves

LEMMA CarrierRests ==
  ASSUME TypeInv, TypeInv', OneCarrier, NEW t \in Tasks, NEW r, Rests(t, r), Become(t, r),
         UNCHANGED queueVars
  PROVE  OneCarrier'
<1>1. r \in Task /\ r.unacked \subseteq task[t].unacked
  BY DEF Rests
<1>2. \A s \in Summaries : Carries(r, s) => Carries(task[t], s)
  BY DEF Rests, Carries
<1> QED
  BY <1>1, <1>2, CarrierQuiet

\* A handler that goes on with its summary.
LEMMA CarrierGoesOn ==
  ASSUME TypeInv, TypeInv', OneCarrier, NEW t \in Tasks, NEW r \in Task, Become(t, r),
         UNCHANGED queueVars, r.unacked = task[t].unacked, r.sum = task[t].sum,
         task[t].pc \in {"build", "submit", "refuse", "handle", "write"}
  PROVE  OneCarrier'
BY CarrierQuiet DEF Carries

\* Each action of a handler, its summary and what it has not acknowledged.
LEMMA GoesOn ==
  ASSUME TypeInv, NEW t \in Tasks
  PROVE  /\ Build(t) => \E r \in Task :
              /\ Become(t, r) /\ r.sum = task[t].sum /\ r.unacked = task[t].unacked
              /\ \/ r.pc = "submit" /\ r.source = HeldBy(task[t].sum)
                 \/ r.pc = "refuse"
         /\ SubmitFailed(t) => \E r \in Task :
              /\ Become(t, r) /\ r.sum = task[t].sum /\ r.unacked = task[t].unacked
              /\ r.pc = "refuse"
         /\ SubmitInline(t) => \E r \in Task :
              /\ Become(t, r) /\ r.sum = task[t].sum /\ r.unacked = task[t].unacked
              /\ r.pc = "handle" /\ r.source = task[t].source
         /\ HandleResult(t) /\ status[task[t].sum] = "pending" => \E r \in Task :
              /\ Become(t, r) /\ r.sum = task[t].sum /\ r.unacked = task[t].unacked
              /\ r.pc = "write" /\ r.source = task[t].source
         /\ DispatchCommit(t) => \E r \in Task :
              /\ Become(t, r) /\ r.sum = task[t].sum /\ r.unacked = task[t].unacked
              /\ r.pc = "build"
<1>1. task[t] \in Task
  BY DEF TypeInv, TypeOK
<1>2. ASSUME Build(t)
      PROVE  \E r \in Task :
              /\ Become(t, r) /\ r.sum = task[t].sum /\ r.unacked = task[t].unacked
              /\ \/ r.pc = "submit" /\ r.source = HeldBy(task[t].sum)
                 \/ r.pc = "refuse"
  <2>1. HeldBy(task[t].sum) \in SUBSET Messages
    BY DEF HeldBy, TypeInv, TypeOK
  <2>2. CASE Become(t, [task[t] EXCEPT !.pc = "submit", !.source = HeldBy(task[t].sum)])
    <3> DEFINE r == [task[t] EXCEPT !.pc = "submit", !.source = HeldBy(task[t].sum)]
    <3>1. r \in Task
      BY <1>1, <2>1, SubmittingIsTask
    <3>2. /\ r.pc = "submit" /\ r.source = HeldBy(task[t].sum)
          /\ r.sum = task[t].sum /\ r.unacked = task[t].unacked
      BY <1>1 DEF Task
    <3>3. Become(t, r)
      BY <2>2
    <3> HIDE DEF r
    <3> QED
      BY <3>1, <3>2, <3>3
  <2>3. CASE Become(t, [task[t] EXCEPT !.pc = "refuse"])
    <3> DEFINE r == [task[t] EXCEPT !.pc = "refuse"]
    <3>1. r \in Task /\ r.pc = "refuse" /\ r.sum = task[t].sum /\ r.unacked = task[t].unacked
      BY <1>1 DEF Task, Pcs
    <3>3. Become(t, r)
      BY <2>3
    <3> HIDE DEF r
    <3> QED
      BY <3>1, <3>3
  <2> QED
    BY <1>2, <2>2, <2>3 DEF Build, HeldBy
<1>3. ASSUME SubmitFailed(t)
      PROVE  \E r \in Task :
              /\ Become(t, r) /\ r.sum = task[t].sum /\ r.unacked = task[t].unacked
              /\ r.pc = "refuse"
  <2> DEFINE r == [task[t] EXCEPT !.pc = "refuse", !.source = {}]
  <2>1. r \in Task
    BY <1>1, RefusingIsTask
  <2>2. r.pc = "refuse" /\ r.sum = task[t].sum /\ r.unacked = task[t].unacked
    BY <1>1 DEF Task
  <2>3. Become(t, r)
    BY <1>3 DEF SubmitFailed
  <2> HIDE DEF r
  <2> QED
    BY <2>1, <2>2, <2>3
<1>4. ASSUME SubmitInline(t)
      PROVE  \E r \in Task :
              /\ Become(t, r) /\ r.sum = task[t].sum /\ r.unacked = task[t].unacked
              /\ r.pc = "handle" /\ r.source = task[t].source
  <2>1. PICK ok \in BOOLEAN : Become(t, [task[t] EXCEPT !.pc = "handle", !.ok = ok])
    BY <1>4 DEF SubmitInline
  <2> DEFINE r == [task[t] EXCEPT !.pc = "handle", !.ok = ok]
  <2>2. r \in Task
    BY <1>1, AnsweredIsTask
  <2>3. /\ r.pc = "handle" /\ r.sum = task[t].sum /\ r.unacked = task[t].unacked
        /\ r.source = task[t].source
    BY <1>1 DEF Task
  <2>4. Become(t, r)
    BY <2>1
  <2> HIDE DEF r
  <2> QED
    BY <2>2, <2>3, <2>4
<1>5. ASSUME HandleResult(t), status[task[t].sum] = "pending"
      PROVE  \E r \in Task :
              /\ Become(t, r) /\ r.sum = task[t].sum /\ r.unacked = task[t].unacked
              /\ r.pc = "write" /\ r.source = task[t].source
  <2> DEFINE r == [task[t] EXCEPT !.pc = "write"]
  <2>1. /\ r \in Task /\ r.pc = "write" /\ r.sum = task[t].sum
        /\ r.unacked = task[t].unacked /\ r.source = task[t].source
    BY <1>1 DEF Task, Pcs
  <2>2. Become(t, r)
    BY <1>5 DEF HandleResult
  <2> HIDE DEF r
  <2> QED
    BY <2>1, <2>2
<1>6. ASSUME DispatchCommit(t)
      PROVE  \E r \in Task :
              /\ Become(t, r) /\ r.sum = task[t].sum /\ r.unacked = task[t].unacked
              /\ r.pc = "build"
  <2> DEFINE r == [task[t] EXCEPT !.pc = "build"]
  <2>1. r \in Task /\ r.pc = "build" /\ r.sum = task[t].sum /\ r.unacked = task[t].unacked
    BY <1>1 DEF Task, Pcs
  <2>2. Become(t, r)
    BY <1>6 DEF DispatchCommit
  <2> HIDE DEF r
  <2> QED
    BY <2>1, <2>2
<1> QED
  BY <1>2, <1>3, <1>4, <1>5, <1>6

\* A handler that receives a result, or starts an edit.
LEMMA Starts ==
  ASSUME TypeInv, NEW t \in Tasks
  PROVE  /\ \A res \in results : Receive(t, res) => \E r \in Task :
              /\ Become(t, r) /\ r.pc = "handle" /\ r.sum = res.sum
              /\ r.source = res.source /\ r.unacked = {res}
         /\ \A s \in Summaries : EditCheck(t, s) => \E r \in Task :
              Become(t, r) /\ r.pc = "edit" /\ r.sum = s /\ r.unacked = {}
<1>1. ASSUME NEW res \in results, Receive(t, res)
      PROVE  \E r \in Task : /\ Become(t, r) /\ r.pc = "handle" /\ r.sum = res.sum
                             /\ r.source = res.source /\ r.unacked = {res}
  <2> DEFINE r == [Idle EXCEPT !.pc = "handle", !.sum = res.sum, !.source = res.source,
                               !.ok = res.ok, !.unacked = {res}]
  <2>1. res \in Result
    BY DEF TypeInv, TypeOK
  <2>2. /\ r \in Task /\ r.pc = "handle" /\ r.sum = res.sum
        /\ r.source = res.source /\ r.unacked = {res}
    BY <2>1 DEF Idle, Task, Pcs, Result
  <2>3. Become(t, r)
    BY <1>1 DEF Receive
  <2> HIDE DEF r
  <2> QED
    BY <2>2, <2>3
<1>2. ASSUME NEW s \in Summaries, EditCheck(t, s)
      PROVE  \E r \in Task : Become(t, r) /\ r.pc = "edit" /\ r.sum = s /\ r.unacked = {}
  <2> DEFINE r == [Idle EXCEPT !.pc = "edit", !.sum = s]
  <2>1. r \in Task /\ r.pc = "edit" /\ r.sum = s /\ r.unacked = {}
    BY DEF Idle, Task, Pcs
  <2>2. Become(t, r)
    BY <1>2 DEF EditCheck
  <2> HIDE DEF r
  <2> QED
    BY <2>1, <2>2
<1> QED
  BY <1>1, <1>2

\* The steps of a handler after which it has nothing to decide, and which
\* leave the queues alone.
Resting(t) ==
  \/ Poll(t) \/ Summarize(t) \/ PlanChosen(t) \/ Claim(t) \/ ClaimStale(t) \/ EditWrite(t)
  \/ DispatchSelect(t) \/ RefuseDispatch(t) \/ Complete(t) \/ FailResult(t) \/ Abort(t)
  \/ HandleResult(t) /\ status[task[t].sum] # "pending"

LEMMA RestingRests ==
  ASSUME TypeInv, NEW t \in Tasks, Resting(t)
  PROVE  UNCHANGED queueVars /\ \E r : Rests(t, r) /\ Become(t, r)
<1>1. CASE Poll(t)
  BY <1>1, ExpiryRests DEF Poll, ExpireStale
<1>2. CASE Summarize(t)
  <2>1. CASE \E S \in SUBSET Pending : ExpireStale(t, S, "plan")
    BY <2>1, ExpiryRests DEF ExpireStale
  <2>2. CASE Become(t, [Idle EXCEPT !.pc = "plan"]) /\ UNCHANGED queueVars
    <3> DEFINE r == [Idle EXCEPT !.pc = "plan"]
    <3>1. r \in Task /\ r.pc = "plan" /\ r.unacked = {}
      BY DEF Idle, Task, Pcs
    <3>2. Become(t, r)
      BY <2>2
    <3> HIDE DEF r
    <3> QED
      BY <2>2, <3>1, <3>2 DEF Rests
  <2> QED
    BY <1>2, <2>1, <2>2 DEF Summarize
<1>3. CASE PlanChosen(t)
  BY <1>3, PlanRests DEF PlanChosen
<1>4. CASE DispatchSelect(t)
  BY <1>4, SelectRests DEF DispatchSelect
<1>5. CASE Claim(t) \/ RefuseDispatch(t) \/ Complete(t) \/ FailResult(t)
  BY <1>5, PumpRests DEF Claim, RefuseDispatch, Complete, FailResult, queueVars
<1>6. CASE ClaimStale(t) \/ EditWrite(t) \/ Abort(t)
  BY <1>6, IdleRests DEF ClaimStale, EditWrite, Abort, queueVars
<1>7. CASE HandleResult(t) /\ status[task[t].sum] # "pending"
  BY <1>7, PumpRests DEF HandleResult, queueVars
<1> QED
  BY <1>1, <1>2, <1>3, <1>4, <1>5, <1>6, <1>7 DEF Resting

\* The next-state relation by what a step does to the carriers.
LEMMA NextByCarriers ==
  ASSUME [Next]_vars
  PROVE  \/ UNCHANGED <<task, queueVars>>
         \/ \E t \in Tasks : \/ Resting(t) \/ DispatchCommit(t) \/ Build(t) \/ SubmitPublished(t)
                             \/ SubmitFailed(t) \/ SubmitInline(t)
                             \/ HandleResult(t) /\ status[task[t].sum] = "pending"
                             \/ \E s \in Summaries : EditCheck(t, s)
                             \/ \E res \in results : Receive(t, res)
         \/ \E req \in requests : AgentAnswers(req)
         \/ Crash
BY DEF Next, vars, Handler, Resting, NewMessage, DeleteMessage, DropScene, chatVars

\* No step gives a summary a second carrier.
LEMMA StepOneCarrier ==
  ASSUME TypeInv, TypeInv', ClaimInv, Exact, OneCarrier, [Next]_vars
  PROVE  OneCarrier'
<1>1. CASE UNCHANGED <<task, queueVars>>
  BY <1>1 DEF OneCarrier, Carries, queueVars
<1>2. ASSUME NEW t \in Tasks, Resting(t)
      PROVE  OneCarrier'
  BY <1>2, RestingRests, CarrierRests
<1>3. ASSUME NEW t \in Tasks, DispatchCommit(t)
      PROVE  OneCarrier'
  <2>1. PICK r \in Task : /\ Become(t, r) /\ r.sum = task[t].sum /\ r.unacked = task[t].unacked
                          /\ r.pc = "build"
    BY <1>3, GoesOn
  <2>2. requests' = requests /\ results' = results
    BY <1>3 DEF DispatchCommit, queueVars
  <2>3. task[t].sum \in Summaries /\ task[t].sum \notin Dispatched
    BY <1>3 DEF DispatchCommit, ClaimInv, LocksHeld, Dispatched, Terminal, TypeInv,
         HoldsSummary, HoldingPcs
  <2>4. \A s \in Summaries : Carries(r, s) => s = task[t].sum \/ Carries(task[t], s)
    BY <2>1 DEF Carries
  <2>5. /\ \A u \in Tasks : ~Carries(task[u], task[t].sum)
        /\ \A q \in requests \cup results : q.sum # task[t].sum
    BY <2>3 DEF ClaimInv, OnlyDispatched, Carries
  <2>6. \A s \in Summaries : Carries(r, s) =>
          /\ \A u \in Tasks \ {t} : ~Carries(task[u], s)
          /\ \A q \in requests' \cup results' : q.sum # s
    BY <2>2, <2>4, <2>5 DEF OneCarrier
  <2>7. /\ \A u \in Tasks \ {t} : \A q \in requests' \cup results' : ~Carries(task[u], q.sum)
        /\ \A a, b \in r.unacked : a = b
        /\ \A a, b \in requests' : a.sum = b.sum => a = b
        /\ \A a, b \in results' : a.sum = b.sum => a = b
        /\ \A a \in requests', b \in results' : a.sum # b.sum
    BY <2>1, <2>2 DEF OneCarrier
  <2> QED
    BY <2>1, <2>6, <2>7, CarrierMoves
<1>4. ASSUME NEW t \in Tasks, \/ Build(t) \/ SubmitFailed(t) \/ SubmitInline(t)
                              \/ HandleResult(t) /\ status[task[t].sum] = "pending"
      PROVE  OneCarrier'
  <2>1. PICK r \in Task : Become(t, r) /\ r.sum = task[t].sum /\ r.unacked = task[t].unacked
    BY <1>4, GoesOn
  <2>2. UNCHANGED queueVars
    BY <1>4 DEF Build, SubmitFailed, SubmitInline, HandleResult, queueVars, Exact
  <2>3. task[t].pc \in {"build", "submit", "refuse", "handle", "write"}
    BY <1>4 DEF Build, SubmitFailed, SubmitInline, HandleResult
  <2> QED
    BY <2>1, <2>2, <2>3, CarrierGoesOn
<1>5. ASSUME NEW t \in Tasks, SubmitPublished(t)
      PROVE  OneCarrier'
  <2> DEFINE req == [sum |-> task[t].sum, source |-> task[t].source]
  <2>1. AfterPump(t) \in Task /\ Become(t, AfterPump(t))
    BY <1>5, PumpIsTask DEF SubmitPublished, TypeInv
  <2>2. AfterPump(t).pc \in {"idle", "plan"} /\ AfterPump(t).unacked = {}
    BY DEF AfterPump, Idle
  <2>3. requests' = requests \cup {req} /\ results' = results
    BY <1>5 DEF SubmitPublished
  <2>4. Carries(task[t], task[t].sum) /\ task[t].sum \in Summaries /\ req.sum = task[t].sum
    BY <1>5 DEF SubmitPublished, Carries, TypeInv, HoldsSummary, HoldingPcs
  <2>5. \A s : ~Carries(AfterPump(t), s)
    BY <2>2 DEF Carries
  <2>6. \A u \in Tasks \ {t} : \A q \in requests' \cup results' : ~Carries(task[u], q.sum)
    BY <2>3, <2>4 DEF OneCarrier
  <2>7. \A q \in requests \cup results : q.sum # req.sum
    BY <2>4 DEF OneCarrier
  <2> HIDE DEF req
  <2>8. /\ \A a, b \in requests' : a.sum = b.sum => a = b
        /\ \A a, b \in results' : a.sum = b.sum => a = b
        /\ \A a \in requests', b \in results' : a.sum # b.sum
    BY <2>3, <2>7 DEF OneCarrier
  <2> QED
    BY <2>1, <2>2, <2>5, <2>6, <2>8, CarrierMoves
<1>6. ASSUME NEW t \in Tasks, NEW s \in Summaries, EditCheck(t, s)
      PROVE  OneCarrier'
  <2>1. PICK r \in Task : Become(t, r) /\ r.pc = "edit" /\ r.unacked = {}
    BY <1>6, Starts
  <2>2. UNCHANGED queueVars
    BY <1>6 DEF EditCheck
  <2> QED
    BY <2>1, <2>2, CarrierQuiet DEF Carries
<1>7. ASSUME NEW t \in Tasks, NEW res \in results, Receive(t, res)
      PROVE  OneCarrier'
  <2>1. PICK r \in Task : /\ Become(t, r) /\ r.pc = "handle" /\ r.sum = res.sum
                          /\ r.unacked = {res}
    BY <1>7, Starts
  <2>2. requests' = requests /\ results' = results \ {res}
    BY <1>7 DEF Receive, Exact
  <2>3. \A s : Carries(r, s) => s = res.sum
    BY <2>1 DEF Carries
  <2>4. /\ \A u \in Tasks : ~Carries(task[u], res.sum)
        /\ \A q \in requests' \cup results' : q.sum # res.sum
    BY <2>2 DEF OneCarrier
  <2>5. \A s \in Summaries : Carries(r, s) =>
          /\ \A u \in Tasks \ {t} : ~Carries(task[u], s)
          /\ \A q \in requests' \cup results' : q.sum # s
    BY <2>3, <2>4
  <2>6. /\ \A u \in Tasks \ {t} : \A q \in requests' \cup results' : ~Carries(task[u], q.sum)
        /\ \A a, b \in r.unacked : a = b
        /\ \A a, b \in requests' : a.sum = b.sum => a = b
        /\ \A a, b \in results' : a.sum = b.sum => a = b
        /\ \A a \in requests', b \in results' : a.sum # b.sum
    BY <2>1, <2>2 DEF OneCarrier
  <2> QED
    BY <2>1, <2>5, <2>6, CarrierMoves
<1>8. ASSUME NEW req \in requests, AgentAnswers(req)
      PROVE  OneCarrier'
  <2>1. PICK ok \in BOOLEAN :
          results' = results \cup {[sum |-> req.sum, source |-> req.source, ok |-> ok]}
    BY <1>8 DEF AgentAnswers
  <2> DEFINE res == [sum |-> req.sum, source |-> req.source, ok |-> ok]
  <2>2. results' = results \cup {res} /\ res.sum = req.sum
    BY <2>1
  <2>3. requests' = requests \ {req} /\ task' = task
    BY <1>8 DEF AgentAnswers, Exact
  <2> HIDE DEF res
  <2>4. \A t \in Tasks : \A q \in requests' \cup results' : ~Carries(task[t], q.sum)
    BY <2>2, <2>3 DEF OneCarrier
  <2>5. /\ \A a, b \in requests' : a.sum = b.sum => a = b
        /\ \A a, b \in results' : a.sum = b.sum => a = b
        /\ \A a \in requests', b \in results' : a.sum # b.sum
    BY <2>2, <2>3 DEF OneCarrier
  <2> QED
    BY <2>3, <2>4, <2>5 DEF OneCarrier, Carries
<1>9. CASE Crash
  <2>1. /\ \A t \in Tasks : task'[t] = Idle
        /\ requests' = requests
        /\ results' = results \cup UNION {task[t].unacked : t \in Tasks}
    BY <1>9 DEF Crash
  <2>2. \A t \in Tasks : \A s : ~Carries(task'[t], s)
    BY <2>1 DEF Carries, Idle
  <2>3. \A t \in Tasks : \A a \in task[t].unacked : a.sum \in Summaries /\ Carries(task[t], a.sum)
    BY DEF TypeInv, TypeOK, Task, Result, Carries
  <2>4. ASSUME NEW t \in Tasks, NEW u \in Tasks, NEW a \in task[t].unacked,
               NEW b \in task[u].unacked, a.sum = b.sum
        PROVE  a = b
    BY <2>3, <2>4 DEF OneCarrier
  <2>5. ASSUME NEW t \in Tasks, NEW a \in task[t].unacked, NEW q \in requests \cup results
        PROVE  a.sum # q.sum
    BY <2>3 DEF OneCarrier
  <2>6. \A a, b \in results' : a.sum = b.sum => a = b
    BY <2>1, <2>4, <2>5 DEF OneCarrier
  <2>7. \A a \in requests', b \in results' : a.sum # b.sum
    BY <2>1, <2>5 DEF OneCarrier
  <2>8. \A t \in Tasks : task'[t].unacked = {}
    BY <2>1 DEF Idle
  <2>9. /\ \A t, u \in Tasks, s \in Summaries :
              Carries(task'[t], s) /\ Carries(task'[u], s) => t = u
        /\ \A t \in Tasks : \A q \in requests' \cup results' : ~Carries(task'[t], q.sum)
        /\ \A t \in Tasks : \A a, b \in task'[t].unacked : a = b
    BY <2>2, <2>8
  <2>10. \A a, b \in requests' : a.sum = b.sum => a = b
    BY <2>1 DEF OneCarrier
  <2> QED
    BY <2>6, <2>7, <2>9, <2>10 DEF OneCarrier, Carries
<1> QED
  BY <1>1, <1>2, <1>3, <1>4, <1>5, <1>6, <1>7, <1>8, <1>9, NextByCarriers

-----------------------------------------------------------------------------
(* What is decided about a summary.                                        *)

\* Before a handler's unit of work decides about its summary.
Deciding == {"build", "submit", "refuse", "write"}

\* The steps that write chat_summaries.status.
StatusStep ==
  \/ \E t \in Tasks, S \in SUBSET Pending, next \in {"idle", "plan"} : ExpireStale(t, S, next)
  \/ \E t \in Tasks : \/ Claim(t) \/ DispatchCommit(t)
                      \/ RefuseDispatch(t) \/ Complete(t) \/ FailResult(t)

LEMMA StatusSteps == [Next]_vars => StatusStep \/ status' = status
BY DEF Next, vars, Handler, chatVars, summaryVars, queueVars, NewMessage, DeleteMessage,
       DropScene, Poll, Summarize, PlanChosen, ClaimStale, EditCheck, EditWrite,
       DispatchSelect, Build, SubmitPublished, SubmitFailed, SubmitInline, AgentAnswers,
       Receive, HandleResult, Abort, Crash, StatusStep

\* Only the handler that carries a summary writes the outcome of it, but for
\* an expiry, which fires under a handler only with "overlap".
LEMMA OthersWait ==
  ASSUME TypeInv, ClaimInv, Exact, OneCarrier, [Next]_vars,
         NEW u \in Tasks, task'[u] = task[u], task[u].pc \in Deciding
  PROVE  \/ status'[task[u].sum] = status[task[u].sum]
         \/ status'[task[u].sum] = "failed" /\ ~Calm
<1> DEFINE s == task[u].sum
<1>1. s \in Summaries /\ s \in Dispatched /\ Carries(task[u], s)
  BY DEF Deciding, TypeInv, HoldsSummary, HoldingPcs, ClaimInv, OnlyDispatched, Carries
<1>2. ASSUME NEW t \in Tasks, NEW S \in SUBSET Pending, NEW next, ExpireStale(t, S, next)
      PROVE  status'[s] = status[s] \/ (status'[s] = "failed" /\ ~Calm)
  BY <1>1, <1>2 DEF ExpireStale, MayExpire, Calm, TypeInv, TypeOK
<1>3. ASSUME NEW t \in Tasks, Claim(t)
      PROVE  status'[s] = status[s]
  <2>1. \A r \in Summaries : status[r] # "absent" => status'[r] = status[r]
    BY <1>3 DEF Claim, WithStatus
  <2> QED
    BY <1>1, <2>1 DEF Dispatched, Terminal
<1>4. ASSUME NEW t \in Tasks, DispatchCommit(t)
      PROVE  status'[s] = status[s]
  BY <1>1, <1>4 DEF DispatchCommit, ClaimInv, LocksHeld, Dispatched, Terminal, TypeInv, TypeOK
<1>5. ASSUME NEW t \in Tasks, RefuseDispatch(t) \/ Complete(t) \/ FailResult(t)
      PROVE  status'[s] = status[s]
  <2>1. task[t].sum \in Summaries /\ Carries(task[t], task[t].sum)
    BY <1>5 DEF RefuseDispatch, Complete, FailResult, Carries, TypeInv, HoldsSummary, HoldingPcs
  <2>2. task'[t] = ToPump(t) /\ ToPump(t).pc = "pump"
    BY <1>5 DEF RefuseDispatch, Complete, FailResult, Become, TypeInv, TypeOK, ToPump, Idle
  <2>3. t # u
    BY <2>2 DEF Deciding
  <2>4. task[t].sum # s
    BY <1>1, <2>1, <2>3 DEF OneCarrier
  <2> QED
    BY <1>5, <2>4, <1>1 DEF RefuseDispatch, Complete, FailResult, TypeInv, TypeOK
<1> QED
  BY <1>2, <1>3, <1>4, <1>5, StatusSteps DEF StatusStep

\* A step that takes one handler from a state that rests to another keeps what
\* the others decide.
LEMMA StepUndecided ==
  ASSUME TypeInv, ClaimInv, Exact, OneCarrier, Undecided, [Next]_vars
  PROVE  Undecided'
<1> USE DEF Deciding
<1>0. faults' = faults
  BY FaultsStay
<1>1. ASSUME NEW u \in Tasks, task'[u] = task[u], task[u].pc \in Deciding
      PROVE  status'[task[u].sum] # "completed" /\ (Calm => status'[task[u].sum] = "pending")
  BY <1>1, OthersWait DEF Undecided
<1>2. ASSUME \A u \in Tasks : task'[u] = task[u] \/ task'[u].pc \notin Deciding
      PROVE  Undecided'
  BY <1>0, <1>1, <1>2 DEF Undecided, Calm
<1>3. CASE UNCHANGED task
  BY <1>2, <1>3
<1>4. ASSUME NEW t \in Tasks, NEW r, Become(t, r), r.pc \notin Deciding
      PROVE  Undecided'
  <2>1. \A u \in Tasks : task'[u] = IF u = t THEN r ELSE task[u]
    BY <1>4 DEF Become, TypeInv, TypeOK
  <2> QED
    BY <1>2, <1>4, <2>1
<1>5. ASSUME NEW t \in Tasks, Resting(t)
      PROVE  Undecided'
  BY <1>4, <1>5, RestingRests DEF Rests
<1>6. ASSUME NEW t \in Tasks, NEW r \in Task, Become(t, r), r.sum = task[t].sum,
             \/ task[t].pc \in Deciding /\ status' = status
             \/ status'[task[t].sum] = "pending"
      PROVE  Undecided'
  <2>1. \A u \in Tasks : task'[u] = IF u = t THEN r ELSE task[u]
    BY <1>6 DEF Become, TypeInv, TypeOK
  <2>2. status'[task[t].sum] # "completed" /\ (Calm => status'[task[t].sum] = "pending")
    BY <1>6 DEF Undecided
  <2>3. ASSUME NEW u \in Tasks, task'[u].pc \in Deciding
        PROVE  status'[task'[u].sum] # "completed" /\ (Calm => status'[task'[u].sum] = "pending")
    BY <1>1, <1>6, <2>1, <2>2, <2>3
  <2> QED
    BY <1>0, <2>3 DEF Undecided, Calm
<1>7. ASSUME NEW t \in Tasks, DispatchCommit(t)
      PROVE  Undecided'
  <2>1. PICK r \in Task : Become(t, r) /\ r.sum = task[t].sum
    BY <1>7, GoesOn
  <2>2. status'[task[t].sum] = "pending"
    BY <1>7 DEF DispatchCommit, TypeInv, TypeOK, HoldsSummary, HoldingPcs
  <2> QED
    BY <1>6, <2>1, <2>2
<1>8. ASSUME NEW t \in Tasks, Build(t) \/ SubmitFailed(t) \/ SubmitInline(t)
      PROVE  Undecided'
  <2>1. PICK r \in Task : Become(t, r) /\ r.sum = task[t].sum
    BY <1>8, GoesOn
  <2>2. task[t].pc \in Deciding /\ status' = status
    BY <1>8 DEF Build, SubmitFailed, SubmitInline
  <2> QED
    BY <1>6, <2>1, <2>2
<1>9. ASSUME NEW t \in Tasks, HandleResult(t), status[task[t].sum] = "pending"
      PROVE  Undecided'
  <2>1. PICK r \in Task : Become(t, r) /\ r.sum = task[t].sum
    BY <1>9, GoesOn
  <2>2. status' = status
    BY <1>9 DEF HandleResult
  <2> QED
    BY <1>6, <1>9, <2>1, <2>2
<1>10. ASSUME NEW t \in Tasks, SubmitPublished(t)
       PROVE  Undecided'
  BY <1>4, <1>10, PumpRests DEF SubmitPublished, Rests
<1>11. ASSUME NEW t \in Tasks, NEW s \in Summaries, EditCheck(t, s)
       PROVE  Undecided'
  BY <1>4, <1>11, Starts
<1>12. ASSUME NEW t \in Tasks, NEW res \in results, Receive(t, res)
       PROVE  Undecided'
  BY <1>4, <1>12, Starts
<1>13. ASSUME NEW req \in requests, AgentAnswers(req)
       PROVE  Undecided'
  BY <1>3, <1>13 DEF AgentAnswers
<1>14. CASE Crash
  <2>1. \A u \in Tasks : task'[u].pc = "idle"
    BY <1>14 DEF Crash, Idle
  <2> QED
    BY <1>2, <2>1
<1> QED
  BY <1>3, <1>5, <1>7, <1>8, <1>9, <1>10, <1>11, <1>12, <1>13, <1>14, NextByCarriers

\* With that, a completed summary stays completed.
LEMMA CompletedStays ==
  ASSUME TypeInv, ClaimInv, Exact, Undecided, [Next]_vars,
         NEW s \in Summaries, status[s] = "completed"
  PROVE  status'[s] = "completed"
<1>1. ASSUME NEW t \in Tasks, NEW S \in SUBSET Pending, NEW next, ExpireStale(t, S, next)
      PROVE  status'[s] = "completed"
  BY <1>1 DEF ExpireStale, Pending, WithStatus
<1>2. ASSUME NEW t \in Tasks, Claim(t)
      PROVE  status'[s] = "completed"
  BY <1>2 DEF Claim, WithStatus
<1>3. ASSUME NEW t \in Tasks, DispatchCommit(t)
      PROVE  status'[s] = "completed"
  BY <1>3 DEF DispatchCommit, ClaimInv, LocksHeld, TypeInv, TypeOK
<1>4. ASSUME NEW t \in Tasks, RefuseDispatch(t) \/ Complete(t) \/ FailResult(t)
      PROVE  status'[s] = "completed"
  BY <1>4 DEF RefuseDispatch, Complete, FailResult, Undecided, TypeInv, TypeOK
<1> QED
  BY <1>1, <1>2, <1>3, <1>4, StatusSteps DEF StatusStep

\* Edits are of completed summaries, which no result takes up again.
LEMMA StepEdits ==
  ASSUME TypeInv, ClaimInv, Exact, Undecided, EditsOfCompleted, [Next]_vars
  PROVE  EditsOfCompleted' /\ edited \subseteq edited'
<1>1. \A s \in Summaries : status[s] = "completed" => status'[s] = "completed"
  BY CompletedStays
<1>2. \A s \in edited' : s \in edited \/ \E t \in Tasks : task[t].pc = "edit" /\ task[t].sum = s
  BY DEF Next, vars, Handler, chatVars, summaryVars, queueVars, NewMessage, DeleteMessage,
       DropScene, Poll, Summarize, ExpireStale, PlanChosen, Claim, ClaimStale, EditCheck,
       EditWrite, DispatchSelect, DispatchCommit, Build, SubmitPublished, SubmitFailed,
       SubmitInline, RefuseDispatch, AgentAnswers, Receive, HandleResult, Complete, FailResult,
       Abort, Crash
<1>3. edited \subseteq Summaries /\ edited' \subseteq Summaries
  BY <1>2 DEF TypeInv, TypeOK, HoldsSummary, HoldingPcs
<1>4. \A s \in edited' : status'[s] = "completed"
  BY <1>1, <1>2, <1>3 DEF EditsOfCompleted
<1>5. ASSUME NEW s \in edited
      PROVE  s \in edited'
  <2>1. ASSUME NEW t \in Tasks, Complete(t)
        PROVE  s # task[t].sum
    BY <2>1 DEF Complete, Undecided, EditsOfCompleted
  <2> QED
    BY <2>1 DEF Next, vars, Handler, chatVars, summaryVars, queueVars, NewMessage, DeleteMessage,
       DropScene, Poll, Summarize, ExpireStale, PlanChosen, Claim, ClaimStale, EditCheck,
       EditWrite, DispatchSelect, DispatchCommit, Build, SubmitPublished, SubmitFailed,
       SubmitInline, RefuseDispatch, AgentAnswers, Receive, HandleResult, Complete, FailResult,
       Abort, Crash
<1>6. ASSUME NEW u \in Tasks, task'[u].pc = "edit"
      PROVE  status'[task'[u].sum] = "completed"
  <2>1. CASE task'[u] = task[u]
    BY <1>1, <1>6, <2>1 DEF EditsOfCompleted, TypeInv, HoldsSummary, HoldingPcs
  <2>2. ASSUME NEW t \in Tasks, NEW r, Become(t, r), r.pc # "edit"
        PROVE  task'[u] = task[u]
    BY <1>6, <2>2 DEF Become, TypeInv, TypeOK
  <2>3. ASSUME NEW t \in Tasks, Resting(t)
        PROVE  task'[u] = task[u]
    BY <2>2, <2>3, RestingRests DEF Rests
  <2>4. ASSUME NEW t \in Tasks, \/ DispatchCommit(t) \/ Build(t) \/ SubmitFailed(t) \/ SubmitInline(t)
                                \/ HandleResult(t) /\ status[task[t].sum] = "pending"
        PROVE  task'[u] = task[u]
    <3>1. \E r \in Task : Become(t, r) /\ r.pc # "edit"
      BY <2>4, GoesOn
    <3> QED
      BY <2>2, <3>1
  <2>5. ASSUME NEW t \in Tasks, SubmitPublished(t)
        PROVE  task'[u] = task[u]
    BY <2>2, <2>5, PumpRests DEF SubmitPublished, Rests
  <2>6. ASSUME NEW t \in Tasks, NEW res \in results, Receive(t, res)
        PROVE  task'[u] = task[u]
    BY <2>2, <2>6, Starts
  <2>7. ASSUME NEW t \in Tasks, NEW s \in Summaries, EditCheck(t, s)
        PROVE  status'[task'[u].sum] = "completed"
    <3>1. PICK r \in Task : Become(t, r) /\ r.sum = s
      BY <2>7, Starts
    <3>2. CASE u = t
      <4>1. task'[u].sum = s
        BY <3>1, <3>2 DEF Become, TypeInv, TypeOK
      <4> QED
        BY <2>7, <4>1 DEF EditCheck
    <3>3. CASE u # t
      BY <2>1, <3>1, <3>3 DEF Become, TypeInv, TypeOK
    <3> QED
      BY <3>2, <3>3
  <2>8. CASE Crash
    BY <1>6, <2>8 DEF Crash, Idle
  <2>9. ASSUME NEW req \in requests, AgentAnswers(req)
        PROVE  task'[u] = task[u]
    BY <2>9 DEF AgentAnswers
  <2> QED
    BY <2>1, <2>3, <2>4, <2>5, <2>6, <2>7, <2>8, <2>9, NextByCarriers
<1> QED
  BY <1>4, <1>5, <1>6 DEF EditsOfCompleted

-----------------------------------------------------------------------------
(* What the carriers of a summary will tell.                               *)

\* What a dispatched summary holds only shrinks, and while it stays PENDING
\* only by deletions.
Shrinks(s) ==
  /\ HeldBy(s)' \subseteq HeldBy(s)
  /\ status'[s] = "pending" => /\ status[s] = "pending"
                               /\ exists' \cap HeldBy(s) \subseteq HeldBy(s)'

\* The steps that write rows of messages.
LEMMA RowSteps ==
  [Next]_vars =>
    \/ \E m \in Messages : NewMessage(m) \/ DeleteMessage(m)
    \/ StatusStep
    \/ UNCHANGED <<unsent, exists, summaryOf, archived, status, recap>>
BY DEF Next, vars, Handler, chatVars, summaryVars, queueVars, DropScene, Poll, Summarize,
       PlanChosen, ClaimStale, EditCheck, EditWrite, DispatchSelect, Build, SubmitPublished,
       SubmitFailed, SubmitInline, AgentAnswers, Receive, HandleResult, Abort, Crash, StatusStep

\* Messages are written once, and claims only grow for new summaries.
LEMMA RowsShrink ==
  ASSUME TypeInv, ClaimInv, [Next]_vars
  PROVE  /\ unsent' \subseteq unsent /\ exists' \subseteq exists \cup unsent
         /\ \A s \in Dispatched : Shrinks(s)
<1> USE NoSummaryAssumption DEF chatVars
<1> DEFINE Written == unsent' \subseteq unsent /\ exists' \subseteq exists \cup unsent
<1>0. Dispatched \subseteq Summaries /\ \A s \in Dispatched : status[s] \notin {"absent", "queued"}
  BY DEF Dispatched, Terminal
<1>1. ASSUME NEW m \in Messages, NewMessage(m)
      PROVE  Written /\ \A s \in Dispatched : Shrinks(s)
  <2>1. summaryOf[m] = NoSummary
    BY <1>1 DEF NewMessage, ClaimInv, RowsAgree, NothingBeforeItIsWritten
  <2> QED
    BY <1>0, <1>1, <2>1 DEF NewMessage, Shrinks, HeldBy
<1>2. ASSUME NEW m \in Messages, DeleteMessage(m)
      PROVE  Written /\ \A s \in Dispatched : Shrinks(s)
  BY <1>0, <1>2 DEF DeleteMessage, Shrinks, HeldBy, TypeInv, TypeOK
<1>3. ASSUME UNCHANGED <<unsent, exists, summaryOf, status>>
      PROVE  Written /\ \A s \in Dispatched : Shrinks(s)
  BY <1>3 DEF Shrinks, HeldBy
<1>4. ASSUME NEW S \in SUBSET Summaries, UNCHANGED <<unsent, exists>>, summaryOf' = Released(S),
             status' = [s \in Summaries |-> IF s \in S THEN "failed" ELSE status[s]]
      PROVE  Written /\ \A s \in Dispatched : Shrinks(s)
  <2>1. \A m \in Messages : summaryOf'[m] = summaryOf[m] \/ (summaryOf'[m] = NoSummary /\ summaryOf[m] \in S)
    BY <1>4 DEF Released
  <2>2. \A s \in Summaries : status'[s] = IF s \in S THEN "failed" ELSE status[s]
    BY <1>4
  <2> QED
    BY <1>0, <1>4, <2>1, <2>2 DEF Shrinks, HeldBy, TypeInv, TypeOK
<1>5. ASSUME NEW t \in Tasks, NEW S \in SUBSET Pending, NEW next, ExpireStale(t, S, next)
      PROVE  Written /\ \A s \in Dispatched : Shrinks(s)
  BY <1>4, <1>5 DEF ExpireStale, Pending, WithStatus
<1>6. ASSUME NEW t \in Tasks, RefuseDispatch(t) \/ FailResult(t)
      PROVE  Written /\ \A s \in Dispatched : Shrinks(s)
  <2>1. {task[t].sum} \subseteq Summaries
    BY <1>6 DEF RefuseDispatch, FailResult, TypeInv, HoldsSummary, HoldingPcs
  <2>2. status' = [s \in Summaries |-> IF s \in {task[t].sum} THEN "failed" ELSE status[s]]
    BY <1>6 DEF RefuseDispatch, FailResult, TypeInv, TypeOK
  <2>3. summaryOf' = Released({task[t].sum}) /\ UNCHANGED <<unsent, exists>>
    BY <1>6 DEF RefuseDispatch, FailResult
  <2> QED
    BY <1>4, <2>1, <2>2, <2>3
<1>7. ASSUME NEW t \in Tasks, Complete(t)
      PROVE  Written /\ \A s \in Dispatched : Shrinks(s)
  BY <1>0, <1>7 DEF Complete, Shrinks, HeldBy, TypeInv, TypeOK
<1>8. ASSUME NEW t \in Tasks, DispatchCommit(t)
      PROVE  Written /\ \A s \in Dispatched : Shrinks(s)
  <2>1. status[task[t].sum] = "queued"
    BY <1>8 DEF DispatchCommit, ClaimInv, LocksHeld
  <2> QED
    BY <1>0, <1>8, <2>1 DEF DispatchCommit, Shrinks, HeldBy, TypeInv, TypeOK
<1>9. ASSUME NEW t \in Tasks, Claim(t)
      PROVE  Written /\ \A s \in Dispatched : Shrinks(s)
  <2> DEFINE C == task[t].chapters
  <2>1. PICK row \in [C -> WithStatus("absent")] :
          /\ status' = [s \in Summaries |->
                       IF \E c \in C : row[c] = s THEN "queued" ELSE status[s]]
          /\ summaryOf' = [m \in Messages |->
                       IF \E c \in C : m \in c
                       THEN row[CHOOSE c \in C : m \in c] ELSE summaryOf[m]]
    BY <1>9 DEF Claim
  <2>2. \A c \in C : \A m \in c : Free(m)
    BY <1>9 DEF Claim, Claimable
  <2>3. UNCHANGED <<unsent, exists>>
    BY <1>9 DEF Claim
  <2> HIDE DEF C
  <2>4. \A s \in Dispatched : status'[s] = status[s]
    BY <1>0, <2>1 DEF WithStatus
  <2>5. \A m \in Messages : \/ summaryOf'[m] = summaryOf[m] 
                            \/ summaryOf[m] = NoSummary /\ summaryOf'[m] \in WithStatus("absent")
    BY <2>1, <2>2 DEF Free
  <2>6. \A s \in Dispatched : s \notin WithStatus("absent") /\ s # NoSummary
    BY <1>0 DEF WithStatus
  <2>7. \A s \in Dispatched : HeldBy(s)' = HeldBy(s)
    BY <2>3, <2>5, <2>6 DEF HeldBy, TypeInv, TypeOK
  <2> QED
    BY <2>3, <2>4, <2>7 DEF Shrinks
<1> HIDE DEF Written
<1>10. Written /\ \A s \in Dispatched : Shrinks(s)
  BY <1>1, <1>2, <1>3, <1>5, <1>6, <1>7, <1>8, <1>9, RowSteps DEF StatusStep
<1> QED
  BY <1>10 DEF Written

\* SentRight of the rows after the step, for a source of before it.
SentNext(s, source) ==
  LET held == {m \in exists' : summaryOf'[m] = s} IN
  /\ source \cap unsent' = {}
  /\ held \subseteq source
  /\ Calm' /\ status'[s] = "pending" => source \cap exists' \subseteq held

\* What was sent for a summary stays right.
LEMMA SentStays ==
  ASSUME TypeInv, ClaimInv, [Next]_vars, NEW s \in Dispatched, NEW source, SentRight(s, source)
  PROVE  SentNext(s, source)
<1>1. unsent' \subseteq unsent /\ exists' \subseteq exists \cup unsent /\ Shrinks(s)
  BY RowsShrink
<1>2. faults' = faults
  BY FaultsStay
<1>3. HeldBy(s)' \subseteq HeldBy(s)
  BY <1>1 DEF Shrinks
<1>4. source \cap unsent = {} /\ HeldBy(s) \subseteq source
  BY DEF SentRight
<1>5. ASSUME Calm, status'[s] = "pending"
      PROVE  source \cap exists' \subseteq HeldBy(s)'
  <2>1. status[s] = "pending" /\ exists' \cap HeldBy(s) \subseteq HeldBy(s)'
    BY <1>1, <1>5 DEF Shrinks
  <2>2. source \cap exists \subseteq HeldBy(s)
    BY <1>5, <2>1 DEF SentRight
  <2> QED
    BY <1>1, <1>4, <2>1, <2>2
<1>6. Calm' = Calm
  BY <1>2 DEF Calm
<1> QED
  BY <1>1, <1>3, <1>4, <1>5, <1>6 DEF SentNext, HeldBy

\* A request carries what the summary held when it was built, and its result
\* the same.
LEMMA StepSources ==
  ASSUME TypeInv, ClaimInv, SourcesRight, Exact, [Next]_vars
  PROVE  SourcesRight'
<1> DEFINE Sends(h) == /\ h.pc \in {"submit", "handle", "write"} => SentNext(h.sum, h.source)
                       /\ \A res \in h.unacked : SentNext(res.sum, res.source)
<1>1. \A u \in Tasks : Sends(task[u])
  <2> SUFFICES ASSUME NEW u \in Tasks PROVE Sends(task[u])
    OBVIOUS
  <2>1. task[u].pc \in {"submit", "handle", "write"} => task[u].sum \in Dispatched
    BY DEF ClaimInv, OnlyDispatched
  <2>2. \A res \in task[u].unacked : res.sum \in Dispatched
    BY DEF ClaimInv, OnlyDispatched
  <2>3. task[u].pc \in {"submit", "handle", "write"} => SentNext(task[u].sum, task[u].source)
    BY <2>1, SentStays DEF SourcesRight
  <2>4. \A res \in task[u].unacked : SentNext(res.sum, res.source)
    BY <2>2, SentStays DEF SourcesRight
  <2> QED
    BY <2>3, <2>4
<1>2. \A q \in requests \cup results : SentNext(q.sum, q.source)
  <2>1. \A q \in requests \cup results : q.sum \in Dispatched
    BY DEF ClaimInv, OnlyDispatched
  <2> QED
    BY <2>1, SentStays DEF SourcesRight
<1> DEFINE Queues == \A q \in requests' \cup results' : SentNext(q.sum, q.source)
<1>3. ASSUME Queues, \A u \in Tasks : Sends(task'[u])
      PROVE  SourcesRight'
  BY <1>3 DEF SourcesRight, SentRight, SentNext, HeldBy, Calm
<1>4. UNCHANGED queueVars => Queues
  BY <1>2 DEF queueVars
<1>5. ASSUME NEW t \in Tasks, NEW r, Become(t, r), Sends(r), Queues
      PROVE  SourcesRight'
  <2>1. \A u \in Tasks : task'[u] = IF u = t THEN r ELSE task[u]
    BY <1>5 DEF Become, TypeInv, TypeOK
  <2>2. ASSUME NEW u \in Tasks
        PROVE  Sends(task'[u])
    <3>1. task'[u] = r \/ task'[u] = task[u]
      BY <2>1
    <3> HIDE DEF Sends
    <3> QED
      BY <1>1, <1>5, <3>1
  <2> QED
    BY <1>3, <1>5, <2>2
<1>6. ASSUME NEW t \in Tasks, NEW r, Rests(t, r)
      PROVE  Sends(r)
  <2>1. /\ r.pc \notin {"submit", "handle", "write"}
        /\ \A res \in r.unacked : res \in task[t].unacked
    BY <1>6 DEF Rests
  <2> QED
    BY <1>1, <2>1
<1>7. CASE UNCHANGED <<task, queueVars>>
  <2>1. task' = task
    BY <1>7
  <2>2. \A u \in Tasks : Sends(task'[u])
    BY <1>1, <2>1
  <2> QED
    BY <1>3, <1>4, <1>7, <2>2
<1>8. ASSUME NEW t \in Tasks, Resting(t)
      PROVE  SourcesRight'
  <2> HIDE DEF Sends, Queues
  <2> QED
    BY <1>4, <1>5, <1>6, <1>8, RestingRests
<1>9. ASSUME NEW t \in Tasks, NEW r \in Task, Become(t, r), r.sum = task[t].sum, 
             r.unacked = task[t].unacked, UNCHANGED queueVars,
             r.pc \in {"submit", "handle", "write"} => SentNext(task[t].sum, r.source)
      PROVE  SourcesRight'
  <2>1. Sends(r)
    BY <1>1, <1>9
  <2> HIDE DEF Sends, Queues
  <2> QED
    BY <1>4, <1>5, <1>9, <2>1
<1>10. ASSUME NEW t \in Tasks, DispatchCommit(t)
       PROVE  SourcesRight'
  <2>1. PICK r \in Task : /\ Become(t, r) /\ r.sum = task[t].sum /\ r.unacked = task[t].unacked
                          /\ r.pc = "build"
    BY <1>10, GoesOn
  <2> QED
    BY <1>9, <1>10, <2>1 DEF DispatchCommit
<1>11. ASSUME NEW t \in Tasks, Build(t)
       PROVE  SourcesRight'
  <2>1. PICK r \in Task : /\ Become(t, r) /\ r.sum = task[t].sum /\ r.unacked = task[t].unacked
                          /\ \/ r.pc = "submit" /\ r.source = HeldBy(task[t].sum)
                             \/ r.pc = "refuse"
    BY <1>11, GoesOn
  <2>2. task[t].sum \in Dispatched
    BY <1>11 DEF Build, ClaimInv, OnlyDispatched
  <2>3. SentRight(task[t].sum, HeldBy(task[t].sum))
    BY DEF SentRight, HeldBy, ClaimInv, NothingBeforeItIsWritten
  <2>4. r.pc \in {"submit", "handle", "write"} => SentNext(task[t].sum, r.source)
    <3>1. r.pc \in {"submit", "handle", "write"} => r.source = HeldBy(task[t].sum)
      BY <2>1
    <3> QED
      BY <2>2, <2>3, <3>1, SentStays
  <2> QED
    BY <1>9, <1>11, <2>1, <2>4 DEF Build
<1>12. ASSUME NEW t \in Tasks, SubmitFailed(t)
       PROVE  SourcesRight'
  <2>1. PICK r \in Task : /\ Become(t, r) /\ r.sum = task[t].sum /\ r.unacked = task[t].unacked
                          /\ r.pc = "refuse"
    BY <1>12, GoesOn
  <2> QED
    BY <1>9, <1>12, <2>1 DEF SubmitFailed, Exact, queueVars
<1>13. ASSUME NEW t \in Tasks, SubmitInline(t)
       PROVE  SourcesRight'
  <2>1. PICK r \in Task : /\ Become(t, r) /\ r.sum = task[t].sum /\ r.unacked = task[t].unacked
                          /\ r.pc = "handle" /\ r.source = task[t].source
    BY <1>13, GoesOn
  <2>2. SentNext(task[t].sum, r.source)
    BY <1>1, <1>13, <2>1 DEF SubmitInline
  <2> QED
    BY <1>9, <1>13, <2>1, <2>2 DEF SubmitInline
<1>14. ASSUME NEW t \in Tasks, HandleResult(t), status[task[t].sum] = "pending"
       PROVE  SourcesRight'
  <2>1. PICK r \in Task : /\ Become(t, r) /\ r.sum = task[t].sum /\ r.unacked = task[t].unacked
                          /\ r.pc = "write" /\ r.source = task[t].source
    BY <1>14, GoesOn
  <2>2. SentNext(task[t].sum, r.source)
    BY <1>1, <1>14, <2>1 DEF HandleResult
  <2> QED
    BY <1>9, <1>14, <2>1, <2>2 DEF HandleResult
<1>15. ASSUME NEW t \in Tasks, SubmitPublished(t)
       PROVE  SourcesRight'
  <2>1. SentNext(task[t].sum, task[t].source)
    BY <1>1, <1>15 DEF SubmitPublished
  <2>2. requests' = requests \cup {[sum |-> task[t].sum, source |-> task[t].source]}
        /\ results' = results
    BY <1>15 DEF SubmitPublished
  <2>3. Queues
    BY <1>2, <2>1, <2>2
  <2>4. Sends(AfterPump(t)) /\ Become(t, AfterPump(t))
    BY <1>6, <1>15, PumpRests DEF SubmitPublished
  <2> HIDE DEF Sends, Queues
  <2> QED
    BY <1>5, <2>3, <2>4
<1>16. ASSUME NEW t \in Tasks, NEW s \in Summaries, EditCheck(t, s)
       PROVE  SourcesRight'
  <2>1. PICK r \in Task : Become(t, r) /\ r.pc = "edit" /\ r.unacked = {}
    BY <1>16, Starts
  <2>2. Sends(r) /\ Queues
    BY <1>4, <1>16, <2>1 DEF EditCheck
  <2> HIDE DEF Sends, Queues
  <2> QED
    BY <1>5, <2>1, <2>2
<1>17. ASSUME NEW t \in Tasks, NEW res \in results, Receive(t, res)
       PROVE  SourcesRight'
  <2>1. PICK r \in Task : /\ Become(t, r) /\ r.pc = "handle" /\ r.sum = res.sum
                          /\ r.source = res.source /\ r.unacked = {res}
    BY <1>17, Starts
  <2>2. results' \subseteq results /\ requests' = requests
    BY <1>17 DEF Receive
  <2>3. Sends(r) /\ Queues
    BY <1>2, <2>1, <2>2
  <2> HIDE DEF Sends, Queues
  <2> QED
    BY <1>5, <2>1, <2>3
<1>18. ASSUME NEW req \in requests, AgentAnswers(req)
       PROVE  SourcesRight'
  <2>1. PICK ok \in BOOLEAN :
          results' = results \cup {[sum |-> req.sum, source |-> req.source, ok |-> ok]}
    BY <1>18 DEF AgentAnswers
  <2>2. requests' \subseteq requests /\ task' = task
    BY <1>18 DEF AgentAnswers
  <2>3. Queues
    BY <1>2, <2>1, <2>2
  <2>4. \A u \in Tasks : Sends(task'[u])
    BY <1>1, <2>2
  <2> HIDE DEF Sends, Queues
  <2> QED
    BY <1>3, <2>3, <2>4
<1>19. CASE Crash
  <2>1. /\ \A u \in Tasks : task'[u].pc = "idle" /\ task'[u].unacked = {}
        /\ requests' = requests
        /\ results' = results \cup UNION {task[u].unacked : u \in Tasks}
    BY <1>19 DEF Crash, Idle
  <2>2. Queues
    BY <1>1, <1>2, <2>1
  <2>3. \A u \in Tasks : Sends(task'[u])
    BY <2>1
  <2> HIDE DEF Sends, Queues
  <2> QED
    BY <1>3, <2>2, <2>3
<1> HIDE DEF Sends, Queues
<1> QED
  BY <1>7, <1>8, <1>10, <1>11, <1>12, <1>13, <1>14, <1>15, <1>16, <1>17, <1>18, <1>19,
     NextByCarriers

\* Recaps are written by completions, from what was sent.
LEMMA StepRecaps ==
  ASSUME TypeInv, TypeInv', ClaimInv, FlightInv, Exact, [Next]_vars
  PROVE  RecapsRight'
<1> USE NoSummaryAssumption DEF chatVars, summaryVars, queueVars
<1>0. OneCarrier /\ Undecided /\ SourcesRight /\ RecapsRight
  BY DEF FlightInv
<1>1. Calm' = Calm
  BY FaultsStay DEF Calm
<1>2. \A s \in Summaries : status[s] = "completed" => status'[s] = "completed"
  BY <1>0, CompletedStays
<1>3. unsent' \subseteq unsent /\ exists' \subseteq exists \cup unsent
  BY RowsShrink
<1>4. \A m \in archived : /\ m \in exists /\ summaryOf[m] \in Summaries
                          /\ status[summaryOf[m]] = "completed" /\ m \in recap[summaryOf[m]]
  BY <1>0 DEF RecapsRight, ClaimInv, RowsAgree, TypeInv, TypeOK
<1>5. ASSUME recap' = recap, archived' \subseteq archived,
             \A m \in archived' : summaryOf'[m] = summaryOf[m],
             archived \cap exists' \subseteq archived',
             \A s \in Summaries : status'[s] = "completed" => status[s] = "completed"
      PROVE  RecapsRight'
  <2>1. \A s \in Summaries : recap'[s] \cap unsent' = {}
    BY <1>0, <1>3, <1>5 DEF RecapsRight
  <2>2. \A m \in archived' : status'[summaryOf'[m]] = "completed" /\ m \in recap'[summaryOf'[m]]
    BY <1>2, <1>4, <1>5
  <2>3. ASSUME Calm, NEW s \in Summaries, status'[s] = "completed", NEW m \in recap'[s] \cap exists'
        PROVE  m \in archived' /\ summaryOf'[m] = s
    <3>1. m \in exists
      BY <1>0, <1>3, <1>5, <2>3 DEF RecapsRight
    <3>2. m \in archived /\ summaryOf[m] = s
      BY <1>0, <1>5, <2>3, <3>1 DEF RecapsRight, WithStatus
    <3> QED
      BY <1>5, <2>3, <3>2
  <2> QED
    BY <1>1, <2>1, <2>2, <2>3 DEF RecapsRight, WithStatus
<1>6. ASSUME NEW m \in Messages, NewMessage(m) \/ DeleteMessage(m)
      PROVE  RecapsRight'
  BY <1>4, <1>5, <1>6 DEF NewMessage, DeleteMessage, TypeInv, TypeOK
<1>7. ASSUME NEW S \in SUBSET Summaries, UNCHANGED <<unsent, exists, archived, recap>>,
             summaryOf' = Released(S),
             status' = [s \in Summaries |-> IF s \in S THEN "failed" ELSE status[s]]
      PROVE  RecapsRight'
  <2>1. \A m \in archived' : summaryOf'[m] = summaryOf[m]
    BY <1>7 DEF Released, TypeInv, TypeOK
  <2> QED
    BY <1>5, <1>7, <2>1
<1>8. ASSUME NEW t \in Tasks, NEW S \in SUBSET Pending, NEW next, ExpireStale(t, S, next)
      PROVE  RecapsRight'
  BY <1>7, <1>8 DEF ExpireStale, Pending, WithStatus
<1>9. ASSUME NEW t \in Tasks, RefuseDispatch(t) \/ FailResult(t)
      PROVE  RecapsRight'
  <2>1. {task[t].sum} \subseteq Summaries
    BY <1>9 DEF RefuseDispatch, FailResult, TypeInv, HoldsSummary, HoldingPcs
  <2>2. status' = [s \in Summaries |-> IF s \in {task[t].sum} THEN "failed" ELSE status[s]]
    BY <1>9 DEF RefuseDispatch, FailResult, TypeInv, TypeOK
  <2>3. summaryOf' = Released({task[t].sum}) /\ UNCHANGED <<unsent, exists, archived, recap>>
    BY <1>9 DEF RefuseDispatch, FailResult
  <2> QED
    BY <1>7, <2>1, <2>2, <2>3
<1>10. ASSUME NEW t \in Tasks, Claim(t)
       PROVE  RecapsRight'
  <2>1. \A m \in archived : summaryOf'[m] = summaryOf[m]
    <3>1. \A c \in task[t].chapters : \A m \in c : Free(m)
      BY <1>10 DEF Claim, Claimable
    <3>2. \A m \in Messages : (\A c \in task[t].chapters : m \notin c) => summaryOf'[m] = summaryOf[m]
      BY <1>10 DEF Claim
    <3> QED
      BY <3>1, <3>2 DEF Free, TypeInv, TypeOK
  <2>2. \A s \in Summaries : status'[s] = "completed" => status[s] = "completed"
    BY <1>10 DEF Claim
  <2> QED
    BY <1>5, <1>10, <2>1, <2>2 DEF Claim
<1>11. ASSUME NEW t \in Tasks, DispatchCommit(t)
       PROVE  RecapsRight'
  BY <1>5, <1>11 DEF DispatchCommit, TypeInv, TypeOK
<1>12. ASSUME NEW t \in Tasks, Complete(t)
       PROVE  RecapsRight'
  <2> DEFINE s == task[t].sum
             W == task[t].source
  <2>1. /\ s \in Summaries /\ status[s] # "completed" /\ (Calm => status[s] = "pending")
        /\ SentRight(s, W)
    BY <1>0, <1>12 DEF Complete, Undecided, SourcesRight, TypeInv, HoldsSummary, HoldingPcs
  <2>2. /\ status' = [status EXCEPT ![s] = "completed"]
        /\ recap' = [recap EXCEPT ![s] = W]
        /\ archived' = archived \cup HeldBy(s)
        /\ UNCHANGED <<unsent, exists, summaryOf>>
    BY <1>12 DEF Complete, ArchivedBy, HeldBy
  <2> HIDE DEF s, W
  <2>3. /\ status'[s] = "completed" /\ recap'[s] = W
        /\ \A r \in Summaries \ {s} : status'[r] = status[r] /\ recap'[r] = recap[r]
    BY <2>1, <2>2 DEF TypeInv, TypeOK
  <2>4. \A m \in HeldBy(s) : m \in exists /\ summaryOf[m] = s /\ m \in W
    BY <2>1 DEF HeldBy, SentRight
  <2>5. \A m \in archived : summaryOf[m] # s
    BY <1>4, <2>1
  <2>6. \A r \in Summaries : recap'[r] \cap unsent' = {}
    BY <1>0, <2>1, <2>2, <2>3 DEF RecapsRight, SentRight
  <2>7. ASSUME NEW m \in archived'
        PROVE  status'[summaryOf'[m]] = "completed" /\ m \in recap'[summaryOf'[m]]
    <3>1. CASE m \in HeldBy(s)
      BY <2>2, <2>3, <2>4, <3>1
    <3>2. CASE m \in archived
      BY <1>4, <2>2, <2>3, <2>5, <3>2
    <3> QED
      BY <2>2, <3>1, <3>2
  <2>8. ASSUME Calm, NEW r \in Summaries, status'[r] = "completed", NEW m \in recap'[r] \cap exists'
        PROVE  m \in archived' /\ summaryOf'[m] = r
    <3>1. CASE r = s
      <4>1. m \in HeldBy(s)
        BY <2>1, <2>2, <2>3, <2>8, <3>1 DEF SentRight
      <4> QED
        BY <2>2, <2>4, <3>1, <4>1
    <3>2. CASE r # s
      BY <1>0, <2>2, <2>3, <2>8, <3>2 DEF RecapsRight, WithStatus
    <3> QED
      BY <3>1, <3>2
  <2> QED
    BY <1>1, <2>6, <2>7, <2>8 DEF RecapsRight, WithStatus
<1>13. CASE UNCHANGED <<unsent, exists, summaryOf, archived, status, recap>>
  BY <1>5, <1>13
<1> QED
  BY <1>6, <1>8, <1>9, <1>10, <1>11, <1>12, <1>13, RowSteps DEF StatusStep

LEMMA InitFlightInv == Init => FlightInv
<1> SUFFICES ASSUME Init PROVE FlightInv
  OBVIOUS
<1>1. OneCarrier /\ Undecided /\ EditsOfCompleted
  BY DEF Init, OneCarrier, Carries, Undecided, EditsOfCompleted, Idle
<1>2. SourcesRight /\ RecapsRight
  BY DEF Init, SourcesRight, RecapsRight, WithStatus, Idle
<1> QED
  BY <1>1, <1>2 DEF FlightInv

LEMMA StepFlightInv == TypeInv /\ ClaimInv /\ FlightInv /\ [Next]_vars => FlightInv'
<1> SUFFICES ASSUME TypeInv, ClaimInv, FlightInv, [Next]_vars, Exact
             PROVE  (OneCarrier /\ Undecided /\ EditsOfCompleted /\ SourcesRight /\ RecapsRight)'
  BY FaultsStay DEF FlightInv, Exact
<1>1. TypeInv'
  BY StepTypeInv
<1>2. OneCarrier /\ Undecided /\ EditsOfCompleted /\ SourcesRight /\ RecapsRight
  BY DEF FlightInv
<1> QED
  BY <1>1, <1>2, StepOneCarrier, StepUndecided, StepEdits, StepSources, StepRecaps

\* The three invariants together.
ServiceInv == TypeInv /\ ClaimInv /\ FlightInv

LEMMA ServiceCorrect == Spec => []ServiceInv
<1>1. Init => ServiceInv
  BY InitTypeInv, InitClaimInv, InitFlightInv DEF ServiceInv
<1>2. ServiceInv /\ [Next]_vars => ServiceInv'
  BY StepTypeInv, StepClaimInv, StepFlightInv DEF ServiceInv
<1> QED
  BY <1>1, <1>2, PTL DEF Spec

\* A summary in flight is carried by one handler, request or result, its
\* outcome is decided once, and its recap will tell what it holds, for any
\* number of handlers that crash or raise, unless a publish is misjudged or a
\* delivery doubled.
THEOREM FlightsCorrect == Spec => []FlightInv
<1>1. ServiceInv => FlightInv
  BY DEF ServiceInv
<1> QED
  BY <1>1, ServiceCorrect, PTL

\* Nothing is lost from the prompt, and nothing told twice (the messages that
\* are not archived and the recaps _load_history inserts).
THEOREM RecapsAlwaysTellOnce == Spec => []RecapsTellOnce
<1>1. ASSUME ServiceInv
      PROVE  NothingLost
  <2> SUFFICES ASSUME Exact, NEW m \in exists \cap archived
               PROVE  summaryOf[m] \in InRecap(m)
    BY DEF NothingLost, Exact
  <2>1. RecapsRight /\ summaryOf[m] \in Summaries
    BY <1>1 DEF ServiceInv, FlightInv, ClaimInv, RowsAgree, TypeInv, TypeOK
  <2> QED
    BY <2>1 DEF RecapsRight, InRecap, WithStatus
<1>2. ASSUME ServiceInv
      PROVE  NothingTwice
  <2> SUFFICES ASSUME Calm, NEW m \in exists
               PROVE  /\ m \notin archived => InRecap(m) = {}
                      /\ Cardinality(InRecap(m)) <= 1
    BY DEF NothingTwice
  <2>1. Exact
    BY DEF Calm, Exact
  <2>2. \A s \in InRecap(m) : m \in archived /\ s = summaryOf[m]
    BY <1>1, <1>2, <2>1 DEF ServiceInv, FlightInv, RecapsRight, InRecap
  <2>3. CASE InRecap(m) = {}
    BY <2>3, FS_EmptySet
  <2>4. CASE InRecap(m) # {}
    <3>1. InRecap(m) = {summaryOf[m]}
      BY <2>2, <2>4
    <3>2. Cardinality({summaryOf[m]}) = 1
      BY FS_Singleton
    <3> QED
      BY <2>2, <3>1, <3>2
  <2> QED
    BY <2>3, <2>4
<1>3. ServiceInv => RecapsTellOnce
  BY <1>1, <1>2 DEF RecapsTellOnce
<1> QED
  BY <1>3, ServiceCorrect, PTL

\* A result never overwrites the text a user gave a finished summary
\* (update_content, complete), even when timeouts fire under handlers, handlers
\* raise and the backend dies.
THEOREM EditsAlwaysSurvive == Spec => EditsSurvive
<1>1. ServiceInv /\ [Next]_vars =>
        [{"confirm", "redeliver"} \cap faults = {} => edited \subseteq edited']_vars
  BY StepEdits DEF ServiceInv, FlightInv, Exact
<1> QED
  BY <1>1, ServiceCorrect, PTL DEF Spec, EditsSurvive

-----------------------------------------------------------------------------
(* Every step is a step of the ledger, or none.                            *)

\* The phase of a summary follows its status.
PhaseFrom(st) ==
  IF st = "absent" THEN "new" ELSE IF st \in Active THEN "open"
  ELSE IF st = "completed" THEN "kept" ELSE "dropped"

LEMMA PhaseOf ==
  ASSUME TypeInv
  PROVE  LedgerPhase = [s \in Summaries |-> PhaseFrom(status[s])]
<1>1. \A s \in Summaries : \/ status[s] = "absent" \/ status[s] \in Active
                          \/ status[s] = "completed" \/ status[s] = "failed"
  BY DEF TypeInv, TypeOK, Statuses, Active
<1> QED
  BY <1>1 DEF LedgerPhase, PhaseFrom, Active

LEMMA PhaseNext ==
  ASSUME TypeInv'
  PROVE  LedgerPhase' = [s \in Summaries |-> PhaseFrom(status'[s])]
<1>1. \A s \in Summaries : \/ status'[s] = "absent" \/ status'[s] \in Active
                          \/ status'[s] = "completed" \/ status'[s] = "failed"
  BY DEF TypeInv, TypeOK, Statuses, Active
<1> QED
  BY <1>1 DEF LedgerPhase, PhaseFrom, Active

LEMMA LedgerInit == Init => Ledger!Init
BY DEF Init, Ledger!Init, LedgerPhase, Active

\* Failing PENDING summaries is giving them up.
LEMMA FailGivesUp ==
  ASSUME TypeInv, TypeInv', ClaimInv, NEW S \in SUBSET Pending, S # {},
         status' = [s \in Summaries |-> IF s \in S THEN "failed" ELSE status[s]],
         summaryOf' = Released(S), UNCHANGED <<unsent, exists, archived, recap>>
  PROVE  Ledger!GiveUp(S)
<1>1. S \subseteq Summaries /\ \A s \in S : status[s] = "pending"
  BY DEF Pending, WithStatus
<1>2. \A s \in S : LedgerPhase[s] = "open"
  BY <1>1, PhaseOf DEF PhaseFrom, Active
<1>3. LedgerPhase' = [s \in Summaries |-> IF s \in S THEN "dropped" ELSE LedgerPhase[s]]
  BY <1>1, PhaseOf, PhaseNext DEF PhaseFrom, Active
<1>4. summaryOf' = [m \in Messages |-> IF summaryOf[m] \in S THEN NoSummary ELSE summaryOf[m]]
  <2>1. \A m \in archived : summaryOf[m] \notin S
    BY <1>1 DEF ClaimInv, RowsAgree, Terminal, TypeInv, TypeOK
  <2> QED
    BY <2>1 DEF Released, TypeInv, TypeOK
<1> QED
  BY <1>2, <1>3, <1>4 DEF Ledger!GiveUp

\* A claim opens a summary per chapter.
LEMMA ClaimOpens ==
  ASSUME TypeInv, TypeInv', NEW t \in Tasks, Claim(t)
  PROVE  UNCHANGED Ledger!vars \/ Ledger!Next
<1> DEFINE C == task[t].chapters
<1>1. PICK row \in [C -> WithStatus("absent")] :
        /\ \A c, d \in C : c # d => row[c] # row[d]
        /\ status' = [s \in Summaries |->
                     IF \E c \in C : row[c] = s THEN "queued" ELSE status[s]]
        /\ summaryOf' = [m \in Messages |->
                     IF \E c \in C : m \in c
                     THEN row[CHOOSE c \in C : m \in c] ELSE summaryOf[m]]
  BY DEF Claim
<1>2. /\ \A c \in C : c \subseteq exists /\ \A m \in c : Free(m)
      /\ \A c, d \in C : c # d => c \cap d = {}
  BY DEF Claim, Claimable
<1>3. UNCHANGED <<unsent, exists, archived, recap>>
  BY DEF Claim, chatVars
<1> HIDE DEF C
<1> DEFINE S == {s \in Summaries : \E c \in C : row[c] = s}
           chapter == [s \in S |-> CHOOSE c \in C : row[c] = s]
<1>4. \A c \in C : row[c] \in Summaries /\ status[row[c]] = "absent"
  BY <1>1 DEF WithStatus
<1>5. \A s \in S : chapter[s] \in C /\ row[chapter[s]] = s
  OBVIOUS
<1>6. \A c \in C : row[c] \in S /\ chapter[row[c]] = c
  BY <1>1, <1>4, <1>5
<1>7. LedgerPhase' = [s \in Summaries |-> IF s \in S THEN "open" ELSE LedgerPhase[s]]
  BY <1>1, PhaseOf, PhaseNext DEF PhaseFrom, Active
<1>8. \A s \in S : LedgerPhase[s] = "new"
  BY <1>4, PhaseOf DEF PhaseFrom
<1>9. CASE S = {}
  <2>1. C = {}
    BY <1>6, <1>9
  <2>2. summaryOf' = summaryOf
    BY <1>1, <2>1 DEF TypeInv, TypeOK
  <2>3. LedgerPhase' = LedgerPhase
    BY <1>7, <1>9, PhaseOf
  <2> QED
    BY <1>3, <2>2, <2>3 DEF Ledger!vars
<1>10. CASE S # {}
  <2>1. chapter \in [S -> SUBSET Ledger!FreeMessages]
    BY <1>2, <1>5 DEF Free, Ledger!FreeMessages
  <2>2. \A s, r \in S : s # r => chapter[s] \cap chapter[r] = {}
    BY <1>2, <1>5
  <2>3. ASSUME NEW m \in Messages
        PROVE  summaryOf'[m] = IF \E s \in S : m \in chapter[s]
                               THEN CHOOSE s \in S : m \in chapter[s] ELSE summaryOf[m]
    <3>1. CASE \E c \in C : m \in c
      <4>1. PICK c \in C : m \in c
        BY <3>1
      <4>2. (CHOOSE d \in C : m \in d) = c
        BY <1>2, <4>1
      <4>3. \A s \in S : m \in chapter[s] => s = row[c]
        BY <1>2, <1>5, <4>1
      <4>4. row[c] \in S /\ m \in chapter[row[c]]
        BY <1>6, <4>1
      <4>5. (CHOOSE s \in S : m \in chapter[s]) = row[c]
        BY <4>3, <4>4
      <4> QED
        BY <1>1, <3>1, <4>2, <4>4, <4>5
    <3>2. CASE \A c \in C : m \notin c
      BY <1>1, <1>5, <3>2
    <3> QED
      BY <3>1, <3>2
  <2>4. summaryOf' = [m \in Messages |-> IF \E s \in S : m \in chapter[s]
                        THEN CHOOSE s \in S : m \in chapter[s] ELSE summaryOf[m]]
    BY <1>1, <2>3
  <2> HIDE DEF S, chapter
  <2>5. Ledger!Open(S)
    BY <1>3, <1>7, <1>8, <1>10, <2>1, <2>2, <2>4 DEF Ledger!Open
  <2>6. S \in SUBSET Summaries
    BY DEF S
  <2> QED
    BY <2>5, <2>6 DEF Ledger!Next
<1> QED
  BY <1>9, <1>10

\* Completing a PENDING summary seals what it holds, and tells it.
LEMMA CompleteSeals ==
  ASSUME ServiceInv, TypeInv', Calm, NEW t \in Tasks, Complete(t)
  PROVE  Ledger!Next
<1> DEFINE s == task[t].sum
           W == task[t].source
<1>1. TypeInv /\ Exact /\ Undecided /\ SourcesRight
  BY DEF ServiceInv, FlightInv, Calm, Exact
<1>2. s \in Summaries /\ status[s] = "pending" /\ SentRight(s, W)
  BY <1>1 DEF Complete, Undecided, SourcesRight, TypeInv, HoldsSummary, HoldingPcs
<1>3. W \subseteq Messages
  BY <1>1 DEF TypeInv, TypeOK, Task
<1>4. /\ status' = [status EXCEPT ![s] = "completed"]
      /\ recap' = [recap EXCEPT ![s] = W]
      /\ archived' = archived \cup HeldBy(s)
      /\ UNCHANGED <<unsent, exists, summaryOf>>
  BY DEF Complete, ArchivedBy, HeldBy, chatVars
<1> HIDE DEF s, W
<1>5. LedgerPhase[s] = "open"
  BY <1>1, <1>2, PhaseOf DEF PhaseFrom, Active
<1>6. LedgerPhase' = [LedgerPhase EXCEPT ![s] = "kept"]
  BY <1>1, <1>2, <1>4, PhaseOf, PhaseNext DEF PhaseFrom, Active, TypeInv, TypeOK
<1>7. HeldBy(s) = Ledger!HeldBy(s)
  BY DEF HeldBy, Ledger!HeldBy
<1>8. W \in SUBSET (Messages \ unsent) /\ W \cap exists = HeldBy(s)
  BY <1>2, <1>3 DEF SentRight, HeldBy
<1>9. Ledger!Seal(s)
  BY <1>4, <1>5, <1>6, <1>7, <1>8 DEF Ledger!Seal
<1> QED
  BY <1>2, <1>9 DEF Ledger!Next

LEMMA LedgerStep ==
  ASSUME ServiceInv, Calm, [Next]_vars
  PROVE  UNCHANGED Ledger!vars \/ Ledger!Next
<1>0. TypeInv /\ TypeInv' /\ ClaimInv /\ Exact /\ Undecided
  BY StepTypeInv DEF ServiceInv, FlightInv, Calm, Exact
<1>1. ASSUME NEW m \in Messages, NewMessage(m)
      PROVE  Ledger!Next
  <2>1. Ledger!Write(m)
    BY <1>1 DEF NewMessage, Ledger!Write, LedgerPhase, summaryVars
  <2> QED
    BY <2>1 DEF Ledger!Next
<1>2. ASSUME NEW m \in Messages, DeleteMessage(m)
      PROVE  Ledger!Next
  <2>1. Ledger!Delete(m)
    BY <1>2 DEF DeleteMessage, Ledger!Delete, LedgerPhase, summaryVars
  <2> QED
    BY <2>1 DEF Ledger!Next
<1>3. ASSUME NEW t \in Tasks, NEW S \in SUBSET Pending, NEW next, ExpireStale(t, S, next)
      PROVE  Ledger!Next
  <2>1. Ledger!GiveUp(S)
    BY <1>0, <1>3, FailGivesUp DEF ExpireStale, chatVars, summaryVars
  <2>2. S \in SUBSET Summaries
    BY DEF Pending, WithStatus
  <2> QED
    BY <2>1, <2>2 DEF Ledger!Next
<1>4. ASSUME NEW t \in Tasks, RefuseDispatch(t) \/ FailResult(t)
      PROVE  Ledger!Next
  <2> DEFINE S == {task[t].sum}
  <2>1. S \in SUBSET Pending /\ S # {}
    BY <1>0, <1>4 DEF RefuseDispatch, FailResult, Undecided, Pending, WithStatus, TypeInv,
         HoldsSummary, HoldingPcs
  <2>2. status' = [s \in Summaries |-> IF s \in S THEN "failed" ELSE status[s]]
    BY <1>0, <1>4 DEF RefuseDispatch, FailResult, TypeInv, TypeOK
  <2>3. summaryOf' = Released(S) /\ UNCHANGED <<unsent, exists, archived, recap>>
    BY <1>4 DEF RefuseDispatch, FailResult, chatVars, summaryVars
  <2> HIDE DEF S
  <2>4. Ledger!GiveUp(S) /\ S \in SUBSET Summaries
    BY <1>0, <2>1, <2>2, <2>3, FailGivesUp DEF Pending, WithStatus
  <2> QED
    BY <2>4 DEF Ledger!Next
<1>5. ASSUME NEW t \in Tasks, DispatchCommit(t)
      PROVE  UNCHANGED Ledger!vars
  <2>1. status[task[t].sum] = "queued" /\ task[t].sum \in Summaries
    BY <1>0, <1>5 DEF DispatchCommit, ClaimInv, LocksHeld, TypeInv, HoldsSummary, HoldingPcs
  <2>2. LedgerPhase' = LedgerPhase
    BY <1>0, <1>5, <2>1, PhaseOf, PhaseNext DEF DispatchCommit, PhaseFrom, Active, TypeInv, TypeOK
  <2> QED
    BY <1>5, <2>2 DEF DispatchCommit, Ledger!vars, chatVars, summaryVars
<1>6. CASE UNCHANGED <<unsent, exists, summaryOf, archived, status, recap>>
  BY <1>6 DEF Ledger!vars, LedgerPhase
<1>7. ASSUME NEW t \in Tasks, Claim(t)
      PROVE  UNCHANGED Ledger!vars \/ Ledger!Next
  BY <1>0, <1>7, ClaimOpens
<1>8. ASSUME NEW t \in Tasks, Complete(t)
      PROVE  Ledger!Next
  BY <1>0, <1>8, CompleteSeals
<1> QED
  BY <1>1, <1>2, <1>3, <1>4, <1>5, <1>6, <1>7, <1>8, RowSteps DEF StatusStep

\* The service keeps the promise of ChapterLedger while backends crash and
\* handlers raise: every step is one step of the ledger or none.
THEOREM LedgerKept == Spec => KeepsLedger
<1>1. ServiceInv /\ [Next]_vars => [Calm => UNCHANGED Ledger!vars \/ Ledger!Next]_vars
  BY LedgerStep
<1>2. Init => Ledger!Init
  BY LedgerInit
<1> QED
  BY <1>1, <1>2, ServiceCorrect, PTL DEF Spec, KeepsLedger

\* So, where only crashes and exceptions go wrong, the service implements
\* ChapterLedger.
THEOREM ImplementsLedger == Spec /\ Calm => Ledger!Spec
<1>1. ServiceInv /\ Calm /\ [Next]_vars => [Ledger!Next]_Ledger!vars
  BY LedgerStep
<1>2. Calm /\ [Next]_vars => Calm'
  BY FaultsStay DEF Calm
<1>3. Init => Ledger!Init
  BY LedgerInit
<1> QED
  BY <1>1, <1>2, <1>3, ServiceCorrect, PTL DEF Spec, Ledger!Spec

-----------------------------------------------------------------------------
(* The queue of the chat.                                                  *)

\* Nobody crashes, raises or gets a delivery twice.
Steady == faults \subseteq {"confirm", "overlap"}

\* A handler that is going to dispatch.
Driving(u) == task[u].pc \in {"pump", "locked"}

\* A handler stops driving only where it finds nothing to dispatch, or
\* dispatches.
LEMMA DriverStays ==
  ASSUME TypeInv, Steady, [Next]_vars, NEW u \in Tasks, Driving(u), ~Driving(u)'
  PROVE  (DispatchSelect(u) /\ Dispatchable = {}) \/ DispatchCommit(u)
<1>0. u \in Tasks /\ task[u].pc \in {"pump", "locked"} /\ task'[u].pc \notin {"pump", "locked"}
  BY DEF Driving
<1>1. ASSUME NEW t \in Tasks, NEW r, Become(t, r)
      PROVE  t = u
  BY <1>0, <1>1 DEF Become, TypeInv, TypeOK
<1>2. ASSUME NEW t \in Tasks, Resting(t)
      PROVE  t = u
  BY <1>1, <1>2, RestingRests
<1>3. ASSUME NEW t \in Tasks, Resting(t)
      PROVE  DispatchSelect(u) /\ Dispatchable = {}
  <2>1. t = u
    BY <1>2, <1>3
  <2>2. DispatchSelect(u)
    BY <1>0, <1>3, <2>1 DEF Resting, Poll, Summarize, PlanChosen, Claim, ClaimStale, EditWrite,
         RefuseDispatch, Complete, FailResult, Abort, HandleResult, Steady
  <2>3. ASSUME NEW s \in Dispatchable,
               Become(u, [ToPump(u) EXCEPT !.pc = "locked", !.sum = s])
        PROVE  FALSE
    <3> DEFINE r == [ToPump(u) EXCEPT !.pc = "locked", !.sum = s]
    <3>1. r.pc = "locked"
      BY DEF ToPump, Idle
    <3>2. task'[u] = r
      BY <2>3 DEF Become, TypeInv, TypeOK
    <3> QED
      BY <1>0, <3>1, <3>2
  <2> QED
    BY <2>2, <2>3 DEF DispatchSelect
<1>4. ASSUME NEW t \in Tasks, DispatchCommit(t)
      PROVE  DispatchCommit(u)
  BY <1>1, <1>4 DEF DispatchCommit
<1>5. ASSUME NEW t \in Tasks, \/ Build(t) \/ SubmitPublished(t) \/ SubmitFailed(t) \/ SubmitInline(t)
                              \/ HandleResult(t) /\ status[task[t].sum] = "pending"
      PROVE  FALSE
  <2>1. task[t].pc \notin {"pump", "locked"}
    BY <1>5 DEF Build, SubmitFailed, SubmitInline, SubmitPublished, HandleResult
  <2>2. \E r : Become(t, r)
    BY <1>5, GoesOn DEF SubmitPublished
  <2> QED
    BY <1>0, <1>1, <2>1, <2>2
<1>6. ASSUME NEW t \in Tasks, NEW s \in Summaries, EditCheck(t, s)
      PROVE  FALSE
  BY <1>0, <1>1, <1>6 DEF EditCheck
<1>7. ASSUME NEW t \in Tasks, NEW res \in results, Receive(t, res)
      PROVE  FALSE
  BY <1>0, <1>1, <1>7 DEF Receive
<1>8. ~Crash /\ task' # task /\ \A req \in requests : ~AgentAnswers(req)
  BY <1>0 DEF Crash, AgentAnswers, Steady
<1> QED
  BY <1>3, <1>4, <1>5, <1>6, <1>7, <1>8, NextByCarriers

\* Every step that writes a status leaves a driver, or a PENDING summary, or
\* nothing QUEUED that was not before.
LEMMA StepDriver ==
  ASSUME TypeInv, Steady, QueueHasDriver, [Next]_vars
  PROVE  QueueHasDriver'
<1> SUFFICES ASSUME Queued' # {}, Pending' = {}
             PROVE  \E u \in Tasks : Driving(u)'
  BY DEF QueueHasDriver, Driving
<1>1. ASSUME NEW t \in Tasks, NEW r, Become(t, r), r.pc = "pump"
      PROVE  \E u \in Tasks : Driving(u)'
  BY <1>1 DEF Become, Driving, TypeInv, TypeOK
<1>2. ASSUME NEW t \in Tasks, NEW S, NEW next \in {"idle", "plan"}, ExpireStale(t, S, next)
      PROVE  \E u \in Tasks : Driving(u)'
  <2> DEFINE r == [Idle EXCEPT !.pc = "pump", !.next = next]
  <2>1. r.pc = "pump" /\ Become(t, r)
    BY <1>2 DEF ExpireStale, Idle
  <2> HIDE DEF r
  <2> QED
    BY <1>1, <2>1
<1>3. ASSUME NEW t \in Tasks, Claim(t) \/ RefuseDispatch(t) \/ Complete(t) \/ FailResult(t)
      PROVE  \E u \in Tasks : Driving(u)'
  <2>1. Become(t, ToPump(t)) /\ ToPump(t).pc = "pump"
    BY <1>3 DEF Claim, RefuseDispatch, Complete, FailResult, ToPump, Idle
  <2> QED
    BY <1>1, <2>1
<1>4. ASSUME NEW t \in Tasks, DispatchCommit(t)
      PROVE  FALSE
  BY <1>4 DEF DispatchCommit, Pending, WithStatus, TypeInv, TypeOK, HoldsSummary, HoldingPcs
<1>5. CASE status' = status
  <2>1. Queued # {} /\ Pending = {}
    BY <1>5 DEF Queued, Pending, WithStatus
  <2>2. PICK u \in Tasks : Driving(u)
    BY <2>1 DEF QueueHasDriver, Driving, Steady
  <2>3. CASE Driving(u)'
    BY <2>3
  <2>4. CASE ~Driving(u)'
    <3>1. DispatchSelect(u) /\ Dispatchable = {}
      BY <1>4, <2>2, <2>4, DriverStays
    <3>2. PICK v \in Tasks : task[v].pc = "locked"
      BY <2>1, <3>1 DEF Dispatchable, Locked
    <3>3. v # u
      BY <3>1, <3>2 DEF DispatchSelect
    <3>4. task'[v] = task[v]
      BY <3>1, <3>3 DEF DispatchSelect, Become, TypeInv, TypeOK
    <3> QED
      BY <3>2, <3>4 DEF Driving
  <2> QED
    BY <2>3, <2>4
<1> QED
  BY <1>2, <1>3, <1>4, <1>5, StatusSteps DEF StatusStep

\* Somebody is going to do something about a PENDING summary.
Owned(s) ==
  \/ \E t \in Tasks : /\ task[t].sum = s
                      /\ task[t].pc \in {"build", "submit", "refuse", "handle", "write"}
  \/ \E req \in requests : req.sum = s
  \/ \E res \in results : res.sum = s

LEMMA StepOwner ==
  ASSUME TypeInv, Steady, PendingHasOwner, [Next]_vars
  PROVE  PendingHasOwner'
<1> SUFFICES ASSUME NEW s \in Summaries, status'[s] = "pending"
             PROVE  Owned(s)'
  BY DEF PendingHasOwner, Pending, WithStatus, Owned
<1>1. ASSUME NEW t \in Tasks, DispatchCommit(t)
      PROVE  status[s] = "pending" \/ s = task[t].sum
  BY <1>1 DEF DispatchCommit, TypeInv, TypeOK
<1>2. status[s] = "pending" \/ \E t \in Tasks : DispatchCommit(t) /\ s = task[t].sum
  <2>1. ASSUME NEW t \in Tasks, NEW S \in SUBSET Pending, NEW next, ExpireStale(t, S, next)
        PROVE  status[s] = "pending"
    BY <2>1 DEF ExpireStale
  <2>2. ASSUME NEW t \in Tasks, Claim(t)
        PROVE  status[s] = "pending"
    BY <2>2 DEF Claim
  <2>3. ASSUME NEW t \in Tasks, RefuseDispatch(t) \/ Complete(t) \/ FailResult(t)
        PROVE  status[s] = "pending"
    BY <2>3 DEF RefuseDispatch, Complete, FailResult, TypeInv, TypeOK
  <2> QED
    BY <1>1, <2>1, <2>2, <2>3, StatusSteps DEF StatusStep
<1>3. ASSUME NEW t \in Tasks, NEW r, Become(t, r), r.sum = s,
             r.pc \in {"build", "submit", "refuse", "handle", "write"}
      PROVE  Owned(s)'
  BY <1>3 DEF Become, Owned, TypeInv, TypeOK
<1>4. ASSUME NEW t \in Tasks, DispatchCommit(t), s = task[t].sum
      PROVE  Owned(s)'
  <2>1. \E r \in Task : Become(t, r) /\ r.sum = s /\ r.pc = "build"
    BY <1>4, GoesOn
  <2> QED
    BY <1>3, <2>1
<1>5. CASE status[s] = "pending"
  <2>0. Owned(s)
    BY <1>5 DEF PendingHasOwner, Pending, WithStatus, Owned, Steady
  <2>1. ASSUME NEW t \in Tasks, NEW r, Become(t, r), UNCHANGED queueVars,
               ~(task[t].sum = s /\ task[t].pc \in {"build", "submit", "refuse", "handle", "write"})
        PROVE  Owned(s)'
    BY <2>0, <2>1 DEF Become, Owned, queueVars, TypeInv, TypeOK
  <2>2. CASE UNCHANGED <<task, queueVars>>
    BY <2>0, <2>2 DEF Owned, queueVars
  <2>3. ASSUME NEW t \in Tasks, Resting(t)
        PROVE  Owned(s)'
    <3>1. ~(task[t].sum = s /\ task[t].pc \in {"build", "submit", "refuse", "handle", "write"})
      <4>1. ASSUME RefuseDispatch(t) \/ Complete(t) \/ FailResult(t), task[t].sum = s
            PROVE  FALSE
        BY <4>1 DEF RefuseDispatch, Complete, FailResult, TypeInv, TypeOK
      <4> QED
        BY <1>5, <2>3, <4>1 DEF Resting, Poll, Summarize, PlanChosen, Claim, ClaimStale, EditWrite,
           DispatchSelect, RefuseDispatch, Complete, FailResult, Abort, HandleResult, Steady
    <3> QED
      BY <2>1, <2>3, <3>1, RestingRests
  <2>4. ASSUME NEW t \in Tasks, DispatchCommit(t)
        PROVE  Owned(s)'
    <3>1. task[t].pc = "locked" /\ UNCHANGED queueVars
      BY <2>4 DEF DispatchCommit
    <3> QED
      BY <2>1, <2>4, <3>1, GoesOn
  <2>5. ASSUME NEW t \in Tasks, \/ Build(t) \/ SubmitFailed(t) \/ SubmitInline(t)
                                \/ HandleResult(t) /\ status[task[t].sum] = "pending"
        PROVE  Owned(s)'
    <3>1. PICK r \in Task : /\ Become(t, r) /\ r.sum = task[t].sum
                            /\ r.pc \in {"submit", "refuse", "handle", "write"}
      BY <2>5, GoesOn
    <3>2. CASE task[t].sum = s
      BY <1>3, <3>1, <3>2
    <3>3. CASE task[t].sum # s
      <4>1. requests \subseteq requests' /\ results' = results
        BY <2>5 DEF Build, SubmitFailed, SubmitInline, HandleResult, queueVars
      <4>2. \A u \in Tasks : u # t => task'[u] = task[u]
        BY <3>1 DEF Become, TypeInv, TypeOK
      <4> QED
        BY <2>0, <3>3, <4>1, <4>2 DEF Owned
    <3> QED
      BY <3>2, <3>3
  <2>6. ASSUME NEW t \in Tasks, SubmitPublished(t)
        PROVE  Owned(s)'
    <3>1. /\ requests' = requests \cup {[sum |-> task[t].sum, source |-> task[t].source]}
          /\ results' = results
      BY <2>6 DEF SubmitPublished
    <3>2. \A u \in Tasks : u # t => task'[u] = task[u]
      BY <2>6 DEF SubmitPublished, Become, TypeInv, TypeOK
    <3>3. CASE task[t].sum = s
      <4> DEFINE q == [sum |-> task[t].sum, source |-> task[t].source]
      <4>1. q \in requests' /\ q.sum = s
        BY <3>1, <3>3
      <4> QED
        BY <4>1 DEF Owned
    <3>4. CASE task[t].sum # s
      <4>1. requests \subseteq requests'
        BY <3>1
      <4> QED
        BY <2>0, <3>1, <3>2, <3>4, <4>1 DEF Owned
    <3> QED
      BY <3>3, <3>4
  <2>7. ASSUME NEW t \in Tasks, NEW r \in Summaries, EditCheck(t, r)
        PROVE  Owned(s)'
    <3>1. task[t].pc = "idle" /\ UNCHANGED queueVars
      BY <2>7 DEF EditCheck
    <3> QED
      BY <2>1, <2>7, <3>1, Starts
  <2>8. ASSUME NEW t \in Tasks, NEW res \in results, Receive(t, res)
        PROVE  Owned(s)'
    <3>1. PICK r \in Task : Become(t, r) /\ r.pc = "handle" /\ r.sum = res.sum
      BY <2>8, Starts
    <3>2. CASE res.sum = s
      BY <1>3, <3>1, <3>2
    <3>3. CASE res.sum # s
      <4>1. /\ requests' = requests /\ results \ {res} \subseteq results'
            /\ task[t].pc = "idle"
        BY <2>8 DEF Receive
      <4>2. \A u \in Tasks : u # t => task'[u] = task[u]
        BY <3>1 DEF Become, TypeInv, TypeOK
      <4> QED
        BY <2>0, <3>3, <4>1, <4>2 DEF Owned
    <3> QED
      BY <3>2, <3>3
  <2>9. ASSUME NEW req \in requests, AgentAnswers(req)
        PROVE  Owned(s)'
    <3>1. PICK ok \in BOOLEAN :
            results' = results \cup {[sum |-> req.sum, source |-> req.source, ok |-> ok]}
      BY <2>9 DEF AgentAnswers
    <3>2. requests \ {req} \subseteq requests' /\ task' = task
      BY <2>9 DEF AgentAnswers
    <3>3. CASE req.sum = s
      <4> DEFINE res == [sum |-> req.sum, source |-> req.source, ok |-> ok]
      <4>1. res \in results' /\ res.sum = s
        BY <3>1, <3>3
      <4> QED
        BY <4>1 DEF Owned
    <3>4. CASE req.sum # s
      <4>1. results \subseteq results'
        BY <3>1
      <4> QED
        BY <2>0, <3>2, <3>4, <4>1 DEF Owned
    <3> QED
      BY <3>3, <3>4
  <2>10. ~Crash
    BY DEF Crash, Steady
  <2> QED
    BY <2>2, <2>3, <2>4, <2>5, <2>6, <2>7, <2>8, <2>9, <2>10, NextByCarriers
<1> QED
  BY <1>2, <1>4, <1>5

\* No wake-up is lost: while something is QUEUED there is a summary in flight
\* or a handler about to dispatch, and what is in flight has an owner
\* (_pump after every unit of work), as long as no handler dies or raises.
THEOREM QueueAlwaysMoves == Spec => []QueueMoves
<1>1. Init => QueueMoves
  BY DEF Init, QueueMoves, QueueHasDriver, PendingHasOwner, Queued, Pending, WithStatus
<1>2. TypeInv /\ QueueMoves /\ [Next]_vars => QueueMoves'
  <2> SUFFICES ASSUME TypeInv, QueueMoves, [Next]_vars
               PROVE  QueueMoves'
    OBVIOUS
  <2>1. CASE Steady
    BY <2>1, StepDriver, StepOwner DEF QueueMoves
  <2>2. CASE ~Steady
    BY <2>2, FaultsStay DEF QueueMoves, QueueHasDriver, PendingHasOwner, Steady
  <2> QED
    BY <2>1, <2>2
<1>3. Spec => []TypeInv
  BY InitTypeInv, StepTypeInv, PTL DEF Spec
<1> QED
  BY <1>1, <1>2, <1>3, PTL DEF Spec

InFlight == Pending \cup Locked
Locking == {t \in Tasks : task[t].pc = "locked"}

\* Every row that is locked is locked by a handler of its own.
LEMMA LockedByHandlers ==
  IsFiniteSet(Locked) /\ Cardinality(Locked) <= Cardinality(Tasks)
<1> DEFINE f == [t \in Locking |-> task[t].sum]
           rows == {f[t] : t \in Locking}
<1>1. Locked = Summaries \cap rows /\ Locked \subseteq rows
  BY DEF Locked, Locking
<1>2. IsFiniteSet(Locking) /\ Cardinality(Locking) <= Cardinality(Tasks)
  BY TasksAssumption, FS_Subset DEF Locking
<1>3. f \in Surjection(Locking, rows)
  BY DEF Surjection
<1>4. IsFiniteSet(rows) /\ Cardinality(rows) <= Cardinality(Locking)
  <2> HIDE DEF f, rows
  <2> QED
    BY <1>2, <1>3, FS_Surjection
<1>5. IsFiniteSet(Locked) /\ Cardinality(Locked) <= Cardinality(rows)
  <2> HIDE DEF rows
  <2> QED
    BY <1>1, <1>4, FS_Subset
<1>6. /\ Cardinality(Tasks) \in Nat /\ Cardinality(Locking) \in Nat
      /\ Cardinality(rows) \in Nat /\ Cardinality(Locked) \in Nat
  BY <1>2, <1>4, <1>5, TasksAssumption, FS_CardinalityType
<1> QED
  BY <1>2, <1>4, <1>5, <1>6

\* A row is locked anew only while the chat has no PENDING one.
LEMMA NewLocks ==
  ASSUME TypeInv, TypeInv', [Next]_vars, status' = status,
         NEW u \in Tasks, task'[u].pc = "locked", task'[u] # task[u]
  PROVE  Pending = {}
<1>1. ASSUME NEW t \in Tasks, NEW r, Become(t, r)
      PROVE  r.pc = "locked"
  BY <1>1 DEF Become, TypeInv, TypeOK
<1>2. ASSUME NEW t \in Tasks, Resting(t), Dispatchable = {}
      PROVE  FALSE
  <2>1. CASE Poll(t)
    <3>1. PICK S \in SUBSET Pending : ExpireStale(t, S, "idle")
      BY <2>1 DEF Poll
    <3>2. [Idle EXCEPT !.pc = "pump", !.next = "idle"].pc = "pump"
      BY DEF Idle
    <3> QED
      BY <1>1, <3>1, <3>2 DEF ExpireStale
  <2>2. CASE Summarize(t)
    <3>1. [Idle EXCEPT !.pc = "pump", !.next = "plan"].pc = "pump"
      BY DEF Idle
    <3>2. [Idle EXCEPT !.pc = "plan"].pc = "plan"
      BY DEF Idle
    <3> QED
      BY <1>1, <2>2, <3>1, <3>2 DEF Summarize, ExpireStale
  <2>3. CASE PlanChosen(t)
    <3>1. \A chosen : [Idle EXCEPT !.pc = "claim", !.chapters = chosen].pc = "claim"
      BY DEF Idle
    <3>2. Idle.pc = "idle"
      BY DEF Idle
    <3> QED
      BY <1>1, <2>3, <3>1, <3>2 DEF PlanChosen
  <2>4. CASE ClaimStale(t) \/ EditWrite(t) \/ Abort(t)
    BY <1>1, <2>4 DEF ClaimStale, EditWrite, Abort, Idle
  <2>5. ToPump(t).pc = "pump" /\ AfterPump(t).pc \in {"idle", "plan"}
    BY DEF ToPump, AfterPump, Idle
  <2>6. CASE Claim(t) \/ RefuseDispatch(t) \/ Complete(t) \/ FailResult(t)
    BY <1>1, <2>5, <2>6 DEF Claim, RefuseDispatch, Complete, FailResult
  <2>7. CASE HandleResult(t) /\ status[task[t].sum] # "pending"
    BY <1>1, <2>5, <2>7 DEF HandleResult
  <2>8. CASE DispatchSelect(t)
    BY <1>1, <1>2, <2>5, <2>8 DEF DispatchSelect
  <2> QED
    BY <1>2, <2>1, <2>2, <2>3, <2>4, <2>6, <2>7, <2>8 DEF Resting
<1>3. Pending = {} \/ Dispatchable = {}
  BY DEF Dispatchable
<1>4. ASSUME NEW t \in Tasks, \/ DispatchCommit(t) \/ Build(t) \/ SubmitFailed(t)
                              \/ SubmitInline(t) \/ SubmitPublished(t)
                              \/ HandleResult(t) /\ status[task[t].sum] = "pending"
      PROVE  FALSE
  <2>1. AfterPump(t).pc \in {"idle", "plan"}
    BY DEF AfterPump, Idle
  <2> QED
    BY <1>1, <1>4, <2>1, GoesOn DEF SubmitPublished
<1>5. ASSUME NEW t \in Tasks, NEW s \in Summaries, EditCheck(t, s)
      PROVE  FALSE
  BY <1>1, <1>5, Starts
<1>6. ASSUME NEW t \in Tasks, NEW res \in results, Receive(t, res)
      PROVE  FALSE
  BY <1>1, <1>6, Starts
<1>7. ~Crash /\ ~UNCHANGED task /\ \A req \in requests : ~AgentAnswers(req)
  BY DEF Crash, AgentAnswers, Idle
<1> QED
  BY <1>2, <1>3, <1>4, <1>5, <1>6, <1>7, NextByCarriers

\* A step adds nothing to what is in flight, or leaves the chat without a
\* PENDING summary.
LEMMA StepInFlight ==
  ASSUME TypeInv, TypeInv', [Next]_vars
  PROVE  InFlight' \subseteq InFlight \/ Pending' = {}
<1>1. ASSUME NEW t \in Tasks, NEW r, Become(t, r), r.pc # "locked"
      PROVE  Locked' \subseteq Locked
  BY <1>1 DEF Become, Locked, TypeInv, TypeOK
<1>2. ASSUME NEW t \in Tasks, DispatchCommit(t)
      PROVE  InFlight' \subseteq InFlight
  <2>1. PICK r \in Task : Become(t, r) /\ r.pc = "build"
    BY <1>2, GoesOn
  <2>2. task[t].pc = "locked" /\ status' = [status EXCEPT ![task[t].sum] = "pending"]
    BY <1>2 DEF DispatchCommit
  <2>3. Pending' \subseteq Pending \cup {task[t].sum}
    BY <2>2 DEF Pending, WithStatus, TypeInv, TypeOK
  <2>4. task[t].sum \in Summaries => task[t].sum \in Locked
    BY <2>2 DEF Locked
  <2>5. Pending' \subseteq Pending \cup Locked
    BY <2>3, <2>4 DEF Pending, WithStatus
  <2>6. Locked' \subseteq Locked
    BY <1>1, <2>1
  <2> QED
    BY <2>5, <2>6 DEF InFlight
<1>3. ASSUME NEW t \in Tasks, NEW S \in SUBSET Pending, NEW next \in {"idle", "plan"},
             ExpireStale(t, S, next)
      PROVE  InFlight' \subseteq InFlight
  <2>1. Pending' \subseteq Pending
    BY <1>3 DEF ExpireStale, Pending, WithStatus
  <2>2. [Idle EXCEPT !.pc = "pump", !.next = next].pc = "pump"
    BY DEF Idle
  <2>3. Locked' \subseteq Locked
    BY <1>1, <1>3, <2>2 DEF ExpireStale
  <2> QED
    BY <2>1, <2>3 DEF InFlight
<1>4. ASSUME NEW t \in Tasks, Claim(t) \/ RefuseDispatch(t) \/ Complete(t) \/ FailResult(t)
      PROVE  InFlight' \subseteq InFlight
  <2>1. Pending' \subseteq Pending
    BY <1>4 DEF Claim, RefuseDispatch, Complete, FailResult, Pending, WithStatus, TypeInv, TypeOK
  <2>2. Become(t, ToPump(t)) /\ ToPump(t).pc = "pump"
    BY <1>4 DEF Claim, RefuseDispatch, Complete, FailResult, ToPump, Idle
  <2> QED
    BY <1>1, <2>1, <2>2 DEF InFlight
<1>5. ASSUME status' = status
      PROVE  InFlight' \subseteq InFlight \/ Pending' = {}
  <2>1. Pending' = Pending
    BY <1>5 DEF Pending, WithStatus
  <2>2. Pending = {} \/ \A u \in Tasks : task'[u].pc = "locked" => task'[u] = task[u]
    BY <1>5, NewLocks
  <2>3. (\A u \in Tasks : task'[u].pc = "locked" => task'[u] = task[u]) => Locked' \subseteq Locked
    BY DEF Locked
  <2> QED
    BY <2>1, <2>2, <2>3 DEF InFlight
<1> QED
  BY <1>2, <1>3, <1>4, <1>5, StatusSteps DEF StatusStep

\* However many handlers pump at the same time, no more summaries of the chat
\* than that are in flight, whatever fails, expires or comes late
\* (dispatch_next_queued, FOR UPDATE SKIP LOCKED); with one handler at a time it
\* is the single active_summary_id get_status reports.
THEOREM InFlightAlwaysBounded == Spec => []InFlightBounded
<1> DEFINE Bounded == IsFiniteSet(InFlight) /\ InFlightBounded
<1>1. Init => Bounded
  <2> SUFFICES ASSUME Init PROVE Bounded
    OBVIOUS
  <2>1. InFlight = {}
    BY DEF Init, InFlight, Pending, WithStatus, Locked, Idle
  <2> QED
    BY <2>1, FS_EmptySet, TasksAssumption, FS_CardinalityType DEF InFlight, InFlightBounded
<1>2. TypeInv /\ TypeInv' /\ Bounded /\ [Next]_vars => Bounded'
  <2> SUFFICES ASSUME TypeInv, TypeInv', Bounded, [Next]_vars
               PROVE  Bounded'
    OBVIOUS
  <2>1. CASE InFlight' \subseteq InFlight
    <3>1. IsFiniteSet(InFlight') /\ Cardinality(InFlight') <= Cardinality(InFlight)
      BY <2>1, FS_Subset
    <3>2. /\ Cardinality(InFlight') \in Nat /\ Cardinality(InFlight) \in Nat
          /\ Cardinality(Tasks) \in Nat
      BY <3>1, TasksAssumption, FS_CardinalityType
    <3>3. Cardinality(InFlight) <= Cardinality(Tasks)
      BY DEF InFlightBounded, InFlight
    <3>4. Cardinality(InFlight') <= Cardinality(Tasks)
      BY <3>1, <3>2, <3>3
    <3> QED
      BY <3>1, <3>4 DEF InFlightBounded, InFlight
  <2>2. CASE Pending' = {}
    <3>1. InFlight' = Locked'
      BY <2>2 DEF InFlight
    <3>2. (IsFiniteSet(Locked) /\ Cardinality(Locked) <= Cardinality(Tasks))'
      BY LockedByHandlers, PTL
    <3> QED
      BY <3>1, <3>2 DEF InFlightBounded, InFlight
  <2> QED
    BY <2>1, <2>2, StepInFlight
<1>3. Bounded => InFlightBounded
  OBVIOUS
<1>4. Spec => []TypeInv
  BY InitTypeInv, StepTypeInv, PTL DEF Spec
<1> QED
  BY <1>1, <1>2, <1>3, <1>4, PTL DEF Spec
=============================================================================
