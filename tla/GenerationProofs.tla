--------------------------- MODULE GenerationProofs ---------------------------
(* Proofs about Generation, for any number of requests and watchdogs, every  *)
(* set of faults and any number of crashes.                                  *)
EXTENDS Generation, TLAPS

-----------------------------------------------------------------------------
(* Rows and sweeps.                                                        *)

LEMMA WatchdogRowType == \A r \in Requests : WatchdogRow(r) \in Row
BY DEF WatchdogRow, Row, MessageStatus

\* One more row answers the request.
LEMMA AppendType ==
  ASSUME TypeOK, NEW r \in Requests, NEW status \in MessageStatus,
         NEW by \in {"submit", "watchdog", "agent"}, AppendRow(r, status, by)
  PROVE  rows' \in [Row -> Nat]
<1>1. [req |-> r, status |-> status, by |-> by] \in Row
  BY DEF Row
<1> QED
  BY <1>1 DEF AppendRow, TypeOK

\* Rows of others are no reports of the watchdog.
LEMMA AppendOther ==
  ASSUME TypeOK, NEW r \in Requests, NEW status \in MessageStatus,
         NEW by \in {"submit", "agent"}, AppendRow(r, status, by)
  PROVE  \A q \in Requests : rows'[WatchdogRow(q)] = rows[WatchdogRow(q)]
<1> TAKE q \in Requests
<1>1. WatchdogRow(q) # [req |-> r, status |-> status, by |-> by]
  BY DEF WatchdogRow
<1>2. WatchdogRow(q) \in Row
  BY WatchdogRowType
<1> QED
  BY <1>1, <1>2 DEF AppendRow, TypeOK

LEMMA AppendReport ==
  ASSUME TypeOK, NEW r \in Requests, AppendRow(r, "failed", "watchdog")
  PROVE  /\ rows'[WatchdogRow(r)] = rows[WatchdogRow(r)] + 1
         /\ \A q \in Requests \ {r} : rows'[WatchdogRow(q)] = rows[WatchdogRow(q)]
<1>1. rows' = [rows EXCEPT ![WatchdogRow(r)] = @ + 1]
  BY DEF AppendRow, WatchdogRow
<1>2. \A q \in Requests \ {r} : WatchdogRow(q) # WatchdogRow(r)
  BY DEF WatchdogRow
<1> QED
  BY <1>1, <1>2, WatchdogRowType DEF TypeOK

LEMMA CountType == ASSUME TypeOK, NEW r \in Requests PROVE rows[WatchdogRow(r)] \in Nat
BY WatchdogRowType DEF TypeOK

LEMMA AsleepIsSweep == Asleep \in Sweep
BY DEF Asleep, Sweep

LEMMA NextIsSweep ==
  ASSUME TypeOK, NEW w \in Watchdogs, NEW r \in Requests
  PROVE  NextRequest(w, r) \in Sweep
BY DEF TypeOK, NextRequest, Sweep

\* A sweep that changes leaves the table of sweeps well typed.
LEMMA SetDogType ==
  ASSUME TypeOK, NEW w \in Watchdogs, NEW sweep \in Sweep, SetDog(w, sweep)
  PROVE  dog' \in [Watchdogs -> Sweep]
BY DEF TypeOK, SetDog

-----------------------------------------------------------------------------
LEMMA InitType == Init => TypeOK
BY AsleepIsSweep, BoundsAssumption DEF Init, TypeOK, SendSteps, AgentSteps

\* The handler of the user's message.
LEMMA HandlerType ==
  ASSUME TypeOK, NEW r \in Requests, SendMessage(r) \/ Handler(r)
  PROVE  TypeOK'
<1> USE DEF brokerVars, redisVars, SendSteps, MessageStatus
<1>1. CASE SendMessage(r)
  BY <1>1 DEF SendMessage, SendStep, TypeOK
<1>2. CASE SubmitInline(r)
  BY <1>2, AppendType DEF SubmitInline, SendStep, TypeOK
<1>3. CASE PublishDropped(r)
  BY <1>3 DEF PublishDropped, SendStep, TypeOK
<1>4. CASE Publish(r)
  BY <1>4 DEF Publish, SendStep, TypeOK
<1>5. CASE PublishFails(r)
  BY <1>5 DEF PublishFails, SendStep, TypeOK
<1>6. CASE PublishConfirmed(r)
  BY <1>6 DEF PublishConfirmed, SendStep, TypeOK
<1>7. CASE Register(r)
  BY <1>7 DEF Register, SendStep, TypeOK
<1>8. CASE RecordSubmitFailure(r)
  BY <1>8, AppendType DEF RecordSubmitFailure, SendStep, TypeOK
<1> QED
  BY <1>1, <1>2, <1>3, <1>4, <1>5, <1>6, <1>7, <1>8 DEF Handler

\* The agent and the keys that run out.
LEMMA AgentType ==
  ASSUME TypeOK, NEW r \in Requests,
         AgentTakes(r) \/ AgentRefreshes(r) \/ AgentGoesOn(r) \/ AliveExpires(r)
           \/ KeysExpire(r)
  PROVE  TypeOK'
<1> USE DEF brokerVars, redisVars, AgentSteps, AgentStep
<1>1. CASE AgentTakes(r)
  BY <1>1 DEF AgentTakes, TypeOK
<1>2. CASE AgentRefreshes(r)
  BY <1>2 DEF AgentRefreshes, TypeOK
<1>3. CASE AgentAnswers(r)
  BY <1>3 DEF AgentAnswers, TypeOK, Result
<1>4. CASE AgentMarksDone(r)
  BY <1>4 DEF AgentMarksDone, TypeOK
<1>5. CASE AgentDies(r)
  BY <1>5 DEF AgentDies, TypeOK
<1>6. CASE AliveExpires(r)
  BY <1>6 DEF AliveExpires, TypeOK
<1>7. CASE KeysExpire(r)
  BY <1>7 DEF KeysExpire, TypeOK
<1> QED
  BY <1>1, <1>2, <1>3, <1>4, <1>5, <1>6, <1>7 DEF AgentGoesOn

\* The sweeps.
LEMMA WatchdogType ==
  ASSUME TypeOK, NEW w \in Watchdogs, Watchdog(w)
  PROVE  TypeOK'
<1> USE DEF brokerVars, redisVars
<1>a. dog[w] \in Sweep
  BY DEF TypeOK
<1>1. CASE SweepBegins(w)
  <2>1. [Asleep EXCEPT !.pc = "sweep", !.todo = inflight] \in Sweep
    BY DEF Asleep, Sweep, TypeOK
  <2> QED
    BY <1>1, <2>1, SetDogType DEF SweepBegins, TypeOK
<1>2. CASE SweepEnds(w)
  <2>1. [dog[w] EXCEPT !.pc = "report"] \in Sweep
    BY <1>a DEF Sweep
  <2> QED
    BY <1>2, <2>1, AsleepIsSweep, SetDogType DEF SweepEnds, TypeOK
<1>3. ASSUME NEW r \in Requests, CheckAlive(w, r)
      PROVE  TypeOK'
  <2>1. [dog[w] EXCEPT !.pc = "claim", !.rid = {r}] \in Sweep
    BY <1>a DEF Sweep
  <2> QED
    BY <1>3, <2>1, NextIsSweep, SetDogType DEF CheckAlive, TypeOK
<1>4. ASSUME NEW r \in Requests, Claim(w, r)
      PROVE  TypeOK'
  <2>1. [dog[w] EXCEPT !.pc = "remove", !.claimed = r \notin done] \in Sweep
    BY <1>a DEF Sweep
  <2> QED
    BY <1>4, <2>1, SetDogType DEF Claim, TypeOK
<1>5. ASSUME NEW r \in Requests, RemoveInflight(w, r)
      PROVE  TypeOK'
  <2>1. [dog[w] EXCEPT !.pc = "get"] \in Sweep
    BY <1>a DEF Sweep
  <2> QED
    BY <1>5, <2>1, NextIsSweep, SetDogType DEF RemoveInflight, TypeOK
<1>6. ASSUME NEW r \in Requests, GetChat(w, r)
      PROVE  TypeOK'
  <2>1. [NextRequest(w, r) EXCEPT !.dead = @ \cup {r}] \in Sweep
    BY NextIsSweep DEF Sweep
  <2> QED
    BY <1>6, <2>1, NextIsSweep, SetDogType DEF GetChat, TypeOK
<1>7. ASSUME NEW r \in Requests, SweepFails(w, r)
      PROVE  TypeOK'
  BY <1>7, NextIsSweep, SetDogType DEF SweepFails, TypeOK
<1>8. ASSUME NEW r \in Requests, Report(w, r)
      PROVE  TypeOK'
  <2>1. [dog[w] EXCEPT !.dead = @ \ {r}] \in Sweep
    BY <1>a DEF Sweep
  <2>2. dog' \in [Watchdogs -> Sweep]
    BY <1>8, <2>1, AsleepIsSweep, SetDogType DEF Report
  <2>3. rows' \in [Row -> Nat]
    BY <1>8, AppendType DEF Report, TypeOK, MessageStatus
  <2> QED
    BY <1>8, <2>2, <2>3 DEF Report, TypeOK
<1> QED
  BY <1>1, <1>2, <1>3, <1>4, <1>5, <1>6, <1>7, <1>8 DEF Watchdog

\* The consumer of the results.
LEMMA ConsumerType ==
  ASSUME TypeOK, NEW res \in Result, Consumer(res)
  PROVE  TypeOK'
<1> USE DEF redisVars
<1>1. CASE AppendResult(res)
  <2>1. rows' \in [Row -> Nat]
    BY <1>1, AppendType DEF AppendResult, Result, MessageStatus
  <2> QED
    BY <1>1, <2>1 DEF AppendResult, TypeOK
<1>2. CASE AckResult(res)
  BY <1>2 DEF AckResult, TypeOK
<1>3. CASE RejectResult(res)
  BY <1>3 DEF RejectResult, TypeOK
<1> QED
  BY <1>1, <1>2, <1>3 DEF Consumer

LEMMA StepType == TypeOK /\ [Next]_vars => TypeOK'
<1> SUFFICES ASSUME TypeOK, [Next]_vars
             PROVE  TypeOK'
    OBVIOUS
<1>1. CASE Crash
  BY <1>1, AsleepIsSweep, BoundsAssumption
     DEF Crash, TypeOK, redisVars, SendSteps
<1>2. CASE UNCHANGED vars
  BY <1>2 DEF vars, brokerVars, redisVars, TypeOK
<1> QED
  BY <1>1, <1>2, HandlerType, AgentType, WatchdogType, ConsumerType DEF Next

\* Every key, queue, row counter and sweep keeps its type.
THEOREM GenerationTypeCorrect == Spec => []TypeOK
BY InitType, StepType, PTL DEF Spec

-----------------------------------------------------------------------------
(* One report for each request.                                            *)

\* A step that leaves the sweeps and the reports alone, drops no mark of a
\* request that could be reported again and brings no chat back.
LEMMA SweepsUndisturbed ==
  ASSUME ReportInv, UNCHANGED dog,
         \A r \in Requests : rows'[WatchdogRow(r)] = rows[WatchdogRow(r)],
         \A r \in Requests : Lapsed(r) => Lapsed(r)',
         \A r \in Requests : r \in done => r \in done' \/ Lapsed(r)'
  PROVE  ReportInv'
BY DEF ReportInv, OneInHand, OneReporter, ReportedIsDone, ReportedOnce, HasClaimed,
       WatchdogRow

\* Nobody but the watchdog, the TTLs and the agent touches :done, and only
\* register_inflight sets :chat, before the request lapses.
LEMMA OthersUndisturbed ==
  ASSUME TypeOK, ReportInv, NEW r \in Requests,
         \/ SendMessage(r) \/ Handler(r)
         \/ AgentTakes(r) \/ AgentRefreshes(r) \/ AgentGoesOn(r)
         \/ AliveExpires(r) \/ KeysExpire(r)
  PROVE  ReportInv'
<1> USE DEF brokerVars, redisVars, Lapsed
<1>1. CASE SendMessage(r)
  BY <1>1, SweepsUndisturbed DEF SendMessage, SendStep, TypeOK
<1>2. CASE SubmitInline(r)
  <2>1. \A q \in Requests : rows'[WatchdogRow(q)] = rows[WatchdogRow(q)]
    BY <1>2, AppendOther DEF SubmitInline, MessageStatus
  <2> QED
    BY <1>2, <2>1, SweepsUndisturbed DEF SubmitInline, SendStep, TypeOK
<1>3. CASE PublishDropped(r)
  BY <1>3, SweepsUndisturbed DEF PublishDropped, SendStep, TypeOK
<1>4. CASE Publish(r)
  BY <1>4, SweepsUndisturbed DEF Publish, SendStep, TypeOK
<1>5. CASE PublishFails(r)
  BY <1>5, SweepsUndisturbed DEF PublishFails, SendStep, TypeOK
<1>6. CASE PublishConfirmed(r)
  BY <1>6, SweepsUndisturbed DEF PublishConfirmed, SendStep, TypeOK
<1>7. CASE Register(r)
  BY <1>7, SweepsUndisturbed DEF Register, SendStep, TypeOK
<1>8. CASE RecordSubmitFailure(r)
  <2>1. \A q \in Requests : rows'[WatchdogRow(q)] = rows[WatchdogRow(q)]
    BY <1>8, AppendOther DEF RecordSubmitFailure, MessageStatus
  <2> QED
    BY <1>8, <2>1, SweepsUndisturbed DEF RecordSubmitFailure, SendStep, TypeOK
<1>9. CASE AgentTakes(r)
  BY <1>9, SweepsUndisturbed DEF AgentTakes
<1>10. CASE AgentRefreshes(r)
  BY <1>10, SweepsUndisturbed DEF AgentRefreshes
<1>11. CASE AgentAnswers(r)
  BY <1>11, SweepsUndisturbed DEF AgentAnswers
<1>12. CASE AgentMarksDone(r)
  BY <1>12, SweepsUndisturbed DEF AgentMarksDone
<1>13. CASE AgentDies(r)
  BY <1>13, SweepsUndisturbed DEF AgentDies
<1>14. CASE AliveExpires(r)
  BY <1>14, SweepsUndisturbed DEF AliveExpires
<1>15. CASE KeysExpire(r)
  BY <1>15, SweepsUndisturbed DEF KeysExpire
<1> QED
  BY <1>1, <1>2, <1>3, <1>4, <1>5, <1>6, <1>7, <1>8, <1>9, <1>10, <1>11, <1>12,
     <1>13, <1>14, <1>15 DEF Handler, AgentGoesOn

LEMMA ConsumerUndisturbed ==
  ASSUME TypeOK, ReportInv, NEW res \in Result, Consumer(res)
  PROVE  ReportInv'
<1> USE DEF redisVars, Lapsed
<1>1. CASE AppendResult(res)
  <2>1. \A q \in Requests : rows'[WatchdogRow(q)] = rows[WatchdogRow(q)]
    BY <1>1, AppendOther DEF AppendResult, Result, MessageStatus
  <2> QED
    BY <1>1, <2>1, SweepsUndisturbed DEF AppendResult
<1>2. CASE AckResult(res)
  BY <1>2, SweepsUndisturbed DEF AckResult
<1>3. CASE RejectResult(res)
  BY <1>3, SweepsUndisturbed DEF RejectResult
<1> QED
  BY <1>1, <1>2, <1>3 DEF Consumer

\* A sweep that gives up what it holds, or takes nothing new, takes nothing
\* from the others.
LEMMA SweepReleases ==
  ASSUME TypeOK, ReportInv, NEW w \in Watchdogs, NEW sweep \in Sweep, SetDog(w, sweep),
         sweep.dead \subseteq dog[w].dead,
         sweep.pc # "get",
         sweep.pc = "remove" => ~sweep.claimed,
         \A r, q \in sweep.rid : r = q,
         UNCHANGED <<send, rows, chat>>, done \subseteq done'
  PROVE  ReportInv'
<1>1. \A v \in Watchdogs : dog'[v] = IF v = w THEN sweep ELSE dog[v]
  BY DEF SetDog, TypeOK
<1>2. \A v \in Watchdogs, r \in Requests : HasClaimed(v, r)' => HasClaimed(v, r) /\ v # w
  BY <1>1 DEF HasClaimed
<1>3. \A v \in Watchdogs : dog'[v].dead \subseteq dog[v].dead
  BY <1>1
<1>4. \A r \in Requests : Lapsed(r)' <=> Lapsed(r)
  BY DEF Lapsed
<1>5. \A r \in Requests : rows'[WatchdogRow(r)'] = rows[WatchdogRow(r)]
  BY DEF WatchdogRow
<1>6. OneInHand'
  BY <1>1 DEF ReportInv, OneInHand
<1>7. OneReporter'
  BY <1>2, <1>3, <1>4, <1>5 DEF ReportInv, OneReporter
<1>8. ReportedIsDone'
  BY <1>2, <1>3, <1>4, <1>5 DEF ReportInv, ReportedIsDone
<1>9. ReportedOnce'
  BY <1>5 DEF ReportInv, ReportedOnce
<1> QED
  BY <1>6, <1>7, <1>8, <1>9 DEF ReportInv

\* SET :done NX: who gets the claim of a request gets it alone, unless the
\* request has lapsed.
LEMMA ClaimIsUnique ==
  ASSUME TypeOK, ReportInv, NEW w \in Watchdogs, NEW r \in Requests, Claim(w, r)
  PROVE  ReportInv'
<1> USE DEF redisVars, brokerVars
<1> DEFINE sweep == [dog[w] EXCEPT !.pc = "remove", !.claimed = r \notin done]
<1>1. dog[w] \in Sweep /\ r \in dog[w].rid /\ dog[w].pc = "claim"
  BY DEF TypeOK, Claim
<1>2. \A q \in dog[w].rid : q = r
  BY <1>1 DEF ReportInv, OneInHand
<1>3. /\ sweep.pc = "remove" /\ sweep.rid = dog[w].rid /\ sweep.dead = dog[w].dead
      /\ sweep.claimed <=> r \notin done
  BY <1>1 DEF Sweep
<1>4. \A v \in Watchdogs : dog'[v] = IF v = w THEN sweep ELSE dog[v]
  BY DEF Claim, SetDog, TypeOK
<1>5. /\ \A v \in Watchdogs \ {w}, q \in Requests : HasClaimed(v, q)' <=> HasClaimed(v, q)
      /\ \A q \in Requests : HasClaimed(w, q)' => q = r /\ r \notin done
      /\ \A v \in Watchdogs : dog'[v].dead = dog[v].dead
      /\ \A v \in Watchdogs : dog'[v].rid = dog[v].rid
  BY <1>2, <1>3, <1>4 DEF HasClaimed
<1>6. \A q \in Requests : Lapsed(q)' <=> Lapsed(q)
  BY DEF Lapsed, Claim
<1>7. \A q \in Requests : rows'[WatchdogRow(q)'] = rows[WatchdogRow(q)]
  BY DEF WatchdogRow, Claim
<1>8. done' = done \cup {r}
  BY DEF Claim
<1>9. \A q \in Requests : rows[WatchdogRow(q)] \in Nat
  BY CountType
\* An unmarked request has neither a report nor a reporter, or has lapsed.
<1>10. r \notin done /\ ~Lapsed(r) =>
         /\ rows[WatchdogRow(r)] = 0
         /\ \A v \in Watchdogs : r \notin dog[v].dead /\ ~HasClaimed(v, r)
  BY <1>9 DEF ReportInv, ReportedIsDone
<1>11. OneInHand'
  BY <1>3, <1>4, <1>5 DEF ReportInv, OneInHand
<1>12. OneReporter'
  <2> SUFFICES ASSUME NEW q \in Requests, NEW v \in Watchdogs
               PROVE  /\ q \in dog'[v].dead =>
                           /\ rows[WatchdogRow(q)] = 0
                           /\ \A u \in Watchdogs : q \in dog'[u].dead => u = v
                      /\ HasClaimed(v, q)' =>
                           \/ Lapsed(q)
                           \/ /\ rows[WatchdogRow(q)] = 0
                              /\ \A u \in Watchdogs : q \notin dog'[u].dead
                              /\ \A u \in Watchdogs : HasClaimed(u, q)' => u = v
    BY <1>6, <1>7 DEF OneReporter
  <2>1. q \in dog'[v].dead =>
           /\ rows[WatchdogRow(q)] = 0
           /\ \A u \in Watchdogs : q \in dog'[u].dead => u = v
    BY <1>5 DEF ReportInv, OneReporter
  <2>2. CASE q = r /\ r \notin done
    BY <1>5, <1>10, <2>1, <2>2
  <2>3. CASE ~(q = r /\ r \notin done)
    BY <1>5, <2>1, <2>3 DEF ReportInv, OneReporter
  <2> QED
    BY <2>2, <2>3
<1>13. ReportedIsDone'
  BY <1>5, <1>6, <1>7, <1>8 DEF ReportInv, ReportedIsDone
<1>14. ReportedOnce'
  BY <1>7 DEF ReportInv, ReportedOnce
<1> QED
  BY <1>11, <1>12, <1>13, <1>14 DEF ReportInv

\* SREM and on to GET :chat with the claim in hand.
LEMMA ClaimIsKept ==
  ASSUME TypeOK, ReportInv, NEW w \in Watchdogs, NEW r \in Requests,
         RemoveInflight(w, r), dog[w].claimed
  PROVE  ReportInv'
<1> USE DEF redisVars, brokerVars
<1> DEFINE sweep == [dog[w] EXCEPT !.pc = "get"]
<1>1. dog[w] \in Sweep /\ dog[w].pc = "remove"
  BY DEF TypeOK, RemoveInflight
<1>2. \A v \in Watchdogs : dog'[v] = IF v = w THEN sweep ELSE dog[v]
  BY DEF RemoveInflight, SetDog, TypeOK
<1>3. /\ \A v \in Watchdogs, q \in Requests : HasClaimed(v, q)' <=> HasClaimed(v, q)
      /\ \A v \in Watchdogs : dog'[v].dead = dog[v].dead /\ dog'[v].rid = dog[v].rid
      /\ \A v \in Watchdogs : dog'[v].pc = "get" => dog'[v].claimed
  BY <1>1, <1>2 DEF HasClaimed, Sweep, ReportInv, OneInHand
<1>4. \A q \in Requests : Lapsed(q)' <=> Lapsed(q)
  BY DEF Lapsed, RemoveInflight
<1>5. \A q \in Requests : rows'[WatchdogRow(q)'] = rows[WatchdogRow(q)]
  BY DEF WatchdogRow, RemoveInflight
<1>6. done' = done
  BY DEF RemoveInflight
<1> QED
  BY <1>3, <1>4, <1>5, <1>6
     DEF ReportInv, OneInHand, OneReporter, ReportedIsDone, ReportedOnce

\* GET :chat: a claim becomes the one report of a request that has not lapsed.
LEMMA ChatIsRead ==
  ASSUME TypeOK, ReportInv, NEW w \in Watchdogs, NEW r \in Requests,
         GetChat(w, r), r \in chat
  PROVE  ReportInv'
<1> USE DEF redisVars, brokerVars
<1> DEFINE sweep == [NextRequest(w, r) EXCEPT !.dead = @ \cup {r}]
<1>1. dog[w] \in Sweep /\ dog[w].pc = "get" /\ dog[w].claimed /\ r \in dog[w].rid
  BY DEF TypeOK, GetChat, ReportInv, OneInHand
<1>2. /\ rows[WatchdogRow(r)] = 0
      /\ \A v \in Watchdogs : r \notin dog[v].dead
      /\ \A v \in Watchdogs : HasClaimed(v, r) => v = w
  BY <1>1 DEF ReportInv, OneReporter, HasClaimed, Lapsed
<1>3. sweep.pc = "sweep" /\ sweep.rid = {} /\ sweep.dead = dog[w].dead \cup {r}
  BY <1>1 DEF NextRequest, Sweep
<1>4. \A v \in Watchdogs : dog'[v] = IF v = w THEN sweep ELSE dog[v]
  BY DEF GetChat, SetDog, TypeOK
<1>5. /\ \A v \in Watchdogs, q \in Requests : HasClaimed(v, q)' => HasClaimed(v, q) /\ v # w
      /\ \A v \in Watchdogs \ {w} : dog'[v].dead = dog[v].dead
      /\ dog'[w].dead = dog[w].dead \cup {r}
  BY <1>3, <1>4 DEF HasClaimed
<1>6. \A q \in Requests : Lapsed(q)' <=> Lapsed(q)
  BY DEF Lapsed, GetChat
<1>7. \A q \in Requests : rows'[WatchdogRow(q)'] = rows[WatchdogRow(q)]
  BY DEF WatchdogRow, GetChat
<1>8. done' = done
  BY DEF GetChat
<1>9. OneInHand'
  BY <1>3, <1>4 DEF ReportInv, OneInHand
<1>10. OneReporter'
  <2> SUFFICES ASSUME NEW q \in Requests, NEW v \in Watchdogs
               PROVE  /\ q \in dog'[v].dead =>
                           /\ rows[WatchdogRow(q)] = 0
                           /\ \A u \in Watchdogs : q \in dog'[u].dead => u = v
                      /\ HasClaimed(v, q)' =>
                           \/ Lapsed(q)
                           \/ /\ rows[WatchdogRow(q)] = 0
                              /\ \A u \in Watchdogs : q \notin dog'[u].dead
                              /\ \A u \in Watchdogs : HasClaimed(u, q)' => u = v
    BY <1>6, <1>7 DEF OneReporter
  <2>1. CASE q = r
    BY <1>2, <1>5, <2>1
  <2>2. CASE q # r
    BY <1>5, <2>2 DEF ReportInv, OneReporter
  <2> QED
    BY <2>1, <2>2
<1>11. ReportedIsDone'
  <2>1. r \in done \/ Lapsed(r)
    BY <1>1 DEF ReportInv, ReportedIsDone, HasClaimed
  <2> QED
    BY <1>5, <1>6, <1>7, <1>8, <2>1 DEF ReportInv, ReportedIsDone
<1>12. ReportedOnce'
  BY <1>7 DEF ReportInv, ReportedOnce
<1> QED
  BY <1>9, <1>10, <1>11, <1>12 DEF ReportInv

\* The FAILED row, or a failure to write it.
LEMMA ReportIsWritten ==
  ASSUME TypeOK, ReportInv, NEW w \in Watchdogs, NEW r \in Requests, Report(w, r)
  PROVE  ReportInv'
<1> USE DEF redisVars, brokerVars
<1> DEFINE sweep == IF dog[w].dead = {r} THEN Asleep ELSE [dog[w] EXCEPT !.dead = @ \ {r}]
<1>1. dog[w] \in Sweep /\ dog[w].pc = "report" /\ r \in dog[w].dead
  BY DEF TypeOK, Report
<1>2. /\ rows[WatchdogRow(r)] = 0
      /\ \A v \in Watchdogs : r \in dog[v].dead => v = w
  BY <1>1 DEF ReportInv, OneReporter
<1>3. sweep.pc \in {"sleep", "report"} /\ sweep.dead = dog[w].dead \ {r}
      /\ sweep.rid \subseteq dog[w].rid
  BY <1>1 DEF Sweep, Asleep
<1>4. \A v \in Watchdogs : dog'[v] = IF v = w THEN sweep ELSE dog[v]
  BY DEF Report, SetDog, TypeOK
<1>5. /\ \A v \in Watchdogs, q \in Requests : HasClaimed(v, q)' => HasClaimed(v, q)
      /\ \A v \in Watchdogs : dog'[v].dead = dog[v].dead \ {r}
  BY <1>2, <1>3, <1>4 DEF HasClaimed
<1>6. \A q \in Requests : Lapsed(q)' <=> Lapsed(q)
  BY DEF Lapsed, Report
<1>7. /\ rows'[WatchdogRow(r)'] <= 1
      /\ \A q \in Requests \ {r} : rows'[WatchdogRow(q)'] = rows[WatchdogRow(q)]
  <2>1. \A q \in Requests : rows'[WatchdogRow(q)'] = rows'[WatchdogRow(q)]
    BY DEF WatchdogRow
  <2>2. CASE AppendRow(r, "failed", "watchdog")
    BY <1>2, <2>1, <2>2, AppendReport
  <2>3. CASE UNCHANGED rows
    BY <1>2, <2>1, <2>3
  <2> QED
    BY <2>2, <2>3 DEF Report
<1>8. done' = done
  BY DEF Report
\* Whoever else has claimed r finds no chat for it.
<1>9. \A v \in Watchdogs : HasClaimed(v, r) => Lapsed(r)
  BY <1>1 DEF ReportInv, OneReporter
<1>10. OneInHand'
  BY <1>3, <1>4 DEF ReportInv, OneInHand
<1>11. OneReporter'
  <2> SUFFICES ASSUME NEW q \in Requests, NEW v \in Watchdogs
               PROVE  /\ q \in dog'[v].dead =>
                           /\ rows'[WatchdogRow(q)'] = 0
                           /\ \A u \in Watchdogs : q \in dog'[u].dead => u = v
                      /\ HasClaimed(v, q)' =>
                           \/ Lapsed(q)
                           \/ /\ rows'[WatchdogRow(q)'] = 0
                              /\ \A u \in Watchdogs : q \notin dog'[u].dead
                              /\ \A u \in Watchdogs : HasClaimed(u, q)' => u = v
    BY <1>6 DEF OneReporter
  <2>1. CASE q = r
    BY <1>5, <1>9, <2>1
  <2>2. CASE q # r
    BY <1>5, <1>7, <2>2 DEF ReportInv, OneReporter
  <2> QED
    BY <2>1, <2>2
<1>12. ReportedIsDone'
  <2>1. r \in done \/ Lapsed(r)
    BY <1>1 DEF ReportInv, ReportedIsDone
  <2> QED
    BY <1>5, <1>6, <1>7, <1>8, <2>1 DEF ReportInv, ReportedIsDone
<1>13. ReportedOnce'
  BY <1>7 DEF ReportInv, ReportedOnce
<1> QED
  BY <1>10, <1>11, <1>12, <1>13 DEF ReportInv

\* Every step of a watchdog keeps the right to report unique.
LEMMA WatchdogReports ==
  ASSUME TypeOK, ReportInv, NEW w \in Watchdogs, Watchdog(w)
  PROVE  ReportInv'
<1> USE DEF redisVars, brokerVars
<1>a. dog[w] \in Sweep
  BY DEF TypeOK
<1>b. \A r, q \in dog[w].rid : r = q
  BY DEF ReportInv, OneInHand
<1>1. CASE SweepBegins(w)
  <2> DEFINE sweep == [Asleep EXCEPT !.pc = "sweep", !.todo = inflight]
  <2>1. sweep \in Sweep /\ sweep.dead = {} /\ sweep.rid = {} /\ sweep.pc = "sweep"
    BY DEF Asleep, Sweep, TypeOK
  <2> QED
    BY <1>1, <2>1, SweepReleases DEF SweepBegins
<1>2. CASE SweepEnds(w)
  <2> DEFINE sweep == IF dog[w].dead = {} THEN Asleep ELSE [dog[w] EXCEPT !.pc = "report"]
  <2>1. /\ sweep \in Sweep /\ sweep.dead = dog[w].dead /\ sweep.pc \in {"sleep", "report"}
        /\ sweep.rid \subseteq dog[w].rid
    BY <1>a DEF Asleep, Sweep
  <2> QED
    BY <1>2, <1>b, <2>1, SweepReleases DEF SweepEnds
<1>3. ASSUME NEW r \in Requests
      PROVE  /\ NextRequest(w, r) \in Sweep
             /\ NextRequest(w, r).dead = dog[w].dead
             /\ NextRequest(w, r).rid = {}
             /\ NextRequest(w, r).pc = "sweep"
  BY <1>a DEF NextRequest, Sweep
<1>4. ASSUME NEW r \in Requests, SetDog(w, NextRequest(w, r)),
             UNCHANGED <<send, rows, chat, done>>
      PROVE  ReportInv'
  BY <1>3, <1>4, SweepReleases
<1>5. ASSUME NEW r \in Requests, CheckAlive(w, r)
      PROVE  ReportInv'
  <2> DEFINE sweep == [dog[w] EXCEPT !.pc = "claim", !.rid = {r}]
  <2>1. sweep \in Sweep /\ sweep.dead = dog[w].dead /\ sweep.rid = {r} /\ sweep.pc = "claim"
    BY <1>a DEF Sweep
  <2>2. CASE r \in alive
    BY <1>4, <1>5, <2>2 DEF CheckAlive
  <2>3. CASE r \notin alive
    <3>1. SetDog(w, sweep) /\ UNCHANGED <<send, rows, chat, done>>
      BY <1>5, <2>3 DEF CheckAlive
    <3> QED
      BY <2>1, <3>1, SweepReleases
  <2> QED
    BY <2>2, <2>3
<1>6. ASSUME NEW r \in Requests, RemoveInflight(w, r)
      PROVE  ReportInv'
  <2>1. CASE dog[w].claimed
    BY <1>6, <2>1, ClaimIsKept
  <2>2. CASE ~dog[w].claimed
    BY <1>4, <1>6, <2>2 DEF RemoveInflight
  <2> QED
    BY <2>1, <2>2
<1>7. ASSUME NEW r \in Requests, GetChat(w, r)
      PROVE  ReportInv'
  <2>1. CASE r \in chat
    BY <1>7, <2>1, ChatIsRead
  <2>2. CASE r \notin chat
    BY <1>4, <1>7, <2>2 DEF GetChat
  <2> QED
    BY <2>1, <2>2
<1>8. ASSUME NEW r \in Requests, SweepFails(w, r)
      PROVE  ReportInv'
  BY <1>4, <1>8 DEF SweepFails
<1> QED
  BY <1>1, <1>2, <1>5, <1>6, <1>7, <1>8, ClaimIsUnique, ReportIsWritten DEF Watchdog

\* Sweeps die with the backend; what they had claimed is marked for ever.
LEMMA CrashReports ==
  ASSUME TypeOK, ReportInv, Crash
  PROVE  ReportInv'
<1> USE DEF redisVars
<1>1. \A v \in Watchdogs : dog'[v].pc = "sleep" /\ dog'[v].dead = {} /\ dog'[v].rid = {}
  BY DEF Crash, Asleep
<1>2. \A v \in Watchdogs, r \in Requests : ~HasClaimed(v, r)'
  BY <1>1 DEF HasClaimed
<1>3. \A r \in Requests : Lapsed(r) => Lapsed(r)'
  BY DEF Lapsed, Crash, TypeOK
<1>4. \A r \in Requests : rows'[WatchdogRow(r)'] = rows[WatchdogRow(r)]
  BY DEF WatchdogRow, Crash
<1>5. done' = done
  BY DEF Crash
<1> QED
  BY <1>1, <1>2, <1>3, <1>4, <1>5
     DEF ReportInv, OneInHand, OneReporter, ReportedIsDone, ReportedOnce

LEMMA InitReports == Init => ReportInv
<1> SUFFICES ASSUME Init
             PROVE  ReportInv
    OBVIOUS
<1>1. \A r \in Requests : rows[WatchdogRow(r)] = 0
  BY WatchdogRowType DEF Init
<1>2. \A w \in Watchdogs : dog[w].pc = "sleep" /\ dog[w].dead = {} /\ dog[w].rid = {}
  BY DEF Init, Asleep
<1> QED
  BY <1>1, <1>2
     DEF ReportInv, OneInHand, OneReporter, ReportedIsDone, ReportedOnce, HasClaimed

LEMMA StepReports == TypeOK /\ ReportInv /\ [Next]_vars => ReportInv'
<1> SUFFICES ASSUME TypeOK, ReportInv, [Next]_vars
             PROVE  ReportInv'
    OBVIOUS
<1>1. CASE UNCHANGED vars
  BY <1>1, SweepsUndisturbed DEF vars, redisVars, brokerVars, Lapsed
<1> QED
  BY <1>1, OthersUndisturbed, ConsumerUndisturbed, WatchdogReports, CrashReports DEF Next

\* The right to report a dead request is unique in every reachable state.
THEOREM ReportsCorrect == Spec => []ReportInv
BY InitType, InitReports, StepType, StepReports, PTL DEF Spec

\* No request gets two FAILED rows from watchdogs: any number of them may
\* sweep at the same time, be killed half way, lose Redis or the database.
THEOREM DeadRequestReportedOnce == Spec => []ReportedOnce
<1>1. ReportInv => ReportedOnce
  BY DEF ReportInv
<1> QED
  BY <1>1, ReportsCorrect, PTL

-----------------------------------------------------------------------------
(* Only the dead are taken for dead.                                       *)

\* The behaviour's faults are chosen once.
LEMMA FaultsStay == [Next]_vars => faults' = faults
BY DEF Next, vars, SendMessage, Handler, SubmitInline, PublishDropped, Publish, PublishFails,
       PublishConfirmed, Register, RecordSubmitFailure, AgentTakes, AgentRefreshes, AgentGoesOn,
       AgentAnswers, AgentMarksDone, AgentDies, AliveExpires, KeysExpire, Watchdog, SweepBegins,
       SweepEnds, CheckAlive, Claim, RemoveInflight, GetChat, SweepFails, Report, Consumer,
       AppendResult, AckResult, RejectResult, Crash

Told == /\ \A r \in Requests : HeartbeatTells(r)
        /\ \A w \in Watchdogs : SweepTells(w)

\* Sweeps that do not move stay right while nobody comes back to life.
LEMMA SweepsStayTold ==
  ASSUME Told, UNCHANGED dog,
         \A r \in Requests : agent[r] = "dead" => agent'[r] = "dead",
         \A r \in Requests : Silent(r) => agent'[r] \in {"dead", "over"},
         \A r \in Requests : Lapsed(r) => Lapsed(r)',
         \A r \in alive : r \in alive' \/ agent'[r] \in {"dead", "over"},
         TypeOK
  PROVE  \A w \in Watchdogs : SweepTells(w)'
BY DEF Told, SweepTells, HasClaimed, Silent, TypeOK, Sweep

LEMMA StepHeartbeats ==
  ASSUME TypeOK, Told, InTime, NEW r \in Requests,
         \/ SendMessage(r) \/ Handler(r)
         \/ AgentTakes(r) \/ AgentRefreshes(r) \/ AgentGoesOn(r)
         \/ AliveExpires(r) \/ KeysExpire(r)
  PROVE  Told'
<1> USE DEF brokerVars, redisVars, Lapsed, SendStep, AgentStep, Silent, HeartbeatTells
<1>0. \A q \in Requests : WatchdogRow(q)' = WatchdogRow(q)
  BY DEF WatchdogRow
<1>1. CASE SendMessage(r)
  BY <1>0, <1>1, SweepsStayTold DEF SendMessage, TypeOK, Told
<1>2. CASE SubmitInline(r)
  <2>1. \A q \in Requests : rows'[WatchdogRow(q)] = rows[WatchdogRow(q)]
    BY <1>2, AppendOther DEF SubmitInline, MessageStatus
  <2> QED
    BY <1>0, <1>2, <2>1, SweepsStayTold DEF SubmitInline, TypeOK, Told
<1>3. CASE PublishDropped(r)
  BY <1>0, <1>3, SweepsStayTold DEF PublishDropped, TypeOK, Told
<1>4. CASE Publish(r)
  BY <1>0, <1>4, SweepsStayTold DEF Publish, TypeOK, Told
<1>5. CASE PublishFails(r)
  BY <1>0, <1>5, SweepsStayTold DEF PublishFails, TypeOK, Told
<1>6. CASE PublishConfirmed(r)
  BY <1>0, <1>6, SweepsStayTold DEF PublishConfirmed, TypeOK, Told
<1>7. CASE Register(r)
  BY <1>0, <1>7, SweepsStayTold DEF Register, TypeOK, Told
<1>8. CASE RecordSubmitFailure(r)
  <2>1. \A q \in Requests : rows'[WatchdogRow(q)] = rows[WatchdogRow(q)]
    BY <1>8, AppendOther DEF RecordSubmitFailure, MessageStatus
  <2> QED
    BY <1>0, <1>8, <2>1, SweepsStayTold DEF RecordSubmitFailure, TypeOK, Told
<1>9. CASE AgentTakes(r)
  BY <1>0, <1>9, SweepsStayTold DEF AgentTakes, TypeOK, Told
<1>10. CASE AgentRefreshes(r)
  BY <1>0, <1>10, SweepsStayTold DEF AgentRefreshes, TypeOK, Told
<1>11. CASE AgentAnswers(r)
  BY <1>0, <1>11, SweepsStayTold DEF AgentAnswers, TypeOK, Told
<1>12. CASE AgentMarksDone(r)
  BY <1>0, <1>12, SweepsStayTold DEF AgentMarksDone, TypeOK, Told
<1>13. CASE AgentDies(r)
  BY <1>0, <1>13, SweepsStayTold DEF AgentDies, TypeOK, Told, InTime
<1>14. CASE AliveExpires(r)
  BY <1>0, <1>14, SweepsStayTold DEF AliveExpires, TypeOK, Told, InTime
<1>15. CASE KeysExpire(r)
  BY <1>0, <1>15, SweepsStayTold DEF KeysExpire, TypeOK, Told
<1> QED
  BY <1>1, <1>2, <1>3, <1>4, <1>5, <1>6, <1>7, <1>8, <1>9, <1>10, <1>11, <1>12,
     <1>13, <1>14, <1>15 DEF Handler, AgentGoesOn

\* Results do not touch what the watchdog looks at.
LEMMA ConsumerTells ==
  ASSUME TypeOK, Told, NEW res \in Result, Consumer(res)
  PROVE  Told'
<1> USE DEF redisVars, Lapsed, Silent, HeartbeatTells
<1>0. \A q \in Requests : WatchdogRow(q)' = WatchdogRow(q)
  BY DEF WatchdogRow
<1>1. CASE AppendResult(res)
  <2>1. \A q \in Requests : rows'[WatchdogRow(q)] = rows[WatchdogRow(q)]
    BY <1>1, AppendOther DEF AppendResult, Result, MessageStatus
  <2> QED
    BY <1>0, <1>1, <2>1, SweepsStayTold DEF AppendResult, Told
<1>2. CASE AckResult(res)
  BY <1>0, <1>2, SweepsStayTold DEF AckResult, Told
<1>3. CASE RejectResult(res)
  BY <1>0, <1>3, SweepsStayTold DEF RejectResult, Told
<1> QED
  BY <1>1, <1>2, <1>3 DEF Consumer

\* A sweep moves on with what is right about it.
LEMMA SweepMoves ==
  ASSUME TypeOK, Told, NEW w \in Watchdogs, NEW sweep \in Sweep, SetDog(w, sweep),
         UNCHANGED <<send, queue, agent, chat, alive>>,
         inflight' \subseteq inflight, done \subseteq done',
         \A r \in Requests : rows'[WatchdogRow(r)] > 0 =>
           rows[WatchdogRow(r)] > 0 \/ agent[r] = "dead",
         sweep.todo \subseteq dog[w].todo \cup inflight,
         \A r \in sweep.rid :
           /\ Silent(r)
           /\ sweep.pc \in {"remove", "get"} /\ sweep.claimed => agent[r] = "dead" \/ Lapsed(r),
         \A r \in sweep.dead : agent[r] = "dead"
  PROVE  Told'
<1>0. \A q \in Requests : WatchdogRow(q)' = WatchdogRow(q)
  BY DEF WatchdogRow
<1>1. \A v \in Watchdogs : dog'[v] = IF v = w THEN sweep ELSE dog[v]
  BY DEF SetDog, TypeOK
<1>2. \A r \in Requests : HeartbeatTells(r)'
  BY <1>0 DEF Told, HeartbeatTells, Silent, Lapsed
<1>3. \A v \in Watchdogs : SweepTells(v)'
  <2> SUFFICES ASSUME NEW v \in Watchdogs
               PROVE  SweepTells(v)'
    OBVIOUS
  <2>1. CASE v = w
    <3>1. dog'[v] = sweep
      BY <1>1, <2>1
    <3>2. \A r \in inflight : r \in alive \/ Silent(r)
      BY DEF Told, HeartbeatTells, TypeOK
    <3>3. \A r \in dog[w].todo : r \in alive \/ Silent(r)
      BY DEF Told, SweepTells
    <3> QED
      BY <3>1, <3>2, <3>3 DEF SweepTells, HasClaimed, Silent, Lapsed
  <2>2. CASE v # w
    <3>1. dog'[v] = dog[v]
      BY <1>1, <2>2
    <3> QED
      BY <3>1 DEF Told, SweepTells, HasClaimed, Silent, Lapsed
  <2> QED
    BY <2>1, <2>2
<1> QED
  BY <1>2, <1>3 DEF Told

\* The watchdog claims and reports only what is dead.
LEMMA WatchdogTells ==
  ASSUME TypeOK, ReportInv, Told, NEW w \in Watchdogs, Watchdog(w)
  PROVE  Told'
<1> USE DEF redisVars, brokerVars
<1>a. dog[w] \in Sweep /\ SweepTells(w)
  BY DEF TypeOK, Told
<1>b. \A r, q \in dog[w].rid : r = q
  BY DEF ReportInv, OneInHand
<1>1. CASE SweepBegins(w)
  <2> DEFINE sweep == [Asleep EXCEPT !.pc = "sweep", !.todo = inflight]
  <2>1. /\ sweep \in Sweep /\ sweep.dead = {} /\ sweep.rid = {} /\ sweep.pc = "sweep"
        /\ sweep.todo = inflight
    BY DEF Asleep, Sweep, TypeOK
  <2> HIDE DEF sweep
  <2>2. SetDog(w, sweep)
    BY <1>1 DEF SweepBegins, sweep
  <2> QED
    BY <1>1, <2>1, <2>2, SweepMoves DEF SweepBegins
<1>2. CASE SweepEnds(w)
  <2> DEFINE sweep == IF dog[w].dead = {} THEN Asleep ELSE [dog[w] EXCEPT !.pc = "report"]
  <2>1. /\ sweep \in Sweep /\ sweep.dead \subseteq dog[w].dead /\ sweep.pc \in {"sleep", "report"}
        /\ sweep.rid \subseteq dog[w].rid /\ sweep.todo \subseteq dog[w].todo
    BY <1>a DEF Asleep, Sweep
  <2>2. SetDog(w, sweep)
    BY <1>2 DEF SweepEnds
  <2> HIDE DEF sweep
  <2> QED
    BY <1>2, <1>a, <2>1, <2>2, SweepMoves DEF SweepEnds, SweepTells
<1>3. ASSUME NEW r \in Requests
      PROVE  /\ NextRequest(w, r) \in Sweep
             /\ NextRequest(w, r).dead = dog[w].dead
             /\ NextRequest(w, r).rid = {}
             /\ NextRequest(w, r).pc = "sweep"
             /\ NextRequest(w, r).todo \subseteq dog[w].todo
  BY <1>a DEF NextRequest, Sweep
<1>4. ASSUME NEW r \in Requests, SetDog(w, NextRequest(w, r)),
             UNCHANGED <<send, rows, queue, agent, chat, alive, done>>, inflight' \subseteq inflight
      PROVE  Told'
  <2>1. PICK sweep : sweep = NextRequest(w, r)
    OBVIOUS
  <2> QED
    BY <1>3, <1>4, <1>a, <2>1, SweepMoves DEF SweepTells
<1>5. ASSUME NEW r \in Requests, CheckAlive(w, r)
      PROVE  Told'
  <2> DEFINE sweep == [dog[w] EXCEPT !.pc = "claim", !.rid = {r}]
  <2>1. /\ sweep \in Sweep /\ sweep.dead = dog[w].dead /\ sweep.rid = {r} /\ sweep.pc = "claim"
        /\ sweep.todo = dog[w].todo
    BY <1>a DEF Sweep
  <2>2. CASE r \in alive
    BY <1>4, <1>5, <2>2 DEF CheckAlive
  <2>3. CASE r \notin alive
    <3>1. SetDog(w, sweep) /\ UNCHANGED <<send, rows, brokerVars, agent, redisVars>>
      BY <1>5, <2>3 DEF CheckAlive
    <3>2. Silent(r)
      BY <1>5, <1>a, <2>3 DEF CheckAlive, SweepTells
    <3> HIDE DEF sweep
    <3> QED
      BY <1>a, <2>1, <3>1, <3>2, SweepMoves DEF SweepTells
  <2> QED
    BY <2>2, <2>3
<1>6. ASSUME NEW r \in Requests, Claim(w, r)
      PROVE  Told'
  <2> DEFINE sweep == [dog[w] EXCEPT !.pc = "remove", !.claimed = r \notin done]
  <2>1. /\ sweep \in Sweep /\ sweep.dead = dog[w].dead /\ sweep.rid = dog[w].rid
        /\ sweep.todo = dog[w].todo /\ (sweep.claimed <=> r \notin done)
    BY <1>a DEF Sweep
  <2>2. /\ SetDog(w, sweep) /\ UNCHANGED <<send, rows, brokerVars, agent, chat, alive, inflight>>
        /\ done \subseteq done'
    BY <1>6 DEF Claim
  <2>3. \A q \in sweep.rid : q = r /\ Silent(q)
    BY <1>6, <1>a, <1>b, <2>1 DEF Claim, SweepTells
  <2>4. Silent(r) /\ r \notin done => agent[r] = "dead" \/ Lapsed(r)
    BY DEF Silent, Told, HeartbeatTells
  <2> HIDE DEF sweep
  <2> QED
    BY <1>a, <2>1, <2>2, <2>3, <2>4, SweepMoves DEF SweepTells
<1>7. ASSUME NEW r \in Requests, RemoveInflight(w, r)
      PROVE  Told'
  <2>1. CASE dog[w].claimed
    <3> DEFINE sweep == [dog[w] EXCEPT !.pc = "get"]
    <3>1. /\ sweep \in Sweep /\ sweep.dead = dog[w].dead /\ sweep.rid = dog[w].rid
          /\ sweep.todo = dog[w].todo
      BY <1>a DEF Sweep
    <3>2. /\ SetDog(w, sweep) /\ UNCHANGED <<send, rows, brokerVars, agent, chat, alive, done>>
          /\ inflight' \subseteq inflight
      BY <1>7, <2>1 DEF RemoveInflight
    <3>3. \A q \in dog[w].rid : HasClaimed(w, q)
      BY <1>7, <2>1 DEF RemoveInflight, HasClaimed
    <3> HIDE DEF sweep
    <3> QED
      BY <1>a, <3>1, <3>2, <3>3, SweepMoves DEF SweepTells
  <2>2. CASE ~dog[w].claimed
    BY <1>4, <1>7, <2>2 DEF RemoveInflight
  <2> QED
    BY <2>1, <2>2
<1>8. ASSUME NEW r \in Requests, GetChat(w, r)
      PROVE  Told'
  <2>1. CASE r \in chat
    <3> DEFINE sweep == [NextRequest(w, r) EXCEPT !.dead = @ \cup {r}]
    <3>1. /\ sweep \in Sweep /\ sweep.dead = dog[w].dead \cup {r} /\ sweep.rid = {}
          /\ sweep.todo \subseteq dog[w].todo
      BY <1>3 DEF Sweep
    <3>2. SetDog(w, sweep) /\ UNCHANGED <<send, rows, brokerVars, agent, redisVars>>
      BY <1>8, <2>1 DEF GetChat
    <3>3. agent[r] = "dead"
      BY <1>8, <1>a, <2>1 DEF GetChat, SweepTells, HasClaimed, Lapsed, ReportInv, OneInHand
    <3> HIDE DEF sweep
    <3> QED
      BY <1>a, <3>1, <3>2, <3>3, SweepMoves DEF SweepTells
  <2>2. CASE r \notin chat
    BY <1>4, <1>8, <2>2 DEF GetChat
  <2> QED
    BY <2>1, <2>2
<1>9. ASSUME NEW r \in Requests, SweepFails(w, r)
      PROVE  Told'
  BY <1>4, <1>9 DEF SweepFails
<1>10. ASSUME NEW r \in Requests, Report(w, r)
      PROVE  Told'
  <2> DEFINE sweep == IF dog[w].dead = {r} THEN Asleep ELSE [dog[w] EXCEPT !.dead = @ \ {r}]
  <2>1. /\ sweep \in Sweep /\ sweep.dead \subseteq dog[w].dead /\ sweep.rid \subseteq dog[w].rid
        /\ sweep.pc \in {"sleep", "report"} /\ sweep.todo \subseteq dog[w].todo
    BY <1>10, <1>a DEF Sweep, Asleep, Report
  <2>2. SetDog(w, sweep) /\ UNCHANGED <<send, brokerVars, agent, redisVars>>
    BY <1>10 DEF Report
  <2>3. agent[r] = "dead"
    BY <1>10, <1>a DEF Report, SweepTells
  <2>4. \A q \in Requests : rows'[WatchdogRow(q)] > 0 => rows[WatchdogRow(q)] > 0 \/ q = r
    BY <1>10, AppendReport DEF Report
  <2> HIDE DEF sweep
  <2> QED
    BY <1>a, <2>1, <2>2, <2>3, <2>4, SweepMoves DEF SweepTells
<1> QED
  BY <1>1, <1>2, <1>5, <1>6, <1>7, <1>8, <1>9, <1>10 DEF Watchdog

LEMMA StepDeadAreDead == TypeOK /\ ReportInv /\ DeadAreDead /\ [Next]_vars => DeadAreDead'
<1> SUFFICES ASSUME TypeOK, ReportInv, DeadAreDead, [Next]_vars, InTime
             PROVE  Told'
  BY FaultsStay DEF DeadAreDead, Told, InTime
<1>0. Told
  BY DEF DeadAreDead, Told
<1>1. CASE UNCHANGED vars
  BY <1>0, <1>1 DEF vars, brokerVars, redisVars, Told, HeartbeatTells, SweepTells, HasClaimed,
     Silent, Lapsed, WatchdogRow
<1>2. CASE Crash
  <2>0. \A q \in Requests : WatchdogRow(q)' = WatchdogRow(q)
    BY DEF WatchdogRow
  <2>1. \A w \in Watchdogs : dog'[w].todo = {} /\ dog'[w].rid = {} /\ dog'[w].dead = {}
    BY <1>2 DEF Crash, Asleep
  <2> QED
    BY <1>0, <1>2, <2>0, <2>1 DEF Crash, redisVars, Told, HeartbeatTells, SweepTells, Silent, Lapsed,
       TypeOK
<1> QED
  BY <1>0, <1>1, <1>2, StepHeartbeats, ConsumerTells, WatchdogTells DEF Next

-----------------------------------------------------------------------------
(* One party at a time may answer.                                         *)

Spoken == OneResult /\ \A r \in Requests : Turns(r)

\* One more row of r, and nothing else.
LEMMA AppendAnswers ==
  ASSUME TypeOK, NEW r \in Requests, NEW status \in MessageStatus,
         NEW by \in {"submit", "watchdog", "agent"}, NEW row,
         row = [req |-> r, status |-> status, by |-> by], AppendRow(r, status, by)
  PROVE  /\ row \in Row /\ rows'[row] = rows[row] + 1
         /\ Answers(r)' = Answers(r) \cup {row}
         /\ \A q \in Requests \ {r} : Answers(q)' = Answers(q)
         /\ \A a \in Row : a # row => rows'[a] = rows[a]
         /\ row \notin Answers(r) => rows'[row] = 1
<1>1. row \in Row
  BY DEF Row
<1>2. rows' = [rows EXCEPT ![row] = @ + 1]
  BY DEF AppendRow
<1>3. row.req = r
  OBVIOUS
<1>4. rows[row] \in Nat
  BY <1>1 DEF TypeOK
<1> QED
  BY <1>1, <1>2, <1>3, <1>4 DEF Answers, TypeOK

LEMMA SameAnswers ==
  ASSUME UNCHANGED rows
  PROVE  \A r \in Requests : Answers(r)' = Answers(r)
BY DEF Answers

\* The first row that answers r.
LEMMA FirstAnswer ==
  ASSUME TypeOK, NEW r \in Requests, Turns(r), Answers(r) = {},
         NEW status \in MessageStatus, NEW by \in {"submit", "watchdog", "agent"},
         AppendRow(r, status, by)
  PROVE  /\ \A a \in Answers(r)' : a.by = by
         /\ \A a, b \in Answers(r)' : a = b /\ rows'[a] = 1
         /\ \A a \in Answers(r)' : a = [req |-> r, status |-> status, by |-> by]
<1>1. PICK row : row = [req |-> r, status |-> status, by |-> by]
  OBVIOUS
<1> QED
  BY <1>1, AppendAnswers

\* The rows of others stay what they are.
LEMMA OtherTurns ==
  ASSUME TypeOK, Spoken, NEW r \in Requests, NEW status \in MessageStatus,
         NEW by \in {"submit", "watchdog", "agent"}, AppendRow(r, status, by)
  PROVE  \A q \in Requests \ {r} : \A a \in Answers(q) : rows'[a] = rows[a]
<1>1. PICK row : row = [req |-> r, status |-> status, by |-> by]
  OBVIOUS
<1> QED
  BY <1>1, AppendAnswers DEF Answers

\* send_message speaks, or hands over.
LEMMA StepSubmit ==
  ASSUME TypeOK, Told, Spoken, OneChain, NEW r \in Requests, SendMessage(r) \/ Handler(r)
  PROVE  Spoken'
<1> USE DEF brokerVars, redisVars
<1>0. \A q \in Requests : WatchdogRow(q)' = WatchdogRow(q)
  BY DEF WatchdogRow
<1>1. ASSUME NEW status \in MessageStatus, AppendRow(r, status, "submit"), Answers(r) = {},
             agent[r] = "none", r \notin queue,
             UNCHANGED <<queue, results, appended, agent>>,
             send'[r] = "over", \A q \in Requests \ {r} : send'[q] = send[q]
      PROVE  Spoken'
  <2>1. /\ \A a \in Answers(r)' : a.by = "submit"
        /\ \A a, b \in Answers(r)' : a = b /\ rows'[a] = 1
    BY <1>1, FirstAnswer DEF Spoken
  <2>2. \A q \in Requests \ {r} : Answers(q)' = Answers(q) /\ \A a \in Answers(q) : rows'[a] = rows[a]
    BY <1>1, AppendAnswers, OtherTurns
  <2>3. Turns(r)'
    BY <1>1, <2>1 DEF Spoken, Turns, TypeOK
  <2>4. \A q \in Requests \ {r} : Turns(q)'
    BY <1>0, <1>1, <2>2 DEF Spoken, Turns, TypeOK
  <2>5. OneResult'
    BY <1>1, <2>1, <2>2 DEF Spoken, OneResult, TypeOK, Result
  <2> QED
    BY <2>3, <2>4, <2>5 DEF Spoken
<1>2. ASSUME UNCHANGED <<rows, results, appended, agent>>,
             \A q \in Requests \ {r} : send'[q] = send[q],
             send'[r] \in {"publish", "refuse"} =>
               send[r] \in {"new", "publish"} /\ UNCHANGED queue,
             send'[r] # "new",
             queue' = queue \/ (send[r] = "publish" /\ queue' = queue \cup {r})
      PROVE  Spoken'
  <2>1. \A q \in Requests : Answers(q)' = Answers(q)
    BY <1>2, SameAnswers
  <2>2. \A q \in Requests : Turns(q)'
    BY <1>0, <1>2, <2>1 DEF Spoken, Turns, TypeOK
  <2>3. OneResult'
    BY <1>2, <2>1 DEF Spoken, OneResult, TypeOK, Result
  <2> QED
    BY <2>2, <2>3 DEF Spoken
<1>3. CASE SendMessage(r)
  <2>1. send'[r] = "publish" /\ (\A q \in Requests \ {r} : send'[q] = send[q]) /\ send[r] = "new"
    BY <1>3 DEF SendMessage, SendStep, TypeOK
  <2> QED
    BY <1>2, <1>3, <2>1 DEF SendMessage
<1>4. CASE SubmitInline(r)
  <2>1. Answers(r) = {} /\ agent[r] = "none" /\ r \notin queue
    BY <1>4 DEF SubmitInline, SendStep, Spoken, Turns
  <2>2. send'[r] = "over" /\ \A q \in Requests \ {r} : send'[q] = send[q]
    BY <1>4 DEF SubmitInline, SendStep, TypeOK
  <2>3. CASE AppendRow(r, "completed", "submit")
    BY <1>1, <1>4, <2>1, <2>2, <2>3 DEF SubmitInline, MessageStatus
  <2> QED
    BY <1>2, <1>4, <2>2, <2>3 DEF SubmitInline
<1>5. CASE PublishDropped(r)
  <2>1. send'[r] = "over" /\ (\A q \in Requests \ {r} : send'[q] = send[q])
    BY <1>5 DEF PublishDropped, SendStep, TypeOK
  <2> QED
    BY <1>2, <1>5, <2>1 DEF PublishDropped
<1>6. CASE Publish(r)
  <2>1. send'[r] = "confirm" /\ (\A q \in Requests \ {r} : send'[q] = send[q]) /\ send[r] = "publish"
    BY <1>6 DEF Publish, SendStep, TypeOK
  <2> QED
    BY <1>2, <1>6, <2>1 DEF Publish
<1>7. CASE PublishFails(r)
  <2>1. send'[r] = "refuse" /\ (\A q \in Requests \ {r} : send'[q] = send[q]) /\ send[r] = "publish"
    BY <1>7 DEF PublishFails, SendStep, TypeOK, OneChain
  <2> QED
    BY <1>2, <1>7, <2>1 DEF PublishFails
<1>8. CASE PublishConfirmed(r)
  <2>1. send'[r] = "register" /\ (\A q \in Requests \ {r} : send'[q] = send[q])
    BY <1>8 DEF PublishConfirmed, SendStep, TypeOK
  <2> QED
    BY <1>2, <1>8, <2>1 DEF PublishConfirmed
<1>9. CASE Register(r)
  <2>1. send'[r] = "over" /\ (\A q \in Requests \ {r} : send'[q] = send[q])
    BY <1>9 DEF Register, SendStep, TypeOK
  <2> QED
    BY <1>2, <1>9, <2>1 DEF Register
<1>10. CASE RecordSubmitFailure(r)
  <2>1. Answers(r) = {} /\ agent[r] = "none" /\ r \notin queue
    BY <1>10 DEF RecordSubmitFailure, SendStep, Spoken, Turns
  <2>2. send'[r] = "over" /\ \A q \in Requests \ {r} : send'[q] = send[q]
    BY <1>10 DEF RecordSubmitFailure, SendStep, TypeOK
  <2>3. CASE AppendRow(r, "failed", "submit")
    BY <1>1, <1>10, <2>1, <2>2, <2>3 DEF RecordSubmitFailure, MessageStatus
  <2> QED
    BY <1>2, <1>10, <2>2, <2>3 DEF RecordSubmitFailure
<1> QED
  BY <1>3, <1>4, <1>5, <1>6, <1>7, <1>8, <1>9, <1>10 DEF Handler

\* The agent takes what was handed over, and has one result for it.
LEMMA StepAgentSpeaks ==
  ASSUME TypeOK, Told, Spoken, OneChain, NEW r \in Requests,
         AgentTakes(r) \/ AgentRefreshes(r) \/ AgentGoesOn(r) \/ AliveExpires(r) \/ KeysExpire(r)
  PROVE  Spoken'
<1> USE DEF brokerVars, redisVars, AgentStep
<1>0. \A q \in Requests : WatchdogRow(q)' = WatchdogRow(q)
  BY DEF WatchdogRow
<1>1. UNCHANGED <<rows, send, appended>>
  BY DEF AgentTakes, AgentRefreshes, AgentGoesOn, AgentAnswers, AgentMarksDone, AgentDies,
     AliveExpires, KeysExpire
<1>2. \A q \in Requests : Answers(q)' = Answers(q)
  BY <1>1, SameAnswers
<1>3. CASE AgentTakes(r)
  <2>1. agent[r] = "none"
    BY <1>3 DEF AgentTakes, Told, HeartbeatTells
  <2>2. \A q \in Requests : Turns(q)'
    BY <1>0, <1>1, <1>2, <1>3, <2>1 DEF AgentTakes, Spoken, Turns, TypeOK
  <2> QED
    BY <1>1, <1>2, <1>3, <2>2 DEF AgentTakes, Spoken, OneResult, TypeOK, Result
<1>4. CASE AgentRefreshes(r) \/ AliveExpires(r) \/ KeysExpire(r)
  <2>1. UNCHANGED <<queue, results, agent>>
    BY <1>4 DEF AgentRefreshes, AliveExpires, KeysExpire
  <2> QED
    BY <1>0, <1>1, <1>2, <2>1 DEF Spoken, Turns, OneResult, TypeOK, Result
<1>5. CASE AgentAnswers(r)
  <2>1. PICK ok \in BOOLEAN : results' = results \cup {[req |-> r, ok |-> ok]}
    BY <1>5 DEF AgentAnswers
  <2>2. PICK res : res = [req |-> r, ok |-> ok]
    OBVIOUS
  <2>3. res.req = r /\ results' = results \cup {res}
    BY <2>1, <2>2
  <2>4. /\ \A old \in results : old.req # r
        /\ \A a \in Answers(r) : a.by # "agent" /\ a.by # "submit"
        /\ agent' = [agent EXCEPT ![r] = "answered"] /\ queue' = queue
    BY <1>5 DEF AgentAnswers, Spoken, Turns
  <2>5. \A q \in Requests : Turns(q)'
    <3> SUFFICES ASSUME NEW q \in Requests
                 PROVE  Turns(q)'
      OBVIOUS
    <3>1. CASE q = r
      BY <1>0, <1>1, <1>2, <1>5, <2>3, <2>4, <3>1 DEF AgentAnswers, Spoken, Turns, TypeOK
    <3>2. CASE q # r
      BY <1>0, <1>1, <1>2, <2>3, <2>4, <3>2 DEF Spoken, Turns, TypeOK
    <3> QED
      BY <3>1, <3>2
  <2>6. OneResult'
    BY <1>1, <1>2, <2>3, <2>4 DEF Spoken, OneResult, TypeOK, Result
  <2> QED
    BY <2>5, <2>6 DEF Spoken
<1>6. CASE AgentMarksDone(r)
  BY <1>0, <1>1, <1>2, <1>6 DEF AgentMarksDone, Spoken, Turns, OneResult, TypeOK, Result
<1>7. CASE AgentDies(r)
  <2>1. /\ agent[r] = "working" /\ agent' = [agent EXCEPT ![r] = "dead"]
        /\ UNCHANGED <<queue, results>>
    BY <1>7 DEF AgentDies, OneChain, InTime
  <2> QED
    BY <1>0, <1>1, <1>2, <2>1 DEF Spoken, Turns, OneResult, TypeOK, Result
<1> QED
  BY <1>3, <1>4, <1>5, <1>6, <1>7 DEF AgentGoesOn

\* A result becomes one row.
LEMMA StepResult ==
  ASSUME TypeOK, Told, Spoken, NEW res \in Result, Consumer(res)
  PROVE  Spoken'
<1> USE DEF redisVars
<1>0. \A q \in Requests : WatchdogRow(q)' = WatchdogRow(q)
  BY DEF WatchdogRow
<1>1. CASE AppendResult(res)
  <2>1. PICK r \in Requests : r = res.req
    BY DEF Result
  <2>2. PICK status \in MessageStatus : status = IF res.ok THEN "completed" ELSE "failed"
    BY DEF MessageStatus
  <2>3. PICK row : row = [req |-> r, status |-> status, by |-> "agent"]
    OBVIOUS
  <2>4. AppendRow(r, status, "agent")
    BY <1>1, <2>1, <2>2 DEF AppendResult
  <2>5. /\ res \in results \ appended /\ appended' = appended \cup {res}
        /\ UNCHANGED <<send, queue, results, agent>>
    BY <1>1 DEF AppendResult
  <2>6. \A a \in Answers(r) : a.by # "agent"
    BY <2>1, <2>5 DEF Spoken, OneResult
  <2>7. /\ Answers(r)' = Answers(r) \cup {row} /\ rows'[row] = 1 /\ row.by = "agent"
        /\ \A a \in Answers(r) : rows'[a] = rows[a]
    BY <2>3, <2>4, <2>6, AppendAnswers DEF Answers
  <2>8. \A q \in Requests \ {r} : Answers(q)' = Answers(q) /\ \A a \in Answers(q) : rows'[a] = rows[a]
    BY <2>4, AppendAnswers, OtherTurns
  <2>9. Turns(r)'
    <3>1. agent[r] \notin {"none", "working", "dead"} /\ Turns(r)
      BY <2>1, <2>5 DEF Spoken, Turns
    <3> QED
      BY <1>0, <2>5, <2>6, <2>7, <3>1 DEF Turns
  <2>10. \A q \in Requests \ {r} : Turns(q)'
    BY <1>0, <2>5, <2>8 DEF Spoken, Turns
  <2>11. OneResult'
    <3>1. ASSUME NEW other \in results' \ appended'
          PROVE  other.req # r /\ \A a \in Answers(other.req) : a.by # "agent"
      BY <2>1, <2>5, <3>1 DEF Spoken, OneResult
    <3>2. \A other \in results' \ appended' : other.req \in Requests \ {r}
      BY <2>5, <3>1 DEF TypeOK, Result
    <3>3. \A other \in results' \ appended' : \A a \in Answers(other.req)' : a.by # "agent"
      BY <2>8, <3>1, <3>2 DEF Answers
    <3> QED
      BY <2>5, <3>3 DEF Spoken, OneResult
  <2> QED
    BY <2>9, <2>10, <2>11 DEF Spoken
<1>2. CASE AckResult(res) \/ RejectResult(res)
  <2>1. UNCHANGED <<rows, send, queue, agent>>
    BY <1>2 DEF AckResult, RejectResult
  <2>2. results' \subseteq results /\ results' \ appended' \subseteq results \ appended
    BY <1>2 DEF AckResult, RejectResult
  <2>3. \A q \in Requests : Answers(q)' = Answers(q)
    BY <2>1, SameAnswers
  <2> QED
    BY <1>0, <2>1, <2>2, <2>3 DEF Spoken, Turns, OneResult, TypeOK, Result
<1> QED
  BY <1>1, <1>2 DEF Consumer

\* The watchdog speaks for a dead agent.
LEMMA StepWatchdogSpeaks ==
  ASSUME TypeOK, ReportInv, Told, Spoken, NEW w \in Watchdogs, Watchdog(w)
  PROVE  Spoken'
<1> USE DEF redisVars, brokerVars
<1>0. \A q \in Requests : WatchdogRow(q)' = WatchdogRow(q)
  BY DEF WatchdogRow
<1>1. UNCHANGED <<send, queue, results, appended, agent>>
  BY DEF Watchdog, SweepBegins, SweepEnds, CheckAlive, Claim, RemoveInflight, GetChat,
     SweepFails, Report
<1>2. CASE UNCHANGED rows
  <2>1. \A q \in Requests : Answers(q)' = Answers(q)
    BY <1>2, SameAnswers
  <2> QED
    BY <1>0, <1>1, <1>2, <2>1 DEF Spoken, Turns, OneResult, TypeOK, Result
<1>3. ASSUME NEW r \in Requests, Report(w, r), AppendRow(r, "failed", "watchdog")
      PROVE  Spoken'
  <2>1. PICK row : row = [req |-> r, status |-> "failed", by |-> "watchdog"]
    OBVIOUS
  <2>2. row = WatchdogRow(r) /\ row.by = "watchdog"
    BY <2>1 DEF WatchdogRow
  <2>3. rows[row] = 0 /\ agent[r] = "dead"
    BY <1>3, <2>2 DEF Report, ReportInv, OneReporter, Told, SweepTells
  <2>4. row \notin Answers(r)
    BY <2>3 DEF Answers
  <2>5. /\ Answers(r)' = Answers(r) \cup {row} /\ rows'[row] = 1
        /\ \A a \in Answers(r) : rows'[a] = rows[a]
    BY <1>3, <2>1, <2>4, AppendAnswers DEF Answers, MessageStatus
  <2>6. \A q \in Requests \ {r} : Answers(q)' = Answers(q) /\ \A a \in Answers(q) : rows'[a] = rows[a]
    BY <1>3, AppendAnswers, OtherTurns DEF MessageStatus
  <2>7. \A a \in Answers(r) : a.by # "watchdog"
    BY <2>2, <2>4 DEF Spoken, Turns
  <2>8. Turns(r)'
    <3>1. Turns(r)
      BY DEF Spoken
    <3> QED
      BY <1>0, <1>1, <2>2, <2>3, <2>5, <2>7, <3>1 DEF Turns
  <2>9. \A q \in Requests \ {r} : Turns(q)'
    BY <1>0, <1>1, <2>6 DEF Spoken, Turns
  <2>10. OneResult'
    <3>1. \A res \in results \ appended : res.req \in Requests
      BY DEF TypeOK, Result
    <3>2. \A q \in Requests : \A a \in Answers(q)' : a \in Answers(q) \/ a.by # "agent"
      BY <2>2, <2>5, <2>6
    <3>3. \A res \in results \ appended : \A a \in Answers(res.req)' : a.by # "agent"
      BY <3>1, <3>2 DEF Spoken, OneResult
    <3> QED
      BY <1>1, <3>3 DEF Spoken, OneResult
  <2> QED
    BY <2>8, <2>9, <2>10 DEF Spoken
<1>4. UNCHANGED rows \/ \E r \in Requests : Report(w, r) /\ AppendRow(r, "failed", "watchdog")
  BY DEF Watchdog, SweepBegins, SweepEnds, CheckAlive, Claim, RemoveInflight, GetChat,
     SweepFails, Report
<1> QED
  BY <1>2, <1>3, <1>4

LEMMA StepOneSpeaker ==
  TypeOK /\ ReportInv /\ AnswerInv /\ [Next]_vars => OneSpeaker'
<1> SUFFICES ASSUME TypeOK, ReportInv, AnswerInv, [Next]_vars, OneChain
             PROVE  Spoken'
  BY FaultsStay DEF OneSpeaker, Spoken, OneChain, InTime
<1>0. Told /\ Spoken
  BY DEF AnswerInv, DeadAreDead, OneSpeaker, Told, Spoken, OneChain
<1>1. CASE UNCHANGED vars
  <2>1. \A q \in Requests : Answers(q)' = Answers(q) /\ WatchdogRow(q)' = WatchdogRow(q)
    BY <1>1 DEF vars, Answers, WatchdogRow
  <2> QED
    BY <1>0, <1>1, <2>1 DEF vars, brokerVars, Spoken, Turns, OneResult, TypeOK, Result
<1>2. ~Crash
  BY DEF Crash, OneChain
<1> QED
  BY <1>0, <1>1, <1>2, StepSubmit, StepAgentSpeaks, StepResult, StepWatchdogSpeaks DEF Next

LEMMA InitAnswers == Init => AnswerInv
<1> SUFFICES ASSUME Init
             PROVE  AnswerInv
    OBVIOUS
<1>1. \A r \in Requests : Answers(r) = {} /\ rows[WatchdogRow(r)] = 0
  BY WatchdogRowType DEF Init, Answers
<1>2. \A w \in Watchdogs : dog[w].todo = {} /\ dog[w].rid = {} /\ dog[w].dead = {}
  BY DEF Init, Asleep
<1> QED
  BY <1>1, <1>2 DEF Init, AnswerInv, DeadAreDead, OneSpeaker, HeartbeatTells, SweepTells, Turns,
     OneResult

\* One party at a time may answer a request, in every reachable state.
THEOREM AnswersInTurn == Spec => []AnswerInv
<1>1. TypeOK /\ ReportInv /\ AnswerInv /\ [Next]_vars => AnswerInv'
  BY StepDeadAreDead, StepOneSpeaker DEF AnswerInv
<1> QED
  BY <1>1, InitType, InitReports, InitAnswers, StepType, StepReports, PTL DEF Spec

\* Whoever reads an answer reads the only one, and the watchdog raises no
\* false alarm: for any number of requests and watchdogs, under every fault
\* that neither delivers twice nor gives up an agent that is only late.
THEOREM AnswersAlwaysRight == Spec => []AnswersRight
<1>1. TypeOK /\ ReportInv /\ AnswerInv => AnswersRight
  <2> SUFFICES ASSUME TypeOK, ReportInv, AnswerInv
               PROVE  AnswersRight
    OBVIOUS
  <2>1. NoFalseAlarm
    BY DEF AnswerInv, DeadAreDead, HeartbeatTells, NoFalseAlarm
  <2>2. ASSUME OneChain, NEW r \in Requests, NEW a \in Answers(r), NEW b \in Answers(r)
        PROVE  a = b /\ rows[a] = 1
    <3>1. Told /\ Spoken
      BY <2>2 DEF AnswerInv, DeadAreDead, OneSpeaker, Told, Spoken, OneChain
    <3>2. Turns(r) /\ HeartbeatTells(r)
      BY <3>1 DEF Told, Spoken
    <3>3. ASSUME NEW c \in Answers(r)
          PROVE  /\ c.by \in {"submit", "watchdog", "agent"}
                 /\ c.by = "submit" => agent[r] = "none"
                 /\ c.by = "watchdog" => agent[r] = "dead"
                 /\ c.by = "agent" => agent[r] \notin {"none", "working", "dead"}
      BY <3>2, <3>3 DEF Turns, HeartbeatTells, Answers, Row
    <3>4. a.by = b.by
      BY <3>3
    <3> QED
      BY <3>2, <3>4 DEF Turns
  <2> QED
    BY <2>1, <2>2 DEF AnswersRight, AnsweredOnce
<1> QED
  BY <1>1, GenerationTypeCorrect, ReportsCorrect, AnswersInTurn, PTL
=============================================================================
