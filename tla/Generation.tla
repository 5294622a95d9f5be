----------------------------- MODULE Generation -----------------------------
(***************************************************************************)
(* One reply of the model, from the user's message to the row that answers *)
(* it: LLMChatsService.send_message and ScripulyaAgentClient.publish, the  *)
(* Redis heartbeat keys, the GenerationWatchdog, and the consumer of the   *)
(* result queue.  scripulya_agent and RabbitMQ are external and modelled   *)
(* from docs/AGENT_HANGING.md and from what the code expects of them.      *)
(*                                                                         *)
(* A step ends at an await that another party can use: a commit, a broker  *)
(* call, a Redis command.                                                  *)
(***************************************************************************)
EXTENDS Naturals, FiniteSets

CONSTANTS
  Requests,     \* generations (request_id), each for one user message
  Watchdogs,    \* running GenerationWatchdog loops
  MaxCrashes,   \* bound on the crashes of the backend
  MaxRows,      \* bound on the answers one delivery chain may append
  Scenarios     \* the sets of faults to look at, see FaultKinds

(***************************************************************************)
(* "crash"      the backend dies                                            *)
(* "confirm"    a publish whose confirmation fails though it was delivered *)
(* "dies"       the agent dies before it has published its result          *)
(* "unmarked"   the agent dies between its result and mark_done            *)
(* "stall"      :alive expires under an agent that works, or before one    *)
(*              has taken the request                                      *)
(* "redeliver"  RabbitMQ hands a dead agent's request out again            *)
(* "redis"      a Redis command of the backend fails                       *)
(* "database"   an append of the backend fails                             *)
(* "outage"     nobody sweeps for longer than the TTLs of :chat and :done  *)
(* "disabled"   LLM_AGENT_ENABLED is false                                 *)
(***************************************************************************)
FaultKinds == {"crash", "confirm", "dies", "unmarked", "stall", "redeliver",
               "redis", "database", "outage", "disabled"}

ASSUME RequestsAssumption == IsFiniteSet(Requests)
ASSUME BoundsAssumption == MaxCrashes \in Nat /\ MaxRows \in Nat
ASSUME ScenariosAssumption == Scenarios \subseteq SUBSET FaultKinds

VARIABLES
  send,      \* where the handler of the user's message stands
  rows,      \* how many rows of each kind answer each request
  queue,     \* LLM_AGENT_REQUEST_QUEUE
  results,   \* LLM_AGENT_RESULT_QUEUE
  appended,  \* results whose row is committed but which are not acknowledged
  agent,     \* the agent's work on each request
  inflight,  \* gen:inflight
  chat,      \* requests with a gen:{rid}:chat key
  alive,     \* requests with a gen:{rid}:alive key
  done,      \* requests with a gen:{rid}:done key
  dog,       \* the sweep each watchdog is in
  crashes,   \* crashes of the backend so far
  faults     \* what the environment may do wrong in this behaviour

redisVars == <<inflight, chat, alive, done>>
brokerVars == <<queue, results, appended>>
vars == <<send, rows, brokerVars, agent, redisVars, dog, crashes, faults>>

-----------------------------------------------------------------------------
(* Handlers, rows, sweeps.                                                 *)

\* "publish" once the user message is committed, "confirm" while the broker
\* is asked to confirm, "register" before register_inflight, "refuse" before
\* the FAILED row of a failed submit.
SendSteps == {"new", "publish", "confirm", "register", "refuse", "over"}

MessageStatus == {"pending", "completed", "failed"}

\* Who appended a model message: send_message, the watchdog, the consumer.
Row == [req : Requests, status : MessageStatus, by : {"submit", "watchdog", "agent"}]

Result == [req : Requests, ok : BOOLEAN]

AgentSteps == {"none", "working", "answered", "marked", "over", "dead"}

\* sweep_dead: todo is the rest of SMEMBERS, rid the request in hand,
\* claimed the answer of SET NX, dead what sweep_once has to report.
Sweep == [pc : {"sleep", "sweep", "claim", "remove", "get", "report"},
          todo : SUBSET Requests,
          rid : SUBSET Requests,
          claimed : BOOLEAN,
          dead : SUBSET Requests]

Asleep == [pc |-> "sleep", todo |-> {}, rid |-> {}, claimed |-> FALSE, dead |-> {}]

\* The type invariant: every key, queue, row counter and sweep holds what its
\* declaration says, and a result whose row is committed stays a delivery of
\* RabbitMQ until the handler returns (handle_agent_result acknowledges last).
TypeOK ==
  /\ send \in [Requests -> SendSteps]
  /\ rows \in [Row -> Nat]
  /\ queue \in SUBSET Requests
  /\ results \in SUBSET Result
  /\ appended \in SUBSET results
  /\ agent \in [Requests -> AgentSteps]
  /\ inflight \in SUBSET Requests
  /\ chat \in SUBSET Requests
  /\ alive \in SUBSET Requests
  /\ done \in SUBSET Requests
  /\ dog \in [Watchdogs -> Sweep]
  /\ crashes \in 0..MaxCrashes
  /\ faults \in Scenarios

Init ==
  /\ send = [r \in Requests |-> "new"]
  /\ rows = [row \in Row |-> 0]
  /\ queue = {}
  /\ results = {}
  /\ appended = {}
  /\ agent = [r \in Requests |-> "none"]
  /\ inflight = {}
  /\ chat = {}
  /\ alive = {}
  /\ done = {}
  /\ dog = [w \in Watchdogs |-> Asleep]
  /\ crashes = 0
  /\ faults \in Scenarios

AppendRow(r, status, by) ==
  rows' = [rows EXCEPT ![[req |-> r, status |-> status, by |-> by]] = @ + 1]

-----------------------------------------------------------------------------
(* LLMChatsService.send_message, from the commit of the user's message on. *)

SendStep(r, from, to) == send[r] = from /\ send' = [send EXCEPT ![r] = to]

\* The user's message is committed.
SendMessage(r) ==
  /\ SendStep(r, "new", "publish")
  /\ UNCHANGED <<rows, brokerVars, agent, redisVars, dog, crashes, faults>>

\* The mock gateway answers inline; the reply is appended, or the request
\* fails.
SubmitInline(r) ==
  /\ SendStep(r, "publish", "over")
  /\ \/ AppendRow(r, "completed", "submit")
     \/ "database" \in faults /\ UNCHANGED rows
  /\ UNCHANGED <<brokerVars, agent, redisVars, dog, crashes, faults>>

\* MockScripulyaAgentClient.publish drops the request.
PublishDropped(r) ==
  /\ "disabled" \in faults
  /\ SendStep(r, "publish", "over")
  /\ UNCHANGED <<rows, brokerVars, agent, redisVars, dog, crashes, faults>>

\* broker.publish: the broker has the request.
Publish(r) ==
  /\ SendStep(r, "publish", "confirm")
  /\ queue' = queue \cup {r}
  /\ UNCHANGED <<rows, results, appended, agent, redisVars, dog, crashes, faults>>

\* broker.publish raises: the broker is down, or it did not confirm in time.
PublishFails(r) ==
  /\ \/ SendStep(r, "publish", "refuse")
     \/ "confirm" \in faults /\ SendStep(r, "confirm", "refuse")
  /\ UNCHANGED <<rows, brokerVars, agent, redisVars, dog, crashes, faults>>

\* The form of PublishConfirmed that leaves the request unregistered.
ConfirmedUnregistered(r) ==
  /\ SendStep(r, "confirm", "over")
  /\ UNCHANGED <<rows, brokerVars, agent, redisVars, dog, crashes, faults>>

PublishConfirmed(r) ==
  /\ SendStep(r, "confirm", "register")
  /\ UNCHANGED <<rows, brokerVars, agent, redisVars, dog, crashes, faults>>

\* register_inflight: one MULTI, or nothing when Redis fails.
Register(r) ==
  /\ SendStep(r, "register", "over")
  /\ \/ /\ inflight' = inflight \cup {r}
        /\ chat' = chat \cup {r}
        /\ alive' = alive \cup {r}
     \/ "redis" \in faults /\ UNCHANGED <<inflight, chat, alive>>
  /\ UNCHANGED <<rows, brokerVars, agent, done, dog, crashes, faults>>

\* send_message records the failed submit; an exception there is swallowed.
RecordSubmitFailure(r) ==
  /\ SendStep(r, "refuse", "over")
  /\ \/ AppendRow(r, "failed", "submit")
     \/ "database" \in faults /\ UNCHANGED rows
  /\ UNCHANGED <<brokerVars, agent, redisVars, dog, crashes, faults>>

-----------------------------------------------------------------------------
(* scripulya_agent and the passing of time (external).                     *)

AgentStep(r, from, to) == agent[r] = from /\ agent' = [agent EXCEPT ![r] = to]

\* The agent takes the request and starts its heartbeat.
AgentTakes(r) ==
  /\ r \in queue
  /\ agent[r] \in {"none", "dead"}
  /\ agent' = [agent EXCEPT ![r] = "working"]
  /\ queue' = queue \ {r}
  /\ alive' = alive \cup {r}
  /\ UNCHANGED <<send, rows, results, appended, inflight, chat, done, dog, crashes, faults>>

AgentRefreshes(r) ==
  /\ agent[r] = "working"
  /\ alive' = alive \cup {r}
  /\ UNCHANGED <<send, rows, brokerVars, agent, inflight, chat, done, dog, crashes, faults>>

\* It publishes a reply or an error ...
AgentAnswers(r) ==
  /\ AgentStep(r, "working", "answered")
  /\ \E ok \in BOOLEAN : results' = results \cup {[req |-> r, ok |-> ok]}
  /\ UNCHANGED <<send, rows, queue, appended, redisVars, dog, crashes, faults>>

\* ... and then runs mark_done: SET :done, and only then DEL :alive.
AgentMarksDone(r) ==
  /\ \/ /\ AgentStep(r, "answered", "marked")
        /\ done' = done \cup {r}
        /\ UNCHANGED alive
     \/ /\ AgentStep(r, "marked", "over")
        /\ alive' = alive \ {r}
        /\ UNCHANGED done
  /\ UNCHANGED <<send, rows, brokerVars, inflight, chat, dog, crashes, faults>>

AgentDies(r) ==
  /\ \/ "dies" \in faults /\ AgentStep(r, "working", "dead")
     \/ "unmarked" \in faults /\ AgentStep(r, "answered", "dead")
  /\ \/ UNCHANGED queue
     \/ "redeliver" \in faults /\ queue' = queue \cup {r}
  /\ UNCHANGED <<send, rows, results, appended, redisVars, dog, crashes, faults>>

\* :alive expires: the agent is gone or has finished, or it is late.
AliveExpires(r) ==
  /\ r \in alive
  /\ agent[r] \in {"dead", "over"} \/ "stall" \in faults
  /\ alive' = alive \ {r}
  /\ UNCHANGED <<send, rows, brokerVars, agent, inflight, chat, done, dog, crashes, faults>>

\* The form of KeysExpire in which :done does not outlive :chat.
DoneExpiresFirst(r) ==
  /\ "outage" \in faults
  /\ r \notin alive
  /\ \/ r \in chat /\ chat' = chat \ {r} /\ UNCHANGED done
     \/ r \in done /\ done' = done \ {r} /\ UNCHANGED chat
  /\ UNCHANGED <<send, rows, brokerVars, agent, inflight, alive, dog, crashes, faults>>

\* The backstop TTLs pass: LLM_HEARTBEAT_HARD_DEADLINE_SECONDS of :chat
\* (1800) and then _DONE_TTL_SECONDS (3600), both longer than any sweep.
KeysExpire(r) ==
  /\ "outage" \in faults
  /\ r \notin alive
  /\ send[r] = "over"
  /\ \A w \in Watchdogs : dog[w] = Asleep
  /\ \/ r \in chat /\ chat' = chat \ {r} /\ UNCHANGED done
     \/ r \in done \ chat /\ done' = done \ {r} /\ UNCHANGED chat
  /\ UNCHANGED <<send, rows, brokerVars, agent, inflight, alive, dog, crashes, faults>>

-----------------------------------------------------------------------------
(* RedisGenerationHeartbeat.sweep_dead and GenerationWatchdog.sweep_once.  *)

SetDog(w, sweep) == dog' = [dog EXCEPT ![w] = sweep]

\* On to the next request of the sweep.
NextRequest(w, r) == [dog[w] EXCEPT !.pc = "sweep", !.todo = @ \ {r}, !.rid = {},
                                    !.claimed = FALSE]

\* SMEMBERS gen:inflight
SweepBegins(w) ==
  /\ dog[w].pc = "sleep"
  /\ inflight # {}
  /\ SetDog(w, [Asleep EXCEPT !.pc = "sweep", !.todo = inflight])
  /\ UNCHANGED <<send, rows, brokerVars, agent, redisVars, crashes, faults>>

\* EXISTS :alive
CheckAlive(w, r) ==
  /\ dog[w].pc = "sweep"
  /\ r \in dog[w].todo
  /\ SetDog(w, IF r \in alive THEN NextRequest(w, r)
               ELSE [dog[w] EXCEPT !.pc = "claim", !.rid = {r}])
  /\ UNCHANGED <<send, rows, brokerVars, agent, redisVars, crashes, faults>>

\* The form of Claim without NX.
ClaimAnyway(w, r) ==
  /\ dog[w].pc = "claim"
  /\ r \in dog[w].rid
  /\ done' = done \cup {r}
  /\ SetDog(w, [dog[w] EXCEPT !.pc = "remove", !.claimed = TRUE])
  /\ UNCHANGED <<send, rows, brokerVars, agent, inflight, chat, alive, crashes, faults>>

\* SET :done NX
Claim(w, r) ==
  /\ dog[w].pc = "claim"
  /\ r \in dog[w].rid
  /\ done' = done \cup {r}
  /\ SetDog(w, [dog[w] EXCEPT !.pc = "remove", !.claimed = r \notin done])
  /\ UNCHANGED <<send, rows, brokerVars, agent, inflight, chat, alive, crashes, faults>>

\* SREM gen:inflight
RemoveInflight(w, r) ==
  /\ dog[w].pc = "remove"
  /\ r \in dog[w].rid
  /\ inflight' = inflight \ {r}
  /\ SetDog(w, IF dog[w].claimed THEN [dog[w] EXCEPT !.pc = "get"]
               ELSE NextRequest(w, r))
  /\ UNCHANGED <<send, rows, brokerVars, agent, chat, alive, done, crashes, faults>>

\* GET :chat
GetChat(w, r) ==
  /\ dog[w].pc = "get"
  /\ r \in dog[w].rid
  /\ SetDog(w, IF r \in chat THEN [NextRequest(w, r) EXCEPT !.dead = @ \cup {r}]
               ELSE NextRequest(w, r))
  /\ UNCHANGED <<send, rows, brokerVars, agent, redisVars, crashes, faults>>

\* A Redis command of the sweep fails: the request is skipped.
SweepFails(w, r) ==
  /\ "redis" \in faults
  /\ r \in dog[w].rid
  /\ dog[w].pc \in {"claim", "remove", "get"}
  /\ SetDog(w, NextRequest(w, r))
  /\ UNCHANGED <<send, rows, brokerVars, agent, redisVars, crashes, faults>>

\* sweep_dead returns.
SweepEnds(w) ==
  /\ dog[w].pc = "sweep"
  /\ dog[w].todo = {}
  /\ SetDog(w, IF dog[w].dead = {} THEN Asleep ELSE [dog[w] EXCEPT !.pc = "report"])
  /\ UNCHANGED <<send, rows, brokerVars, agent, redisVars, crashes, faults>>

\* record_failed_generation of a dead request; its exception is swallowed.
Report(w, r) ==
  /\ dog[w].pc = "report"
  /\ r \in dog[w].dead
  /\ \/ AppendRow(r, "failed", "watchdog")
     \/ "database" \in faults /\ UNCHANGED rows
  /\ SetDog(w, IF dog[w].dead = {r} THEN Asleep ELSE [dog[w] EXCEPT !.dead = @ \ {r}])
  /\ UNCHANGED <<send, brokerVars, agent, redisVars, crashes, faults>>

-----------------------------------------------------------------------------
(* handle_agent_result.                                                    *)

\* The form of AppendResult whose delivery is acknowledged on receipt.
AppendAcknowledged(res) ==
  /\ res \in results \ appended
  /\ rows[[req |-> res.req, status |-> IF res.ok THEN "completed" ELSE "failed",
           by |-> "agent"]] < MaxRows
  /\ AppendRow(res.req, IF res.ok THEN "completed" ELSE "failed", "agent")
  /\ appended' = appended \cup {res}
  /\ results' = results \ {res}
  /\ UNCHANGED <<send, queue, agent, redisVars, dog, crashes, faults>>

\* append_model_message commits the reply.
AppendResult(res) ==
  /\ res \in results \ appended
  /\ rows[[req |-> res.req, status |-> IF res.ok THEN "completed" ELSE "failed",
           by |-> "agent"]] < MaxRows
  /\ AppendRow(res.req, IF res.ok THEN "completed" ELSE "failed", "agent")
  /\ appended' = appended \cup {res}
  /\ UNCHANGED <<send, queue, results, agent, redisVars, dog, crashes, faults>>

\* The handler returns and the delivery is acknowledged.
AckResult(res) ==
  /\ res \in appended
  /\ results' = results \ {res}
  /\ appended' = appended \ {res}
  /\ UNCHANGED <<send, rows, queue, agent, redisVars, dog, crashes, faults>>

\* append_model_message raises: the delivery is rejected and dropped.
RejectResult(res) ==
  /\ "database" \in faults
  /\ res \in results \ appended
  /\ results' = results \ {res}
  /\ UNCHANGED <<send, rows, queue, appended, agent, redisVars, dog, crashes, faults>>

\* The backend dies: its handlers and sweeps are gone, deliveries it has not
\* acknowledged are requeued.
Crash ==
  /\ "crash" \in faults
  /\ crashes < MaxCrashes
  /\ crashes' = crashes + 1
  /\ send' = [r \in Requests |-> IF send[r] = "new" THEN "new" ELSE "over"]
  /\ dog' = [w \in Watchdogs |-> Asleep]
  /\ appended' = {}
  /\ UNCHANGED <<rows, queue, results, agent, redisVars, faults>>

-----------------------------------------------------------------------------
\* A handler that has been started goes on.
Handler(r) ==
  \/ SubmitInline(r) \/ PublishDropped(r) \/ Publish(r) \/ PublishFails(r)
  \/ PublishConfirmed(r) \/ Register(r) \/ RecordSubmitFailure(r)

Watchdog(w) ==
  \/ SweepBegins(w) \/ SweepEnds(w)
  \/ \E r \in Requests :
       CheckAlive(w, r) \/ Claim(w, r) \/ RemoveInflight(w, r) \/ GetChat(w, r)
       \/ SweepFails(w, r) \/ Report(w, r)

Consumer(res) == AppendResult(res) \/ AckResult(res) \/ RejectResult(res)

\* The agent, once it has taken a request, answers it or dies.
AgentGoesOn(r) == AgentAnswers(r) \/ AgentMarksDone(r) \/ AgentDies(r)

Next ==
  \/ \E r \in Requests :
       SendMessage(r) \/ Handler(r) \/ AgentTakes(r) \/ AgentRefreshes(r)
       \/ AgentGoesOn(r) \/ AliveExpires(r) \/ KeysExpire(r)
  \/ \E w \in Watchdogs : Watchdog(w)
  \/ \E res \in Result : Consumer(res)
  \/ Crash

Spec == Init /\ [][Next]_vars

(***************************************************************************)
(* A handler that was started goes on, the watchdog loop never ends        *)
(* (run_forever), RabbitMQ delivers results, time passes, and an agent     *)
(* that works answers, fails within LLM_GENERATION_TIMEOUT_SECONDS or      *)
(* dies.  Nothing makes the agent take a request, nor the user write one.  *)
(***************************************************************************)
Fairness ==
  /\ \A r \in Requests : WF_vars(Handler(r)) /\ WF_vars(AgentGoesOn(r))
                         /\ WF_vars(AliveExpires(r) /\ agent[r] # "working")
  /\ \A w \in Watchdogs : WF_vars(Watchdog(w))
  /\ \A res \in Result : WF_vars(AppendResult(res) \/ AckResult(res))

FairSpec == Spec /\ Fairness

-----------------------------------------------------------------------------
\* The kinds of rows that answer r.
Answers(r) == {row \in Row : row.req = r /\ rows[row] > 0}

WatchdogRow(r) == [req |-> r, status |-> "failed", by |-> "watchdog"]

\* A dead request is claimed only once: no double FAILED rows, whatever
\* sweeps run at the same time, crash half way or fail on Redis
\* (redis_heartbeat.py, the NX claim).
ReportedOnce == \A r \in Requests : rows[WatchdogRow(r)] <= 1

(* What makes ReportedOnce inductive: who may still report a request.        *)

\* w has won the claim of r and has not read its chat yet.
HasClaimed(w, r) == dog[w].pc \in {"remove", "get"} /\ dog[w].claimed /\ r \in dog[w].rid

\* Neither key of r is coming back: whoever claims r finds no chat for it.
Lapsed(r) == r \notin chat /\ send[r] = "over"

\* A sweep has one request in hand, and reads its chat only with a claim.
OneInHand ==
  \A w \in Watchdogs :
    /\ \A r, q \in dog[w].rid : r = q
    /\ dog[w].pc = "get" => dog[w].claimed

\* The report of a request, and the right to report it, is with one sweep at
\* most, and gone once the row is there.
OneReporter ==
  \A r \in Requests, w \in Watchdogs :
    /\ r \in dog[w].dead =>
         /\ rows[WatchdogRow(r)] = 0
         /\ \A v \in Watchdogs : r \in dog[v].dead => v = w
    /\ HasClaimed(w, r) =>
         \/ Lapsed(r)
         \/ /\ rows[WatchdogRow(r)] = 0
            /\ \A v \in Watchdogs : r \notin dog[v].dead
            /\ \A v \in Watchdogs : HasClaimed(v, r) => v = w

\* :done marks a request as long as it could be reported again.
ReportedIsDone ==
  \A r \in Requests :
    \/ rows[WatchdogRow(r)] > 0
    \/ \E w \in Watchdogs : r \in dog[w].dead \/ HasClaimed(w, r)
    => r \in done \/ Lapsed(r)

\* The right to report a dead request is unique: the inductive invariant of
\* the watchdog.
ReportInv == OneInHand /\ OneReporter /\ ReportedIsDone /\ ReportedOnce

\* No heartbeat is late and no request is handed to a second agent.
InTime == {"stall", "redeliver"} \cap faults = {}

\* Moreover nothing is delivered twice, and no reply comes after its agent was
\* given up.
OneChain == InTime /\ {"crash", "confirm", "unmarked"} \cap faults = {}

\* Slow is not dead: the watchdog only reports requests whose agent died,
\* never one that is at work or has finished, however late the backend
\* registers it and however long nobody sweeps, if its heartbeat is in time.
NoFalseAlarm ==
  InTime => \A r \in Requests : rows[WatchdogRow(r)] > 0 => agent[r] = "dead"

\* A request is answered once: a failed submit, a reply and the watchdog
\* never speak twice (publish registers only what was confirmed, mark_done
\* and the NX claim decide between the reply and the watchdog).
AnsweredOnce ==
  OneChain => \A r \in Requests : \A a, b \in Answers(r) : a = b /\ rows[a] = 1

\* What a user reads under a message is its one answer, and true.
AnswersRight == NoFalseAlarm /\ AnsweredOnce

(* What makes AnswersRight inductive: whose turn it is to answer a request.  *)

\* The agent of r died, or has marked r and stopped its heartbeat.
Silent(r) == agent[r] \in {"dead", "over"}

\* A registered heartbeat is missing only if its agent is silent, and the mark
\* of a finished agent outlives the chat.
HeartbeatTells(r) ==
  /\ send[r] \in {"new", "publish"} => agent[r] = "none" /\ r \notin queue
  /\ r \in queue => agent[r] = "none"
  /\ agent[r] \in {"marked", "over"} => r \in done \/ Lapsed(r)
  /\ r \in inflight => r \in alive \/ Silent(r)
  /\ rows[WatchdogRow(r)] > 0 => agent[r] = "dead"

\* A sweep takes up silent agents, and claims and reports dead ones.
SweepTells(w) ==
  /\ \A r \in dog[w].todo : r \in alive \/ Silent(r)
  /\ \A r \in dog[w].rid : Silent(r) /\ (HasClaimed(w, r) => agent[r] = "dead" \/ Lapsed(r))
  /\ \A r \in dog[w].dead : agent[r] = "dead"

\* Only the dead are taken for dead.
DeadAreDead ==
  InTime => /\ \A r \in Requests : HeartbeatTells(r)
            /\ \A w \in Watchdogs : SweepTells(w)

\* send_message answers only what no agent will, the agent what send_message
\* has handed over, and each of them once.
Turns(r) ==
  /\ send[r] \in {"new", "publish", "refuse"} =>
       Answers(r) = {} /\ agent[r] = "none" /\ r \notin queue
  /\ r \in queue \/ agent[r] # "none" => \A a \in Answers(r) : a.by # "submit"
  /\ agent[r] \in {"none", "working", "dead"} =>
       /\ \A a \in Answers(r) : a.by # "agent"
       /\ \A res \in results : res.req # r
  /\ \A a, b \in Answers(r) : a.by = b.by => a = b /\ rows[a] = 1
  /\ \A a \in Answers(r) : a.by = "watchdog" => a = WatchdogRow(r)

\* A request has one result at most, and a row of the agent only from it.
OneResult ==
  /\ \A a, b \in results : a.req = b.req => a = b
  /\ \A res \in results \ appended : \A a \in Answers(res.req) : a.by # "agent"

OneSpeaker == OneChain => OneResult /\ \A r \in Requests : Turns(r)

\* One party at a time may answer a request: the inductive invariant of the
\* answers (send_message, mark_done, sweep_dead, handle_agent_result).
AnswerInv == DeadAreDead /\ OneSpeaker

\* Whatever the user sent is answered in the end: by a reply, by the error of
\* the submit, or by the watchdog.
EveryMessageAnswered ==
  \A r \in Requests : send[r] = "publish" ~> Answers(r) # {}

\* "the watchdog resumes and still catches a dead agent" (AGENT_HANGING.md
\* on a restart of the backend).
DeadAgentIsCaught ==
  \A r \in Requests : agent[r] = "dead" /\ r \in inflight ~> Answers(r) # {}
=============================================================================
