----------------------------- MODULE TokenRelay -----------------------------
(***************************************************************************)
(* The live text of one generation: ScripulyaAgentClient subscribes to the *)
(* token channel gen:{rid}:tokens, publishes the request, and starts a     *)
(* relay task (_drain_tokens) that batches the agent's frames into SSE     *)
(* events.  A generation has a request_id, a channel and a relay of its    *)
(* own, so one generation is the whole system.                             *)
(*                                                                         *)
(* A step of the relay is one turn of its loop: it reads one frame, or     *)
(* waits in vain, and publishes events without letting anybody else run.   *)
(***************************************************************************)
EXTENDS Naturals, Sequences, SequencesExt

CONSTANTS
  Batch,      \* _FLUSH_TOKEN_BATCH
  MaxFrames,  \* bound on the frames the agent sends
  Scenarios   \* the sets of faults to look at, see FaultKinds

(***************************************************************************)
(* "confirm"    the publish of the request fails though it was delivered   *)
(* "dies"       the agent dies, or Redis refuses its frames from some point *)
(* "redis"      a Redis command of the backend raises                      *)
(* "reconnect"  the Redis client reconnects and resubscribes: frames that  *)
(*              were not read are gone                                     *)
(* "stop"       the backend shuts down and cancels the relay               *)
(***************************************************************************)
FaultKinds == {"confirm", "dies", "redis", "reconnect", "stop"}

ASSUME BatchAssumption == Batch \in Nat \ {0} /\ MaxFrames \in Nat
ASSUME ScenariosAssumption == Scenarios \subseteq SUBSET FaultKinds

VARIABLES
  pc,          \* where publish, and then its relay, stands
  subscribed,  \* the connection is subscribed to the token channel
  sent,        \* types of the frames the agent has sent, in order
  channel,     \* positions in sent of the frames that wait in the connection
  agent,       \* the agent's work on the request
  answer,      \* buffered frames with text of the reply
  thinking,    \* buffered frames with thoughts
  events,      \* the SSE events published for the generation
  late,        \* the relay's deadline has passed
  faults       \* what the environment may do wrong in this behaviour

relayVars == <<answer, thinking, events>>
vars == <<pc, subscribed, sent, channel, agent, relayVars, late, faults>>

-----------------------------------------------------------------------------
TextTypes == {"token", "thinking"}
EndTypes == {"done", "error"}
\* "other": a frame that cannot be parsed, or of a type the relay skips.
FrameTypes == TextTypes \cup EndTypes \cup {"other"}

\* An event and the frames whose text it carries.
Event(kind, frames) == [kind |-> kind, frames |-> frames]

\* Every variable holds what its declaration says, and frames are
\* positions of what was sent.
TypeOK ==
  /\ pc \in {"new", "publish", "confirm", "start", "drain", "over"}
  /\ subscribed \in BOOLEAN
  /\ sent \in Seq(FrameTypes) /\ Len(sent) <= MaxFrames
  /\ \A s \in {channel, answer, thinking} : s \in Seq(1..Len(sent))
  /\ agent \in {"none", "asked", "working", "over"}
  /\ \A i \in 1..Len(events) :
       /\ events[i].kind \in {"generation_start"} \cup FrameTypes
       /\ events[i].frames \in Seq(1..Len(sent))
  /\ late \in BOOLEAN
  /\ faults \in Scenarios

Init ==
  /\ pc = "new"
  /\ subscribed = FALSE
  /\ sent = <<>>
  /\ channel = <<>>
  /\ agent = "none"
  /\ answer = <<>>
  /\ thinking = <<>>
  /\ events = <<>>
  /\ late = FALSE
  /\ faults \in Scenarios

-----------------------------------------------------------------------------
(* ScripulyaAgentClient.publish.                                           *)

\* _subscribe_tokens; without Redis the generation goes on without a relay.
Subscribe ==
  /\ pc = "new"
  /\ pc' = "publish"
  /\ \/ subscribed' = TRUE
     \/ "redis" \in faults /\ UNCHANGED subscribed
  /\ UNCHANGED <<sent, channel, agent, relayVars, late, faults>>

\* broker.publish: the broker has the request.
Publish ==
  /\ pc = "publish"
  /\ pc' = "confirm"
  /\ agent' = "asked"
  /\ UNCHANGED <<subscribed, sent, channel, relayVars, late, faults>>

\* broker.publish raises: the subscription is closed.
PublishFails ==
  /\ \/ pc = "publish"
     \/ "confirm" \in faults /\ pc = "confirm"
  /\ pc' = "over"
  /\ subscribed' = FALSE
  /\ channel' = <<>>
  /\ UNCHANGED <<sent, agent, relayVars, late, faults>>

\* The request is registered and the relay task created, if there is a
\* subscription to relay.
Published ==
  /\ pc = "confirm"
  /\ pc' = IF subscribed THEN "start" ELSE "over"
  /\ UNCHANGED <<subscribed, sent, channel, agent, relayVars, late, faults>>

-----------------------------------------------------------------------------
(* scripulya_agent and Redis (external).                                   *)

AgentTakes ==
  /\ agent = "asked"
  /\ agent' = "working"
  /\ UNCHANGED <<pc, subscribed, sent, channel, relayVars, late, faults>>

\* A frame reaches the subscribers of that moment; "done" or "error" is the
\* last one.
AgentSends(type) ==
  /\ agent = "working"
  /\ Len(sent) < MaxFrames
  /\ sent' = Append(sent, type)
  /\ channel' = IF subscribed THEN Append(channel, Len(sent')) ELSE channel
  /\ agent' = IF type \in EndTypes THEN "over" ELSE agent
  /\ UNCHANGED <<pc, subscribed, relayVars, late, faults>>

AgentDies ==
  /\ "dies" \in faults
  /\ agent \in {"asked", "working"}
  /\ agent' = "over"
  /\ UNCHANGED <<pc, subscribed, sent, channel, relayVars, late, faults>>

Reconnect ==
  /\ "reconnect" \in faults
  /\ pc = "drain"
  /\ channel # <<>>
  /\ channel' = <<>>
  /\ UNCHANGED <<pc, subscribed, sent, agent, relayVars, late, faults>>

\* LLM_HEARTBEAT_HARD_DEADLINE_SECONDS since the relay started.
DeadlinePasses ==
  /\ pc = "drain"
  /\ ~late
  /\ late' = TRUE
  /\ UNCHANGED <<pc, subscribed, sent, channel, agent, relayVars, faults>>

-----------------------------------------------------------------------------
(* _drain_tokens.                                                          *)

\* _flush of one buffer: an empty text is not published.
FlushOne(kind, buffer) == IF buffer = <<>> THEN <<>> ELSE <<Event(kind, buffer)>>

\* events once both buffers are flushed.
Flushed(a, t) == events \o FlushOne("token", a) \o FlushOne("thinking", t)

\* The relay goes on with buffers a and t, or flushes and empties both.
Keep(a, t, flush) ==
  IF flush
  THEN answer' = <<>> /\ thinking' = <<>> /\ events' = Flushed(a, t)
  ELSE answer' = a /\ thinking' = t /\ UNCHANGED events

\* The form of Finish that drops the text still buffered.
FinishUnflushed(terminal) ==
  /\ pc' = "over"
  /\ answer' = <<>>
  /\ thinking' = <<>>
  /\ events' = Append(events, Event(terminal, <<>>))
  /\ subscribed' = FALSE
  /\ channel' = <<>>
  /\ UNCHANGED <<sent, agent, late, faults>>

\* The form of Finish that closes a failed stream without an event.
FinishSilently(terminal) ==
  /\ pc' = "over"
  /\ answer' = <<>>
  /\ thinking' = <<>>
  /\ events' = Flushed(answer, thinking) \o
                 (IF terminal = "done" THEN <<Event(terminal, <<>>)>> ELSE <<>>)
  /\ subscribed' = FALSE
  /\ channel' = <<>>
  /\ UNCHANGED <<sent, agent, late, faults>>

\* The finally block: what is buffered, the terminal event, the connection.
Finish(terminal) ==
  /\ pc' = "over"
  /\ answer' = <<>>
  /\ thinking' = <<>>
  /\ events' = Append(Flushed(answer, thinking), Event(terminal, <<>>))
  /\ subscribed' = FALSE
  /\ channel' = <<>>
  /\ UNCHANGED <<sent, agent, late, faults>>

RelayStarts ==
  /\ pc = "start"
  /\ pc' = "drain"
  /\ events' = Append(events, Event("generation_start", <<>>))
  /\ UNCHANGED <<subscribed, sent, channel, agent, answer, thinking, late, faults>>

\* get_message times out; the interval since the last flush is over or not.
ReadNothing ==
  /\ pc = "drain"
  /\ ~late
  /\ channel = <<>>
  /\ answer \o thinking # <<>>
  /\ Keep(answer, thinking, TRUE)
  /\ UNCHANGED <<pc, subscribed, sent, channel, agent, late, faults>>

\* get_message returns a frame with text: it is buffered, and flushed when
\* either batch is full or the interval is over.
ReadText ==
  /\ pc = "drain"
  /\ ~late
  /\ channel # <<>>
  /\ sent[Head(channel)] \in TextTypes
  /\ LET f == Head(channel)
         a == IF sent[f] = "token" THEN Append(answer, f) ELSE answer
         t == IF sent[f] = "thinking" THEN Append(thinking, f) ELSE thinking
     IN \E interval \in BOOLEAN :
          Keep(a, t, interval \/ Len(a) >= Batch \/ Len(t) >= Batch)
  /\ channel' = Tail(channel)
  /\ UNCHANGED <<pc, subscribed, sent, agent, late, faults>>

\* A frame that is skipped.
ReadOther ==
  /\ pc = "drain"
  /\ ~late
  /\ channel # <<>>
  /\ sent[Head(channel)] = "other"
  /\ channel' = Tail(channel)
  /\ UNCHANGED <<pc, subscribed, sent, agent, relayVars, late, faults>>

ReadEnd ==
  /\ pc = "drain"
  /\ ~late
  /\ channel # <<>>
  /\ sent[Head(channel)] \in EndTypes
  /\ Finish(sent[Head(channel)])

\* The form of DeadlineExceeded that looks at the clock only after a frame.
DeadlineAfterFrame ==
  /\ pc = "drain"
  /\ late
  /\ channel # <<>>
  /\ Finish("error")

\* The loop is over without a terminal frame.
DeadlineExceeded ==
  /\ pc = "drain"
  /\ late
  /\ Finish("error")

\* The form of RelayFails that names the event after the missing frame.
FailsUnnamed ==
  /\ pc = "drain"
  /\ {"redis", "stop"} \cap faults # {}
  /\ Finish("none")

\* get_message raises, or the relay is cancelled.
RelayFails ==
  /\ pc = "drain"
  /\ {"redis", "stop"} \cap faults # {}
  /\ Finish("error")

-----------------------------------------------------------------------------
\* A turn of the relay.
Relay ==
  RelayStarts \/ ReadNothing \/ ReadText \/ ReadOther \/ ReadEnd \/ DeadlineExceeded

Next ==
  \/ Subscribe \/ Publish \/ PublishFails \/ Published
  \/ AgentTakes \/ (\E type \in FrameTypes : AgentSends(type)) \/ AgentDies
  \/ Reconnect \/ DeadlinePasses
  \/ Relay \/ RelayFails

Spec == Init /\ [][Next]_vars

\* Time passes and a relay that exists is run; nothing makes the agent work.
FairSpec == Spec /\ WF_vars(Relay) /\ WF_vars(DeadlinePasses)

-----------------------------------------------------------------------------
Kinds == [i \in 1..Len(events) |-> events[i].kind]

\* The positions of the frames of a kind, and of those shown by its events.
SentOf(kind) == {f \in 1..Len(sent) : sent[f] = kind}

Shown(kind) ==
  {f \in 1..Len(sent) : \E i \in 1..Len(events) :
     events[i].kind = kind /\ f \in ToSet(events[i].frames)}

\* The events of a kind carry its frames one after the other.
InOrder(kind) ==
  \A i, j \in 1..Len(events) : events[i].kind = kind /\ events[j].kind = kind =>
    \A a \in 1..Len(events[i].frames), b \in 1..Len(events[j].frames) :
      i < j \/ (i = j /\ a < b) => events[i].frames[a] < events[j].frames[b]

\* A client can follow the stream: it opens with generation_start, text
\* comes after it, and the relay closes it with one generation_done or
\* generation_error, never both and never followed by more text
\* (docs/PER-TOKEN-STREAMING.md, section 8).
StreamIsFramed ==
  /\ \A i \in 1..Len(events) :
       /\ Kinds[i] = "generation_start" <=> i = 1
       /\ Kinds[i] \in EndTypes => i = Len(events) /\ pc = "over"
  /\ pc = "over" /\ events # <<>> => Last(Kinds) \in EndTypes

\* The text is shown in the order it was written, nothing twice and nothing
\* skipped, wherever batches are cut and however the stream ends, as long as
\* the connection to Redis lasts.
TextInOrder ==
  "reconnect" \notin faults => \A kind \in TextTypes :
    /\ InOrder(kind)
    /\ Shown(kind) \subseteq SentOf(kind)
    /\ \A f \in SentOf(kind), g \in Shown(kind) : f < g => f \in Shown(kind)

\* generation_done is earned: the agent said so, and everything it had sent
\* was shown before, as long as the connection to Redis lasts.
DoneIsComplete ==
  "done" \in ToSet(Kinds) /\ "reconnect" \notin faults =>
    /\ Last(sent) = "done"
    /\ \A kind \in TextTypes : Shown(kind) = SentOf(kind)

\* While the connection lasts, what is shown is a beginning of the text, and
\* all of it when it says so (ScripulyaAgentClient._drain_tokens).
TextIsWhole == TextInOrder /\ DoneIsComplete

\* Each relay ends, whether or not its agent or its last frame is lost.
RelayEnds == pc = "drain" ~> pc = "over"
=============================================================================
