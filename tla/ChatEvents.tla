----------------------------- MODULE ChatEvents -----------------------------
(***************************************************************************)
(* How the clients of one chat learn of its model messages: a message is   *)
(* committed and then published to the listeners of the chat               *)
(* (ChatEventGateway); a client opens a stream (ServerEventsService), which *)
(* first reads the latest model message and subscribes only when the       *)
(* response starts to be sent.                                             *)
(*                                                                         *)
(* A publish and a step of a stream run without giving way to each other;  *)
(* the steps in between (a commit, the read of the latest message, the     *)
(* start of the response, waiting for the next event) are awaits.          *)
(***************************************************************************)
EXTENDS Naturals, Sequences, FiniteSets, FiniteSetsExt, SequencesExt

CONSTANTS
  Messages,   \* model messages the chat may get; their order is created_at
  Clients,    \* event streams that may be open at the same time
  MaxQueue,   \* _LISTENER_MAXSIZE
  Scenarios   \* the sets of faults to look at, see FaultKinds

(***************************************************************************)
(* "gap"    a message is committed or published between the read of the    *)
(*          latest one and the start of the response                       *)
(* "slow"   a client does not read its stream in time                      *)
(* "crash"  the backend process dies                                       *)
(***************************************************************************)
FaultKinds == {"gap", "slow", "crash"}

\* An event of the chat that is no message: tokens, a summary.
Other == 0

ASSUME MessagesAssumption == Messages \subseteq Nat \ {Other} /\ IsFiniteSet(Messages)
ASSUME QueueAssumption == MaxQueue \in Nat \ {0}
ASSUME ScenariosAssumption == Scenarios \subseteq SUBSET FaultKinds

VARIABLES
  rows,        \* committed model messages
  publishing,  \* committed ones whose handler is about to publish them
  stream,      \* where the stream of each client stands
  latest,      \* the first frame of a stream, when there is one
  queue,       \* the queue of each listener
  seen,        \* the messages each client has got on its stream
  known,       \* auxiliary: rows that were there when the stream read them
  overflowed,  \* auxiliary: clients that lost an event to a full queue
  faults       \* what may go wrong in this behaviour

clientVars == <<stream, latest, queue, seen, known, overflowed>>
vars == <<rows, publishing, clientVars, faults>>

\* Every variable holds what its declaration says; queues are bounded.
TypeOK ==
  /\ rows \in SUBSET Messages
  /\ publishing \in SUBSET Messages
  /\ stream \in [Clients -> {"closed", "read", "open"}]
  /\ latest \in [Clients -> SUBSET Messages]
  /\ queue \in [Clients -> Seq(Messages \cup {Other})]
  /\ \A c \in Clients : Len(queue[c]) <= MaxQueue
  /\ seen \in [Clients -> SUBSET Messages]
  /\ known \in [Clients -> SUBSET Messages]
  /\ overflowed \in SUBSET Clients
  /\ faults \in Scenarios

Init ==
  /\ rows = {}
  /\ publishing = {}
  /\ stream = [c \in Clients |-> "closed"]
  /\ latest = [c \in Clients |-> {}]
  /\ queue = [c \in Clients |-> <<>>]
  /\ seen = [c \in Clients |-> {}]
  /\ known = [c \in Clients |-> {}]
  /\ overflowed = {}
  /\ faults \in Scenarios

-----------------------------------------------------------------------------
\* A queue is registered exactly while the stream's generator runs
\* (subscribe, and unsubscribe in its finally).
Listeners == {c \in Clients : stream[c] = "open"}

NoGap == "gap" \in faults \/ \A c \in Clients : stream[c] # "read"

Full(c) == Len(queue[c]) >= MaxQueue

\* The form of Publish that stops at the first full queue.
PublishUntilFull(event) ==
  LET full == {c \in Listeners : Full(c)} IN
  /\ "slow" \in faults \/ full = {}
  /\ queue' = [c \in Clients |-> IF c \in Listeners /\ full = {}
                                 THEN Append(queue[c], event) ELSE queue[c]]
  /\ overflowed' = overflowed \cup full

\* The form of Publish whose queues have no bound.
PublishUnbounded(event) ==
  /\ queue' = [c \in Clients |-> IF c \in Listeners
                                 THEN Append(queue[c], event) ELSE queue[c]]
  /\ overflowed' = overflowed

\* ChatEventGateway.publish: every listener gets the event but those whose
\* queue is full.
Publish(event) ==
  LET full == {c \in Listeners : Full(c)} IN
  /\ "slow" \in faults \/ full = {}
  /\ queue' = [c \in Clients |-> IF c \in Listeners \ full
                                 THEN Append(queue[c], event) ELSE queue[c]]
  /\ overflowed' = overflowed \cup full

\* The form of Commit whose handler forgets to publish.
CommitOnly(m) ==
  /\ NoGap
  /\ m \notin rows
  /\ rows' = rows \cup {m}
  /\ UNCHANGED <<publishing, clientVars, faults>>

\* A handler commits a model message (append_model_message) ...
Commit(m) ==
  /\ NoGap
  /\ m \notin rows
  /\ rows' = rows \cup {m}
  /\ publishing' = publishing \cup {m}
  /\ UNCHANGED <<clientVars, faults>>

\* ... and publishes it.
PublishMessage(m) ==
  /\ NoGap
  /\ m \in publishing
  /\ publishing' = publishing \ {m}
  /\ Publish(m)
  /\ UNCHANGED <<rows, stream, latest, seen, known, faults>>

\* publish_token, publish_summary and the like.
PublishOther ==
  /\ Listeners # {}
  /\ Publish(Other)
  /\ UNCHANGED <<rows, publishing, stream, latest, seen, known, faults>>

-----------------------------------------------------------------------------
\* open_stream: latest_model_message, and the scope is closed.
OpenStream(c) ==
  /\ stream[c] = "closed"
  /\ stream' = [stream EXCEPT ![c] = "read"]
  /\ latest' = [latest EXCEPT ![c] = IF rows = {} THEN {} ELSE {Max(rows)}]
  /\ seen' = [seen EXCEPT ![c] = {}]
  /\ known' = [known EXCEPT ![c] = rows]
  /\ overflowed' = overflowed \ {c}
  /\ UNCHANGED <<rows, publishing, queue, faults>>

\* _stream up to its first yield: it subscribes and sends the latest message.
StreamStarts(c) ==
  /\ stream[c] = "read"
  /\ stream' = [stream EXCEPT ![c] = "open"]
  /\ seen' = [seen EXCEPT ![c] = latest[c]]
  /\ latest' = [latest EXCEPT ![c] = {}]
  /\ UNCHANGED <<rows, publishing, queue, known, overflowed, faults>>

\* queue.get and the next frame.
StreamGoesOn(c) ==
  /\ queue[c] # <<>>
  /\ queue' = [queue EXCEPT ![c] = Tail(@)]
  /\ seen' = [seen EXCEPT ![c] = @ \cup ({Head(queue[c])} \ {Other})]
  /\ UNCHANGED <<rows, publishing, stream, latest, known, overflowed, faults>>

\* The client goes away, before the response has started or after.
Disconnect(c) ==
  /\ stream[c] # "closed"
  /\ stream' = [stream EXCEPT ![c] = "closed"]
  /\ latest' = [latest EXCEPT ![c] = {}]
  /\ queue' = [queue EXCEPT ![c] = <<>>]
  /\ UNCHANGED <<rows, publishing, seen, known, overflowed, faults>>

\* Streams, queues and handlers live in the process.
Crash ==
  /\ "crash" \in faults
  /\ publishing' = {}
  /\ stream' = [c \in Clients |-> "closed"]
  /\ latest' = [c \in Clients |-> {}]
  /\ queue' = [c \in Clients |-> <<>>]
  /\ UNCHANGED <<rows, seen, known, overflowed, faults>>

Next ==
  \/ \E m \in Messages : Commit(m) \/ PublishMessage(m)
  \/ PublishOther
  \/ \E c \in Clients :
       OpenStream(c) \/ StreamStarts(c) \/ StreamGoesOn(c) \/ Disconnect(c)
  \/ Crash

Spec == Init /\ [][Next]_vars

\* Handlers publish what they have committed (strongly fair, because the
\* guards for "gap" and "slow" only put off a step the code takes at once);
\* running streams go on.  No client is made to connect or to stay.
FairSpec ==
  /\ Spec
  /\ \A m \in Messages : SF_vars(PublishMessage(m))
  /\ \A c \in Clients : WF_vars(StreamStarts(c) \/ StreamGoesOn(c))

-----------------------------------------------------------------------------
OnItsWay(c) == seen[c] \cup ToSet(queue[c]) \cup publishing

NothingMissed ==
  \A c \in Listeners \ overflowed :
    /\ rows \ known[c] \subseteq OnItsWay(c)
    /\ known[c] # {} => Max(known[c]) \in OnItsWay(c)

\* A client whose queue never was full has got, or is about to get, every
\* message committed since it connected and the latest one before that:
\* whoever else connects, leaves, stalls or crashes (_stream, publish), if
\* nothing happens between the read and the subscription.
CaughtUp == "gap" \notin faults => NothingMissed

\* What a stream has read is still the state of the chat when it subscribes;
\* NothingMissed is inductive together with this, as long as there is no gap.
ReadIsFresh ==
  \A c \in Clients : stream[c] = "read" =>
    /\ known[c] = rows
    /\ latest[c] = IF rows = {} THEN {} ELSE {Max(rows)}

\* A client that stays connected and reads its stream in time is shown every
\* message that is committed after it connected.
MessageArrives ==
  \A m \in Messages, c \in Clients :
    "gap" \notin faults /\ stream[c] = "open" /\ m \in rows \ known[c]
      ~> stream[c] # "open" \/ c \in overflowed \/ m \in seen[c]

\* "Client sees the eventual message" (docs/PER-TOKEN-STREAMING.md, section
\* 11): as long as it stays connected.
MessageIsSeen ==
  \A m \in Messages, c \in Clients :
    stream[c] = "open" /\ m \in rows \ known[c] ~> stream[c] # "open" \/ m \in seen[c]
=============================================================================
