--------------------------- MODULE TokenRelayProofs ---------------------------
(* Proofs about TokenRelay, for any batch size, number of frames and faults. *)
EXTENDS TokenRelay, SequenceTheorems, TLAPS

-----------------------------------------------------------------------------
(* The invariant: the shape of the stream at each point of the relay.      *)

Before == {"new", "publish", "confirm", "start"}

\* Events whose text is among the first n frames.
Rows(n) == [kind : {"generation_start"} \cup FrameTypes, frames : Seq(1..n)]

\* A start, text, and when the relay is over one terminal event.
Shape ==
  /\ pc \in Before => events = <<>>
  /\ pc = "drain" => events # <<>>
  /\ \A i \in 1..Len(events) :
       \/ i = 1 /\ events[i].kind = "generation_start"
       \/ i > 1 /\ events[i].kind \in TextTypes
       \/ i > 1 /\ events[i].kind \in EndTypes /\ i = Len(events) /\ pc = "over"
  /\ pc = "over" /\ events # <<>> => Len(events) > 1 /\ events[Len(events)].kind \in EndTypes

Typed == TypeOK /\ events \in Seq(Rows(Len(sent)))

RelayInv == Typed /\ Shape

-----------------------------------------------------------------------------
(* Sequences.                                                              *)

LEMMA SeqGrows ==
  ASSUME NEW m \in Nat, NEW n \in Nat, m <= n
  PROVE  Seq(1..m) \subseteq Seq(1..n) /\ Seq(Rows(m)) \subseteq Seq(Rows(n))
<1>1. 1..m \subseteq 1..n
  OBVIOUS
<1>2. Seq(1..m) \subseteq Seq(1..n)
  BY <1>1
<1>3. Rows(m) \subseteq Rows(n)
  BY <1>2 DEF Rows
<1> QED
  BY <1>2, <1>3

LEMMA RowsTyped ==
  ASSUME NEW n \in Nat, NEW e \in Seq(Rows(n)), NEW i \in 1..Len(e)
  PROVE  e[i].kind \in {"generation_start"} \cup FrameTypes /\ e[i].frames \in Seq(1..n)
<1>1. e[i] \in Rows(n)
  OBVIOUS
<1> QED
  BY <1>1 DEF Rows

\* What a step of the backend leaves typed.
LEMMA StaysTyped ==
  ASSUME RelayInv, UNCHANGED <<sent, faults>>, events' \in Seq(Rows(Len(sent))),
         pc' \in Before \cup {"drain", "over"}, subscribed' \in BOOLEAN, late' \in BOOLEAN,
         agent' \in {"none", "asked", "working", "over"},
         channel' \in Seq(1..Len(sent)), answer' \in Seq(1..Len(sent)),
         thinking' \in Seq(1..Len(sent))
  PROVE  Typed'
<1>1. Len(sent) \in Nat
  BY DEF RelayInv, Typed, TypeOK
<1>2. \A i \in 1..Len(events') : /\ events'[i].kind \in {"generation_start"} \cup FrameTypes
                                 /\ events'[i].frames \in Seq(1..Len(sent))
  BY <1>1, RowsTyped
<1> QED
  BY <1>2 DEF RelayInv, Typed, TypeOK, Before

\* A flush adds text events and leaves the earlier ones.
LEMMA FlushAdds ==
  ASSUME NEW n \in Nat, events \in Seq(Rows(n)), NEW a \in Seq(1..n), NEW t \in Seq(1..n)
  PROVE  /\ Flushed(a, t) \in Seq(Rows(n)) /\ Len(Flushed(a, t)) >= Len(events)
         /\ \A i \in 1..Len(events) : Flushed(a, t)[i] = events[i]
         /\ \A i \in Len(events) + 1 .. Len(Flushed(a, t)) : Flushed(a, t)[i].kind \in TextTypes
<1>1. ASSUME NEW kind \in TextTypes, NEW b \in Seq(1..n)
      PROVE  /\ FlushOne(kind, b) \in Seq(Rows(n))
             /\ \A i \in 1..Len(FlushOne(kind, b)) : FlushOne(kind, b)[i].kind \in TextTypes
  <2>1. PICK row : row = Event(kind, b)
    OBVIOUS
  <2>2. row \in Rows(n) /\ row.kind = kind
    BY <1>1, <2>1 DEF Event, Rows, FrameTypes
  <2>3. FlushOne(kind, b) = <<>> \/ FlushOne(kind, b) = <<row>>
    BY <2>1 DEF FlushOne
  <2>4. /\ <<row>> \in Seq(Rows(n)) /\ <<>> \in Seq(Rows(n))
        /\ \A i \in 1..Len(<<row>>) : <<row>>[i] = row
        /\ \A i \in 1..Len(<<>>) : FALSE
    BY <2>2
  <2> QED
    BY <1>1, <2>2, <2>3, <2>4
<1>2. PICK x, y : /\ x = FlushOne("token", a) /\ y = FlushOne("thinking", t)
                  /\ x \in Seq(Rows(n)) /\ y \in Seq(Rows(n))
                  /\ \A i \in 1..Len(x) : x[i].kind \in TextTypes
                  /\ \A i \in 1..Len(y) : y[i].kind \in TextTypes
  BY <1>1 DEF TextTypes
<1>3. Flushed(a, t) = (events \o x) \o y
  BY <1>2 DEF Flushed
<1>4. /\ events \o x \in Seq(Rows(n)) /\ Len(events \o x) = Len(events) + Len(x)
      /\ \A i \in 1..Len(events) : (events \o x)[i] = events[i]
      /\ \A i \in Len(events) + 1 .. Len(events) + Len(x) : (events \o x)[i] = x[i - Len(events)]
  BY <1>2
<1>5. PICK z : z = events \o x
  OBVIOUS
<1>6. /\ z \o y \in Seq(Rows(n)) /\ Len(z \o y) = Len(z) + Len(y)
      /\ \A i \in 1..Len(z) : (z \o y)[i] = z[i]
      /\ \A i \in Len(z) + 1 .. Len(z) + Len(y) : (z \o y)[i] = y[i - Len(z)]
  BY <1>2, <1>4, <1>5
<1>7. Len(events) \in Nat /\ Len(x) \in Nat /\ Len(y) \in Nat /\ Len(z) = Len(events) + Len(x)
  BY <1>2, <1>4, <1>5
<1>8. \A i \in Len(events) + 1 .. Len(z) + Len(y) : (z \o y)[i].kind \in TextTypes
  <2> TAKE i \in Len(events) + 1 .. Len(z) + Len(y)
  <2>1. CASE i <= Len(z)
    BY <1>2, <1>4, <1>5, <1>6, <1>7, <2>1
  <2>2. CASE i > Len(z)
    BY <1>2, <1>6, <1>7, <2>2
  <2> QED
    BY <1>7, <2>1, <2>2
<1> QED
  BY <1>3, <1>4, <1>5, <1>6, <1>7, <1>8

\* The text buffered and a terminal event close the stream.
LEMMA FinishKeeps ==
  ASSUME RelayInv, NEW terminal \in EndTypes, pc = "drain", Finish(terminal)
  PROVE  RelayInv'
<1>1. PICK n, flushed : n = Len(sent) /\ flushed = Flushed(answer, thinking)
  OBVIOUS
<1>2. n \in Nat /\ answer \in Seq(1..n) /\ thinking \in Seq(1..n) /\ events \in Seq(Rows(n))
  BY <1>1 DEF RelayInv, Typed, TypeOK
<1>3. /\ flushed \in Seq(Rows(n)) /\ Len(flushed) >= Len(events)
      /\ \A i \in 1..Len(events) : flushed[i] = events[i]
      /\ \A i \in Len(events) + 1 .. Len(flushed) : flushed[i].kind \in TextTypes
  BY <1>1, <1>2, FlushAdds
<1>4. PICK last : last = Event(terminal, <<>>)
  OBVIOUS
<1>5. last.kind = terminal /\ last \in Rows(n)
  BY <1>4 DEF Event, Rows, FrameTypes
<1>6. events' = Append(flushed, last) /\ pc' = "over" /\ UNCHANGED sent
  BY <1>1, <1>4 DEF Finish
<1>7. /\ events' \in Seq(Rows(n)) /\ Len(events') = Len(flushed) + 1
      /\ \A i \in 1..Len(flushed) : events'[i] = flushed[i]
      /\ events'[Len(flushed) + 1] = last
  BY <1>3, <1>5, <1>6
<1>8. Typed'
  <2>1. channel' = <<>> /\ answer' = <<>> /\ thinking' = <<>> /\ UNCHANGED <<sent, agent, late, faults>>
        /\ subscribed' = FALSE
    BY DEF Finish
  <2>2. <<>> \in Seq(1..Len(sent))
    OBVIOUS
  <2>3. agent \in {"none", "asked", "working", "over"} /\ late \in BOOLEAN
    BY DEF RelayInv, Typed, TypeOK
  <2> QED
    BY <1>1, <1>6, <1>7, <2>1, <2>2, <2>3, StaysTyped
<1>9. Len(events) \in Nat \ {0} /\ Len(flushed) \in Nat
  BY <1>2, <1>3 DEF RelayInv, Shape
<1>10. Shape'
  <2>1. \A i \in 1..Len(events) : \/ i = 1 /\ events[i].kind = "generation_start"
                                  \/ i > 1 /\ events[i].kind \in TextTypes
    BY DEF RelayInv, Shape
  <2>2. \A i \in 1..Len(flushed) : \/ i = 1 /\ events'[i].kind = "generation_start"
                                   \/ i > 1 /\ events'[i].kind \in TextTypes
    BY <1>3, <1>7, <1>9, <2>1
  <2>3. Len(flushed) >= 1
    BY <1>3, <1>9
  <2>4. events'[Len(flushed) + 1].kind \in EndTypes
    BY <1>5, <1>7
  <2>5. \A i \in 1..Len(events') :
          \/ i = 1 /\ events'[i].kind = "generation_start"
          \/ i > 1 /\ events'[i].kind \in TextTypes
          \/ i > 1 /\ events'[i].kind \in EndTypes /\ i = Len(events')
    <3> TAKE i \in 1..Len(events')
    <3>1. i \in 1..Len(flushed) \/ i = Len(flushed) + 1
      BY <1>7, <1>9
    <3> QED
      BY <1>7, <1>9, <2>2, <2>3, <2>4, <3>1
  <2> QED
    BY <1>6, <1>7, <1>9, <2>3, <2>4, <2>5 DEF Shape, Before
<1> QED
  BY <1>8, <1>10 DEF RelayInv

\* A turn of the loop that goes on, with buffers a and t.
LEMMA KeepKeeps ==
  ASSUME RelayInv, pc = "drain", NEW a \in Seq(1..Len(sent)), NEW t \in Seq(1..Len(sent)),
         NEW flush \in BOOLEAN, Keep(a, t, flush), channel' \in Seq(1..Len(sent)),
         UNCHANGED <<pc, subscribed, sent, agent, late, faults>>
  PROVE  RelayInv'
<1>1. Len(sent) \in Nat /\ events \in Seq(Rows(Len(sent)))
  BY DEF RelayInv, Typed, TypeOK
<1>2. CASE ~flush
  BY <1>1, <1>2 DEF Keep, RelayInv, Typed, TypeOK, Shape
<1>3. CASE flush
  <2>1. PICK flushed : flushed = Flushed(a, t)
    OBVIOUS
  <2>2. /\ flushed \in Seq(Rows(Len(sent))) /\ Len(flushed) >= Len(events)
        /\ \A i \in 1..Len(events) : flushed[i] = events[i]
        /\ \A i \in Len(events) + 1 .. Len(flushed) : flushed[i].kind \in TextTypes
    BY <1>1, <2>1, FlushAdds
  <2>3. events' = flushed /\ answer' = <<>> /\ thinking' = <<>>
    BY <1>3, <2>1 DEF Keep
  <2>4. Typed'
    <3>1. <<>> \in Seq(1..Len(sent))
      OBVIOUS
    <3>2. /\ pc \in Before \cup {"drain", "over"} /\ subscribed \in BOOLEAN /\ late \in BOOLEAN
          /\ agent \in {"none", "asked", "working", "over"}
      BY DEF RelayInv, Typed, TypeOK, Before
    <3> QED
      BY <2>2, <2>3, <3>1, <3>2, StaysTyped
  <2>5. Len(events) \in Nat \ {0} /\ Len(flushed) \in Nat
    BY <1>1, <2>2 DEF RelayInv, Shape
  <2>6. \A i \in 1..Len(events) : \/ i = 1 /\ events[i].kind = "generation_start"
                                  \/ i > 1 /\ events[i].kind \in TextTypes
    BY DEF RelayInv, Shape
  <2>7. Shape'
    BY <2>2, <2>3, <2>5, <2>6 DEF Shape, Before
  <2> QED
    BY <2>4, <2>7 DEF RelayInv
<1> QED
  BY <1>2, <1>3

-----------------------------------------------------------------------------
LEMMA InitInv == Init => RelayInv
<1> SUFFICES ASSUME Init
             PROVE  RelayInv
  OBVIOUS
<1>1. sent = <<>> /\ Len(sent) = 0 /\ events = <<>> /\ Len(events) = 0
  BY DEF Init
<1>2. /\ <<>> \in Seq(FrameTypes) /\ <<>> \in Seq(1..Len(sent)) /\ <<>> \in Seq(Rows(Len(sent)))
  OBVIOUS
<1>3. 1..Len(events) = {} /\ Len(sent) <= MaxFrames
  BY <1>1, BatchAssumption
<1>4. TypeOK
  BY <1>1, <1>2, <1>3 DEF Init, TypeOK
<1>5. Shape
  BY <1>1, <1>3 DEF Init, Shape, Before
<1> QED
  BY <1>1, <1>2, <1>4, <1>5 DEF RelayInv, Typed

\* One step for each action.
LEMMA StepInv == RelayInv /\ [Next]_vars => RelayInv'
<1> SUFFICES ASSUME RelayInv, [Next]_vars
             PROVE  RelayInv'
  OBVIOUS
<1>0. Len(sent) \in Nat /\ channel \in Seq(1..Len(sent)) /\ sent \in Seq(FrameTypes)
  BY DEF RelayInv, Typed, TypeOK
<1>1. CASE Subscribe \/ Publish \/ PublishFails \/ Published
  <2>1. /\ pc \in {"new", "publish", "confirm"} /\ pc' \in Before \cup {"over"}
        /\ UNCHANGED <<sent, events, answer, thinking, late, faults>>
        /\ channel' \in {channel, <<>>} /\ subscribed' \in {subscribed, TRUE, FALSE}
        /\ agent' \in {agent, "asked"}
    BY <1>1 DEF Subscribe, Publish, PublishFails, Published, relayVars, Before
  <2>2. <<>> \in Seq(1..Len(sent))
    OBVIOUS
  <2>3. Typed'
    <3>1. channel' \in Seq(1..Len(sent))
      BY <1>0, <2>1, <2>2
    <3>2. /\ answer' \in Seq(1..Len(sent)) /\ thinking' \in Seq(1..Len(sent))
          /\ events' \in Seq(Rows(Len(sent))) /\ late' \in BOOLEAN /\ subscribed' \in BOOLEAN
          /\ agent' \in {"none", "asked", "working", "over"}
      BY <2>1 DEF RelayInv, Typed, TypeOK
    <3> QED
      BY <2>1, <3>1, <3>2, StaysTyped
  <2>4. Shape'
    BY <2>1 DEF RelayInv, Shape, Before
  <2> QED
    BY <2>3, <2>4 DEF RelayInv
<1>2. CASE AgentTakes \/ AgentDies \/ Reconnect \/ DeadlinePasses
  <2>1. /\ UNCHANGED <<pc, subscribed, sent, events, answer, thinking, faults>>
        /\ channel' \in {channel, <<>>} /\ late' \in {late, TRUE} /\ agent' \in {agent, "working", "over"}
    BY <1>2 DEF AgentTakes, AgentDies, Reconnect, DeadlinePasses, relayVars
  <2>2. <<>> \in Seq(1..Len(sent))
    OBVIOUS
  <2>3. Typed'
    <3>1. channel' \in Seq(1..Len(sent))
      BY <1>0, <2>1, <2>2
    <3>2. /\ answer' \in Seq(1..Len(sent)) /\ thinking' \in Seq(1..Len(sent))
          /\ events' \in Seq(Rows(Len(sent))) /\ late' \in BOOLEAN /\ subscribed' \in BOOLEAN
          /\ agent' \in {"none", "asked", "working", "over"} /\ pc' \in Before \cup {"drain", "over"}
      BY <2>1 DEF RelayInv, Typed, TypeOK, Before
    <3> QED
      BY <2>1, <3>1, <3>2, StaysTyped
  <2>4. Shape'
    BY <2>1 DEF RelayInv, Shape, Before
  <2> QED
    BY <2>3, <2>4 DEF RelayInv
<1>3. ASSUME NEW type \in FrameTypes, AgentSends(type)
      PROVE  RelayInv'
  <2>1. Len(sent') = Len(sent) + 1 /\ Len(sent') <= MaxFrames /\ sent' \in Seq(FrameTypes)
    BY <1>0, <1>3, BatchAssumption DEF AgentSends
  <2>2. Seq(1..Len(sent)) \subseteq Seq(1..Len(sent')) /\ Seq(Rows(Len(sent))) \subseteq Seq(Rows(Len(sent')))
    BY <1>0, <2>1, SeqGrows
  <2>3. /\ channel' \in Seq(1..Len(sent')) /\ answer' \in Seq(1..Len(sent')) /\ thinking' \in Seq(1..Len(sent'))
        /\ events' \in Seq(Rows(Len(sent')))
    <3>1. Len(sent') \in 1..Len(sent') /\ channel \in Seq(1..Len(sent'))
      BY <1>0, <2>1, <2>2
    <3>2. channel' = channel \/ channel' = Append(channel, Len(sent'))
      BY <1>3 DEF AgentSends
    <3>3. channel' \in Seq(1..Len(sent'))
      BY <3>1, <3>2
    <3>4. UNCHANGED <<answer, thinking, events>>
      BY <1>3 DEF AgentSends, relayVars
    <3> QED
      BY <2>2, <3>3, <3>4 DEF RelayInv, Typed, TypeOK
  <2>4. \A i \in 1..Len(events') : events'[i] \in Rows(Len(sent'))
    BY <2>3
  <2>5. Typed'
    BY <1>3, <2>1, <2>3, <2>4 DEF AgentSends, RelayInv, Typed, TypeOK, relayVars, Rows
  <2>6. Shape'
    BY <1>3 DEF AgentSends, RelayInv, Shape, relayVars
  <2> QED
    BY <2>5, <2>6 DEF RelayInv
<1>4. CASE RelayStarts
  <2>1. PICK first : first = Event("generation_start", <<>>)
    OBVIOUS
  <2>2. first \in Rows(Len(sent)) /\ first.kind = "generation_start"
    BY <2>1 DEF Event, Rows
  <2>3. events = <<>> /\ events' = <<first>> /\ pc' = "drain"
    BY <1>4, <2>1 DEF RelayStarts, RelayInv, Shape, Before
  <2> QED
    BY <1>4, <2>2, <2>3 DEF RelayStarts, RelayInv, Typed, TypeOK, Shape, Before, Rows
<1>5. CASE ReadNothing
  <2>1. pc = "drain" /\ Keep(answer, thinking, TRUE)
    BY <1>5 DEF ReadNothing
  <2> QED
    BY <1>0, <1>5, <2>1, KeepKeeps DEF ReadNothing, RelayInv, Typed, TypeOK
<1>6. CASE ReadText
  <2>1. PICK f, a, t :
          /\ f = Head(channel)
          /\ a = IF sent[f] = "token" THEN Append(answer, f) ELSE answer
          /\ t = IF sent[f] = "thinking" THEN Append(thinking, f) ELSE thinking
    OBVIOUS
  <2>2. PICK flush \in BOOLEAN : Keep(a, t, flush)
    BY <1>6, <2>1 DEF ReadText
  <2>3. /\ f \in 1..Len(sent) /\ channel' \in Seq(1..Len(sent)) /\ pc = "drain"
        /\ UNCHANGED <<pc, subscribed, sent, agent, late, faults>>
    BY <1>0, <1>6, <2>1 DEF ReadText
  <2>4. a \in Seq(1..Len(sent)) /\ t \in Seq(1..Len(sent))
    <3>1. answer \in Seq(1..Len(sent)) /\ thinking \in Seq(1..Len(sent))
      BY DEF RelayInv, Typed, TypeOK
    <3>2. Append(answer, f) \in Seq(1..Len(sent)) /\ Append(thinking, f) \in Seq(1..Len(sent))
      BY <2>3, <3>1
    <3> QED
      BY <2>1, <3>1, <3>2
  <2> QED
    BY <2>2, <2>3, <2>4, KeepKeeps
<1>7. CASE ReadOther
  BY <1>0, <1>7 DEF ReadOther, RelayInv, Typed, TypeOK, Shape, Before, relayVars
<1>8. CASE ReadEnd \/ DeadlineExceeded \/ RelayFails
  BY <1>8, FinishKeeps DEF ReadEnd, DeadlineExceeded, RelayFails, EndTypes
<1>9. CASE UNCHANGED vars
  BY <1>9 DEF vars, relayVars, RelayInv, Typed, TypeOK, Shape, Before
<1> QED
  BY <1>1, <1>2, <1>3, <1>4, <1>5, <1>6, <1>7, <1>8, <1>9 DEF Next, Relay

LEMMA AlwaysInv == Spec => []RelayInv
BY InitInv, StepInv, PTL DEF Spec

\* Frames, buffers and events keep their types, and what waits or is shown
\* points at frames the agent has sent.
THEOREM RelayTypeCorrect == Spec => []TypeOK
<1>1. RelayInv => TypeOK
  BY DEF RelayInv, Typed
<1> QED
  BY <1>1, AlwaysInv, PTL

\* However the loop of the relay ends, its client sees a start, text, and
\* then exactly one terminal event.
THEOREM StreamsAreFramed == Spec => []StreamIsFramed
<1>1. RelayInv => StreamIsFramed
  <2> SUFFICES ASSUME RelayInv
               PROVE  StreamIsFramed
    OBVIOUS
  <2>1. Len(events) \in Nat /\ \A i \in 1..Len(events) : Kinds[i] = events[i].kind
    BY DEF RelayInv, Typed, Kinds
  <2>2. \A i \in 1..Len(events) : /\ Kinds[i] = "generation_start" <=> i = 1
                                  /\ Kinds[i] \in EndTypes => i = Len(events) /\ pc = "over"
    BY <2>1 DEF RelayInv, Shape, TextTypes, EndTypes
  <2>3. ASSUME pc = "over", events # <<>>
        PROVE  Last(Kinds) \in EndTypes
    <3>1. Len(Kinds) = Len(events) /\ Len(events) > 1
      BY <2>1, <2>3 DEF Kinds, RelayInv, Shape
    <3> QED
      BY <2>1, <2>3, <3>1 DEF Last, RelayInv, Shape
  <2> QED
    BY <2>2, <2>3 DEF StreamIsFramed
<1> QED
  BY <1>1, AlwaysInv, PTL

-----------------------------------------------------------------------------
(* The text is whole.                                                      *)

\* How many frames the relay has read.
Read == Len(sent) - Len(channel)

\* Of the first n frames those of a kind are shown, or wait in the buffer, in
\* order.
Kept(kind, buffer, n) ==
  /\ InOrder(kind)
  /\ \A f \in Shown(kind) : f \in SentOf(kind) /\ f <= n
  /\ \A a, b \in 1..Len(buffer) : a < b => buffer[a] < buffer[b]
  /\ \A a \in 1..Len(buffer) :
       /\ buffer[a] \in SentOf(kind) /\ buffer[a] <= n
       /\ \A f \in Shown(kind) : f < buffer[a]
  /\ \A f \in SentOf(kind) : f <= n =>
       f \in Shown(kind) \/ \E a \in 1..Len(buffer) : buffer[a] = f

\* What is shown has no gap.
NoGap(kind) ==
  /\ InOrder(kind)
  /\ Shown(kind) \subseteq SentOf(kind)
  /\ \A f \in SentOf(kind), g \in Shown(kind) : f < g => f \in Shown(kind)

\* The frames that wait are the last ones sent; the frame that ends the text
\* is the last of all.
Channelled ==
  /\ pc \in {"new", "publish"} => agent = "none"
  /\ agent \in {"none", "asked"} => Len(sent) = 0
  /\ pc \in {"start", "drain"} => subscribed
  /\ Len(channel) <= Len(sent)
  /\ subscribed => \A i \in 1..Len(channel) : channel[i] = Read + i
  /\ subscribed /\ pc \in Before => Len(channel) = Len(sent)
  /\ pc \in Before => answer = <<>> /\ thinking = <<>>
  /\ \A f \in 1..Len(sent) : sent[f] \in EndTypes => f = Len(sent) /\ agent = "over"

Relayed ==
  /\ pc = "drain" => Kept("token", answer, Read) /\ Kept("thinking", thinking, Read)
  /\ \A kind \in TextTypes : NoGap(kind)
  /\ \A i \in 1..Len(events) : events[i].kind = "done" =>
       /\ Len(sent) > 0 /\ sent[Len(sent)] = "done"
       /\ \A kind \in TextTypes : SentOf(kind) \subseteq Shown(kind)

TextInv == "reconnect" \notin faults => Channelled /\ Relayed

LEMMA ToSetIs ==
  ASSUME NEW S, NEW s \in Seq(S), NEW f
  PROVE  f \in ToSet(s) <=> \E a \in 1..Len(s) : s[a] = f
BY DEF ToSet

\* What an event carries.
LEMMA FramesTyped ==
  ASSUME RelayInv, NEW i \in 1..Len(events)
  PROVE  /\ Len(events[i].frames) \in Nat
         /\ \A a \in 1..Len(events[i].frames) : events[i].frames[a] \in 1..Len(sent)
<1>1. Len(sent) \in Nat /\ events \in Seq(Rows(Len(sent)))
  BY DEF RelayInv, Typed, TypeOK
<1>2. events[i].frames \in Seq(1..Len(sent))
  BY <1>1, RowsTyped
<1> QED
  BY <1>2

LEMMA ShownIs ==
  ASSUME RelayInv, NEW kind, NEW f
  PROVE  f \in Shown(kind) <=>
           \E i \in 1..Len(events) : events[i].kind = kind /\
             \E a \in 1..Len(events[i].frames) : events[i].frames[a] = f
<1>1. Len(sent) \in Nat /\ events \in Seq(Rows(Len(sent)))
  BY DEF RelayInv, Typed, TypeOK
<1>2. ASSUME NEW i \in 1..Len(events)
      PROVE  f \in ToSet(events[i].frames) <=>
               \E a \in 1..Len(events[i].frames) : events[i].frames[a] = f
  <2>1. events[i].frames \in Seq(1..Len(sent))
    BY <1>1, RowsTyped
  <2> QED
    BY <2>1, ToSetIs
<1> QED
  BY <1>2, FramesTyped DEF Shown

\* One more frame is sent: what is shown stays, and what is to show grows at
\* the end.
LEMMA SendGrows ==
  ASSUME RelayInv, RelayInv', NEW kind, UNCHANGED events,
         NEW type \in FrameTypes, sent' = Append(sent, type)
  PROVE  /\ InOrder(kind)' <=> InOrder(kind)
         /\ \A f : f \in Shown(kind)' <=> f \in Shown(kind)
         /\ \A f : f \in SentOf(kind)' <=>
              f \in SentOf(kind) \/ (f = Len(sent) + 1 /\ type = kind)
         /\ \A f \in SentOf(kind) \cup Shown(kind) : f \in Nat /\ f <= Len(sent)
<1>1. /\ Len(sent) \in Nat /\ Len(sent') = Len(sent) + 1 /\ sent'[Len(sent) + 1] = type
      /\ \A f \in 1..Len(sent) : sent'[f] = sent[f]
  BY DEF RelayInv, Typed, TypeOK
<1>2. \A f : f \in Shown(kind)' <=> f \in Shown(kind)
  <2> TAKE f
  <2>1. f \in Shown(kind)' <=>
           \E i \in 1..Len(events') : events'[i].kind = kind /\
             \E a \in 1..Len(events'[i].frames) : events'[i].frames[a] = f
    <3>1. \A i \in 1..Len(events) : f \in ToSet(events[i].frames) => f \in 1..Len(sent)
      <4> TAKE i \in 1..Len(events)
      <4>1. events[i].frames \in Seq(1..Len(sent))
        BY RowsTyped DEF RelayInv, Typed, TypeOK
      <4>2. f \in ToSet(events[i].frames) =>
               \E a \in 1..Len(events[i].frames) : events[i].frames[a] = f
        BY <4>1, ToSetIs
      <4> QED
        BY <4>2, FramesTyped
    <3>2. f \in Shown(kind)' <=> f \in Shown(kind)
      BY <1>1, <3>1 DEF Shown
    <3> QED
      BY <3>2, ShownIs
  <2> QED
    BY <2>1, ShownIs
<1>3. InOrder(kind)' <=> InOrder(kind)
  BY DEF InOrder
<1>4. \A f : f \in SentOf(kind)' <=>
         f \in SentOf(kind) \/ (f = Len(sent) + 1 /\ type = kind)
  BY <1>1 DEF SentOf
<1> QED
  BY <1>1, <1>2, <1>3, <1>4 DEF SentOf, Shown

\* The frame read is buffered if it is of the kind.
LEMMA ReadKeeps ==
  ASSUME RelayInv, NEW kind, NEW n \in Nat, NEW buffer \in Seq(1..Len(sent)), Kept(kind, buffer, n),
         n + 1 \in 1..Len(sent), NEW next \in Seq(1..Len(sent)),
         next = IF sent[n + 1] = kind THEN Append(buffer, n + 1) ELSE buffer
  PROVE  Kept(kind, next, n + 1)
<1>1. \A f \in SentOf(kind) : f <= n + 1 => f <= n \/ (f = n + 1 /\ sent[n + 1] = kind)
  BY DEF SentOf
<1>2. \A f \in Shown(kind) : f \in Nat /\ f <= n
  BY DEF Kept, Shown
<1>3. CASE sent[n + 1] # kind
  BY <1>1, <1>2, <1>3 DEF Kept, SentOf
<1>4. CASE sent[n + 1] = kind
  <2>1. /\ Len(next) = Len(buffer) + 1 /\ next[Len(buffer) + 1] = n + 1
        /\ \A a \in 1..Len(buffer) : next[a] = buffer[a]
        /\ Len(buffer) \in Nat
    BY <1>4
  <2>2. n + 1 \in SentOf(kind)
    BY <1>4 DEF SentOf
  <2>3. \A a \in 1..Len(buffer) : buffer[a] \in Nat /\ buffer[a] <= n
    BY DEF Kept
  <2>4. \A a, b \in 1..Len(next) : a < b => next[a] < next[b]
    <3> TAKE a, b \in 1..Len(next)
    <3>1. CASE b \in 1..Len(buffer)
      BY <2>1, <3>1 DEF Kept
    <3>2. CASE b = Len(buffer) + 1
      BY <2>1, <2>3, <3>2
    <3> QED
      BY <2>1, <3>1, <3>2
  <2>5. \A a \in 1..Len(next) : /\ next[a] \in SentOf(kind) /\ next[a] <= n + 1
                                /\ \A f \in Shown(kind) : f < next[a]
    <3> TAKE a \in 1..Len(next)
    <3>1. CASE a \in 1..Len(buffer)
      BY <2>1, <2>3, <3>1 DEF Kept
    <3>2. CASE a = Len(buffer) + 1
      BY <1>2, <2>1, <2>2, <3>2
    <3> QED
      BY <2>1, <3>1, <3>2
  <2>6. \A f \in SentOf(kind) : f <= n + 1 =>
           f \in Shown(kind) \/ \E a \in 1..Len(next) : next[a] = f
    <3> SUFFICES ASSUME NEW f \in SentOf(kind), f <= n + 1, f \notin Shown(kind)
                 PROVE  \E a \in 1..Len(next) : next[a] = f
      OBVIOUS
    <3>1. CASE f = n + 1
      <4>1. Len(buffer) + 1 \in 1..Len(next) /\ next[Len(buffer) + 1] = f
        BY <2>1, <3>1
      <4> QED
        BY <4>1
    <3>2. CASE f <= n
      <4>1. PICK a \in 1..Len(buffer) : buffer[a] = f
        BY <3>2 DEF Kept
      <4> QED
        BY <2>1, <4>1
    <3> QED
      BY <1>1, <3>1, <3>2
  <2> QED
    BY <1>2, <2>4, <2>5, <2>6 DEF Kept
<1> QED
  BY <1>3, <1>4

\* At most one of the new events is of the kind, and carries the buffer.
Emits(kind, buffer) ==
  /\ Len(events') >= Len(events)
  /\ \A i \in 1..Len(events) : events'[i] = events[i]
  /\ \A i \in Len(events) + 1 .. Len(events') : events'[i].kind = kind =>
       /\ events'[i].frames = buffer
       /\ \A j \in Len(events) + 1 .. Len(events') : events'[j].kind = kind => i = j
  /\ buffer # <<>> => \E i \in Len(events) + 1 .. Len(events') : events'[i].kind = kind

\* A flush shows what was buffered.
LEMMA EmitKeeps ==
  ASSUME RelayInv, RelayInv', NEW kind, NEW n \in Nat, NEW buffer \in Seq(1..Len(sent)),
         Kept(kind, buffer, n), Emits(kind, buffer), UNCHANGED sent
  PROVE  Kept(kind, <<>>, n)' /\ NoGap(kind)'
<1>0. Len(events) \in Nat /\ Len(events') \in Nat /\ Len(buffer) \in Nat /\ Len(sent) \in Nat
  BY DEF RelayInv, Typed, TypeOK
<1>1. \A f : f \in Shown(kind)' <=>
        \E i \in 1..Len(events') : events'[i].kind = kind /\
          \E a \in 1..Len(events'[i].frames) : events'[i].frames[a] = f
  <2> TAKE f
  <2>1. ASSUME NEW i \in 1..Len(events')
        PROVE  f \in ToSet(events'[i].frames) <=>
                 \E a \in 1..Len(events'[i].frames) : events'[i].frames[a] = f
    <3>1. events'[i].frames \in Seq(1..Len(sent))
      BY RowsTyped DEF RelayInv, Typed, TypeOK
    <3> QED
      BY <3>1, ToSetIs
  <2>2. ASSUME NEW i \in 1..Len(events'), NEW a \in 1..Len(events'[i].frames)
        PROVE  events'[i].frames[a] \in 1..Len(sent')
    <3>1. events'[i].frames \in Seq(1..Len(sent))
      BY RowsTyped DEF RelayInv, Typed, TypeOK
    <3> QED
      BY <3>1
  <2> QED
    BY <2>1, <2>2 DEF Shown
<1>2. \A f : f \in Shown(kind)' <=>
         f \in Shown(kind) \/ \E a \in 1..Len(buffer) : buffer[a] = f
  <2> TAKE f
  <2>1. ASSUME f \in Shown(kind)'
        PROVE  f \in Shown(kind) \/ \E a \in 1..Len(buffer) : buffer[a] = f
    <3>1. PICK i \in 1..Len(events') : events'[i].kind = kind /\
            \E a \in 1..Len(events'[i].frames) : events'[i].frames[a] = f
      BY <1>1, <2>1
    <3>2. CASE i \in 1..Len(events)
      BY <3>1, <3>2, ShownIs DEF Emits
    <3>3. CASE i \in Len(events) + 1 .. Len(events')
      BY <3>1, <3>3 DEF Emits
    <3> QED
      BY <1>0, <3>2, <3>3
  <2>2. ASSUME f \in Shown(kind)
        PROVE  f \in Shown(kind)'
    <3>1. PICK i \in 1..Len(events) : events[i].kind = kind /\
            \E a \in 1..Len(events[i].frames) : events[i].frames[a] = f
      BY <2>2, ShownIs
    <3>2. i \in 1..Len(events') /\ events'[i] = events[i]
      BY <1>0 DEF Emits
    <3> QED
      BY <1>1, <3>1, <3>2
  <2>3. ASSUME NEW a \in 1..Len(buffer), buffer[a] = f
        PROVE  f \in Shown(kind)'
    <3>1. buffer # <<>>
      BY <1>0
    <3>2. PICK i \in Len(events) + 1 .. Len(events') : events'[i].kind = kind
      BY <3>1 DEF Emits
    <3>3. events'[i].frames = buffer /\ i \in 1..Len(events')
      BY <1>0, <3>2 DEF Emits
    <3> QED
      BY <1>1, <2>3, <3>2, <3>3
  <2> QED
    BY <2>1, <2>2, <2>3
<1>3. \A f : f \in SentOf(kind)' <=> f \in SentOf(kind)
  BY DEF SentOf
<1>4. InOrder(kind)'
  <2> SUFFICES ASSUME NEW i \in 1..Len(events'), NEW j \in 1..Len(events'),
                      events'[i].kind = kind, events'[j].kind = kind,
                      NEW a \in 1..Len(events'[i].frames), NEW b \in 1..Len(events'[j].frames),
                      i < j \/ (i = j /\ a < b)
               PROVE  events'[i].frames[a] < events'[j].frames[b]
    BY DEF InOrder
  <2>1. \A k \in 1..Len(events') : k \in 1..Len(events) \/ k \in Len(events) + 1 .. Len(events')
    BY <1>0
  <2>2. CASE j \in 1..Len(events)
    <3>1. i \in 1..Len(events)
      BY <1>0, <2>2
    <3>2. events'[i] = events[i] /\ events'[j] = events[j]
      BY <2>2, <3>1 DEF Emits
    <3> QED
      BY <2>2, <3>1, <3>2 DEF Kept, InOrder
  <2>3. CASE j \in Len(events) + 1 .. Len(events') /\ i \in 1..Len(events)
    <3>1. events'[i] = events[i] /\ events'[j].frames = buffer
      BY <2>3 DEF Emits
    <3>2. events[i].frames[a] \in Shown(kind)
      BY <2>3, <3>1, ShownIs
    <3> QED
      BY <3>1, <3>2 DEF Kept
  <2>4. CASE j \in Len(events) + 1 .. Len(events') /\ i \in Len(events) + 1 .. Len(events')
    <3>1. i = j /\ events'[j].frames = buffer
      BY <2>4 DEF Emits
    <3> QED
      BY <1>0, <3>1 DEF Kept
  <2> QED
    BY <2>1, <2>2, <2>3, <2>4
<1>5. Kept(kind, <<>>, n)'
  BY <1>2, <1>3, <1>4 DEF Kept
<1>6. NoGap(kind)'
  <2>1. ASSUME NEW f \in SentOf(kind)', NEW g \in Shown(kind)', f < g
        PROVE  f \in Shown(kind)'
    <3>1. f \in Nat /\ g \in Nat /\ g <= n
      BY <1>0, <1>5, <2>1 DEF SentOf, Shown, Kept
    <3>2. f <= n
      BY <2>1, <3>1
    <3> QED
      BY <1>5, <2>1, <3>2 DEF Kept
  <2> QED
    BY <1>5, <2>1 DEF Kept, NoGap
<1> QED
  BY <1>5, <1>6

\* What a flush adds: one event for each buffer that is not empty.
Only(kind, buffer, tail) ==
  /\ \A i \in 1..Len(tail) : tail[i].kind = kind =>
       /\ tail[i].frames = buffer
       /\ \A j \in 1..Len(tail) : tail[j].kind = kind => i = j
  /\ buffer # <<>> => \E i \in 1..Len(tail) : tail[i].kind = kind

LEMMA FlushTail ==
  ASSUME NEW n \in Nat, events \in Seq(Rows(n)), NEW a \in Seq(1..n), NEW t \in Seq(1..n)
  PROVE  \E tail \in Seq(Rows(n)) :
           /\ Flushed(a, t) = events \o tail
           /\ Only("token", a, tail) /\ Only("thinking", t, tail)
<1>1. PICK x, y : x = Event("token", a) /\ y = Event("thinking", t)
  OBVIOUS
<1>2. /\ x \in Rows(n) /\ x.kind = "token" /\ x.frames = a
      /\ y \in Rows(n) /\ y.kind = "thinking" /\ y.frames = t
  BY <1>1 DEF Event, Rows, FrameTypes, TextTypes
<1>3. /\ <<>> \in Seq(Rows(n)) /\ <<x>> \in Seq(Rows(n)) /\ <<y>> \in Seq(Rows(n))
  BY <1>2
<1>4. PICK xy \in Seq(Rows(n)) : /\ xy = <<x>> \o <<y>> /\ Len(xy) = 2
                               /\ xy[1] = x /\ xy[2] = y
  <2>1. /\ <<x>> \o <<y>> \in Seq(Rows(n)) /\ Len(<<x>> \o <<y>>) = 2
        /\ (<<x>> \o <<y>>)[1] = x /\ (<<x>> \o <<y>>)[2] = y
    BY <1>3
  <2> QED
    BY <2>1
<1>a. /\ events \o <<>> = events
      /\ (events \o <<x>>) \o <<>> = events \o <<x>>
      /\ (events \o <<x>>) \o <<y>> = events \o xy
  <2>1. events \o <<x>> \in Seq(Rows(n))
    BY <1>3, ConcatProperties
  <2>2. (events \o <<x>>) \o <<y>> = events \o (<<x>> \o <<y>>)
    BY <1>3, ConcatAssociative
  <2> QED
    BY <1>3, <1>4, <2>1, <2>2, ConcatEmptySeq
<1>5. CASE a = <<>> /\ t = <<>>
  <2>1. Flushed(a, t) = events \o <<>>
    BY <1>a, <1>5 DEF Flushed, FlushOne
  <2>2. Only("token", a, <<>>) /\ Only("thinking", t, <<>>)
    BY <1>5 DEF Only
  <2> QED
    BY <1>3, <2>1, <2>2
<1>6. CASE a # <<>> /\ t = <<>>
  <2>1. Flushed(a, t) = events \o <<x>>
    BY <1>1, <1>a, <1>6 DEF Flushed, FlushOne
  <2>2. Only("token", a, <<x>>) /\ Only("thinking", t, <<x>>)
    BY <1>2, <1>6 DEF Only
  <2> QED
    BY <1>3, <2>1, <2>2
<1>7. CASE a = <<>> /\ t # <<>>
  <2>1. Flushed(a, t) = events \o <<y>>
    BY <1>1, <1>a, <1>7 DEF Flushed, FlushOne
  <2>2. Only("token", a, <<y>>) /\ Only("thinking", t, <<y>>)
    BY <1>2, <1>7 DEF Only
  <2> QED
    BY <1>3, <2>1, <2>2
<1>8. CASE a # <<>> /\ t # <<>>
  <2>1. Flushed(a, t) = events \o xy
    BY <1>1, <1>a, <1>8 DEF Flushed, FlushOne
  <2>2. \A i \in 1..Len(xy) : (i = 1 /\ xy[i] = x) \/ (i = 2 /\ xy[i] = y)
    <3>1. \A i \in 1..2 : i = 1 \/ i = 2
      OBVIOUS
    <3> QED
      BY <1>4, <3>1
  <2>3. 1 \in 1..Len(xy) /\ xy[1].kind = "token" /\ 2 \in 1..Len(xy) /\ xy[2].kind = "thinking"
    BY <1>2, <1>4
  <2>4. Only("token", a, xy)
    <3>1. \A i \in 1..Len(xy) : xy[i].kind = "token" => i = 1 /\ xy[i].frames = a
      BY <1>2, <2>2
    <3> QED
      BY <2>3, <3>1 DEF Only
  <2>5. Only("thinking", t, xy)
    <3>1. \A i \in 1..Len(xy) : xy[i].kind = "thinking" => i = 2 /\ xy[i].frames = t
      BY <1>2, <2>2
    <3> QED
      BY <2>3, <3>1 DEF Only
  <2> QED
    BY <2>1, <2>4, <2>5
<1> QED
  BY <1>5, <1>6, <1>7, <1>8

\* A flush, alone or before a terminal event, emits both buffers.
LEMMA FlushEmits ==
  ASSUME NEW n \in Nat, events \in Seq(Rows(n)), NEW a \in Seq(1..n), NEW t \in Seq(1..n),
         NEW terminal \in EndTypes,
         events' \in {Flushed(a, t), Append(Flushed(a, t), Event(terminal, <<>>))}
  PROVE  Emits("token", a) /\ Emits("thinking", t)
<1>1. PICK tail \in Seq(Rows(n)) :
         /\ Flushed(a, t) = events \o tail
         /\ Only("token", a, tail) /\ Only("thinking", t, tail)
  BY FlushTail
<1>2. PICK last : last = Event(terminal, <<>>)
  OBVIOUS
<1>3. last \in Rows(n) /\ last.kind \in EndTypes
  BY <1>2 DEF Event, Rows, FrameTypes
<1>4. PICK all \in Seq(Rows(n)) :
         /\ events' = events \o all
         /\ Only("token", a, all) /\ Only("thinking", t, all)
  <2>1. CASE events' = Flushed(a, t)
    BY <1>1, <2>1
  <2>2. CASE events' = Append(Flushed(a, t), last)
    <3>1. events' = events \o Append(tail, last)
      <4>1. events \o tail \in Seq(Rows(n)) /\ <<last>> \in Seq(Rows(n))
        BY <1>1, <1>3
      <4>2. Append(events \o tail, last) = (events \o tail) \o <<last>>
        BY <1>3, <4>1, AppendIsConcat
      <4>3. Append(tail, last) = tail \o <<last>>
        BY <1>3, AppendIsConcat
      <4>4. (events \o tail) \o <<last>> = events \o (tail \o <<last>>)
        BY <4>1, ConcatAssociative
      <4> QED
        BY <1>1, <2>2, <4>2, <4>3, <4>4
    <3>2. PICK all : all = Append(tail, last)
      OBVIOUS
    <3>3. /\ all \in Seq(Rows(n)) /\ Len(all) = Len(tail) + 1 /\ all[Len(tail) + 1] = last
          /\ \A i \in 1..Len(tail) : all[i] = tail[i]
          /\ Len(tail) \in Nat
      BY <1>1, <1>3, <3>2
    <3>4. ASSUME NEW kind \in TextTypes, NEW buffer, Only(kind, buffer, tail)
          PROVE  Only(kind, buffer, all)
      <4>1. \A i \in 1..Len(all) : all[i].kind = kind => i \in 1..Len(tail)
        BY <1>3, <3>3 DEF TextTypes, EndTypes
      <4>2. 1..Len(tail) \subseteq 1..Len(all)
        BY <3>3
      <4> QED
        BY <3>3, <3>4, <4>1, <4>2 DEF Only
    <3> QED
      BY <1>1, <3>1, <3>2, <3>3, <3>4 DEF TextTypes
  <2> QED
    BY <1>2, <2>1, <2>2
<1>5. /\ Len(events) \in Nat /\ Len(all) \in Nat /\ Len(events') = Len(events) + Len(all)
      /\ \A i \in 1..Len(events) : events'[i] = events[i]
      /\ \A i \in 1..Len(all) : events'[Len(events) + i] = all[i]
  BY <1>4
<1>6. \A i \in Len(events) + 1 .. Len(events') :
         i - Len(events) \in 1..Len(all) /\ events'[i] = all[i - Len(events)]
  <2> TAKE i \in Len(events) + 1 .. Len(events')
  <2>1. i - Len(events) \in 1..Len(all) /\ i = Len(events) + (i - Len(events))
    BY <1>5
  <2> QED
    BY <1>5, <2>1
<1>7. ASSUME NEW kind, NEW buffer, Only(kind, buffer, all)
      PROVE  Emits(kind, buffer)
  <2>1. \A i \in Len(events) + 1 .. Len(events') : events'[i].kind = kind =>
          /\ events'[i].frames = buffer
          /\ \A j \in Len(events) + 1 .. Len(events') : events'[j].kind = kind => i = j
    <3> SUFFICES ASSUME NEW i \in Len(events) + 1 .. Len(events'), events'[i].kind = kind
                 PROVE  /\ events'[i].frames = buffer
                        /\ \A j \in Len(events) + 1 .. Len(events') : events'[j].kind = kind => i = j
      OBVIOUS
    <3>1. events'[i].frames = buffer
      BY <1>6, <1>7 DEF Only
    <3>2. ASSUME NEW j \in Len(events) + 1 .. Len(events'), events'[j].kind = kind
          PROVE  i = j
      <4>1. i - Len(events) = j - Len(events)
        BY <1>6, <1>7, <3>2 DEF Only
      <4> QED
        BY <1>5, <4>1
    <3> QED
      BY <3>1, <3>2
  <2>2. buffer # <<>> => \E i \in Len(events) + 1 .. Len(events') : events'[i].kind = kind
    <3>1. ASSUME NEW i \in 1..Len(all), all[i].kind = kind
          PROVE  \E k \in Len(events) + 1 .. Len(events') : events'[k].kind = kind
      <4>1. Len(events) + i \in Len(events) + 1 .. Len(events') /\ events'[Len(events) + i].kind = kind
        BY <1>5, <3>1
      <4> QED
        BY <4>1
    <3> QED
      BY <1>7, <3>1 DEF Only
  <2> QED
    BY <1>5, <2>1, <2>2 DEF Emits
<1> QED
  BY <1>4, <1>7

-----------------------------------------------------------------------------
LEMMA InitText == Init => TextInv
<1> SUFFICES ASSUME Init
             PROVE  Channelled /\ Relayed
  BY DEF TextInv
<1>1. /\ Len(sent) = 0 /\ Len(channel) = 0 /\ Len(events) = 0 /\ pc = "new" /\ agent = "none"
      /\ answer = <<>> /\ thinking = <<>> /\ subscribed = FALSE
  BY DEF Init
<1>2. Channelled
  BY <1>1 DEF Channelled, Read, Before
<1>3. Relayed
  BY <1>1 DEF Relayed, NoGap, InOrder, Shown, SentOf
<1> QED
  BY <1>2, <1>3

LEMMA SameText ==
  ASSUME NEW kind, UNCHANGED <<sent, events>>
  PROVE  /\ SentOf(kind)' = SentOf(kind) /\ Shown(kind)' = Shown(kind)
         /\ InOrder(kind)' <=> InOrder(kind)
         /\ NoGap(kind)' <=> NoGap(kind)
<1>1. SentOf(kind)' = SentOf(kind)
  BY DEF SentOf
<1>2. Shown(kind)' = Shown(kind)
  BY DEF Shown
<1>3. InOrder(kind)' <=> InOrder(kind)
  BY DEF InOrder
<1> QED
  BY <1>1, <1>2, <1>3 DEF NoGap

LEMMA SameKept ==
  ASSUME NEW kind, NEW buffer, NEW n, UNCHANGED <<sent, events>>, Kept(kind, buffer, n)
  PROVE  Kept(kind, buffer, n)'
<1>1. /\ SentOf(kind)' = SentOf(kind) /\ Shown(kind)' = Shown(kind)
      /\ InOrder(kind)' <=> InOrder(kind)
  BY SameText
<1> QED
  BY <1>1 DEF Kept

\* A step that reads nothing and shows nothing.
LEMMA QuietRelayed ==
  ASSUME Relayed, UNCHANGED <<sent, events>>,
         pc' = "drain" => pc = "drain" /\ UNCHANGED <<channel, answer, thinking>>
  PROVE  Relayed'
<1>1. ASSUME pc' = "drain"
      PROVE  (Kept("token", answer, Read) /\ Kept("thinking", thinking, Read))'
  <2>1. PICK n, a, t : n = Read /\ a = answer /\ t = thinking
    OBVIOUS
  <2>2. Read' = n /\ answer' = a /\ thinking' = t
    BY <1>1, <2>1 DEF Read
  <2>3. Kept("token", a, n)' /\ Kept("thinking", t, n)'
    BY <1>1, <2>1, SameKept DEF Relayed
  <2> QED
    BY <2>2, <2>3
<1>2. \A kind \in TextTypes : NoGap(kind)' /\ SentOf(kind)' = SentOf(kind) /\ Shown(kind)' = Shown(kind)
  BY SameText DEF Relayed
<1> QED
  BY <1>1, <1>2 DEF Relayed

\* A flush of buffers that keep the first n frames.
LEMMA FlushRelays ==
  ASSUME RelayInv, RelayInv', NEW n \in Nat, UNCHANGED sent,
         NEW a \in Seq(1..Len(sent)), NEW t \in Seq(1..Len(sent)), NEW terminal \in EndTypes,
         Kept("token", a, n), Kept("thinking", t, n),
         events' \in {Flushed(a, t), Append(Flushed(a, t), Event(terminal, <<>>))}
  PROVE  \A kind \in TextTypes : Kept(kind, <<>>, n)' /\ NoGap(kind)'
<1>1. Len(sent) \in Nat /\ events \in Seq(Rows(Len(sent)))
  BY DEF RelayInv, Typed, TypeOK
<1>2. Emits("token", a) /\ Emits("thinking", t)
  BY <1>1, FlushEmits
<1>3. Kept("token", <<>>, n)' /\ NoGap("token")'
  BY <1>2, EmitKeeps
<1>4. Kept("thinking", <<>>, n)' /\ NoGap("thinking")'
  BY <1>2, EmitKeeps
<1> QED
  BY <1>3, <1>4 DEF TextTypes

\* A turn that goes on, with buffers that keep the first n frames.
LEMMA KeepRelays ==
  ASSUME RelayInv, RelayInv', Relayed, pc = "drain", pc' = "drain", UNCHANGED sent,
         NEW n \in Nat, Read' = n, NEW a \in Seq(1..Len(sent)), NEW t \in Seq(1..Len(sent)),
         Kept("token", a, n), Kept("thinking", t, n), NEW flush \in BOOLEAN, Keep(a, t, flush)
  PROVE  Relayed'
<1>1. \A i \in 1..Len(events') : events'[i].kind # "done"
  BY DEF RelayInv, Shape, EndTypes, TextTypes
<1>2. CASE ~flush
  <2>1. answer' = a /\ thinking' = t /\ UNCHANGED events
    BY <1>2 DEF Keep
  <2>2. (Kept("token", answer, Read) /\ Kept("thinking", thinking, Read))'
    BY <2>1, SameKept
  <2>3. (\A kind \in TextTypes : NoGap(kind))'
    BY <2>1, SameText DEF Relayed
  <2> QED
    BY <1>1, <2>2, <2>3 DEF Relayed
<1>3. CASE flush
  <2>1. answer' = <<>> /\ thinking' = <<>> /\ events' = Flushed(a, t)
    BY <1>3 DEF Keep
  <2>2. \A kind \in TextTypes : Kept(kind, <<>>, n)' /\ NoGap(kind)'
    <3>1. "error" \in EndTypes
      BY DEF EndTypes
    <3> QED
      BY <2>1, <3>1, FlushRelays
  <2>3. (Kept("token", answer, Read) /\ Kept("thinking", thinking, Read))'
    BY <2>1, <2>2 DEF TextTypes, Kept
  <2> QED
    BY <1>1, <2>2, <2>3 DEF Relayed
<1> QED
  BY <1>2, <1>3

\* The end of a relay: generation_done comes after all the text.
LEMMA FinishRelays ==
  ASSUME RelayInv, RelayInv', Relayed, Channelled, pc = "drain",
         NEW terminal \in EndTypes, Finish(terminal),
         terminal = "done" => Len(sent) = Read + 1 /\ sent[Len(sent)] = "done"
  PROVE  Relayed'
<1>1. PICK n \in Nat : n = Read
  <2>1. Len(sent) \in Nat /\ Len(channel) \in Nat
    BY DEF RelayInv, Typed, TypeOK
  <2>2. Read \in Nat
    BY <2>1 DEF Channelled, Read
  <2> QED
    BY <2>2
<1>2. /\ answer \in Seq(1..Len(sent)) /\ thinking \in Seq(1..Len(sent)) /\ Len(sent) \in Nat
      /\ events \in Seq(Rows(Len(sent)))
  BY DEF RelayInv, Typed, TypeOK
<1>3. Kept("token", answer, n) /\ Kept("thinking", thinking, n)
  BY <1>1 DEF Relayed
<1>4. UNCHANGED sent /\ pc' = "over" /\ events' = Append(Flushed(answer, thinking), Event(terminal, <<>>))
  BY DEF Finish
<1>5. \A kind \in TextTypes : Kept(kind, <<>>, n)' /\ NoGap(kind)'
  BY <1>2, <1>3, <1>4, FlushRelays
<1>6. ASSUME NEW i \in 1..Len(events'), events'[i].kind = "done"
      PROVE  terminal = "done"
  <2>1. PICK flushed \in Seq(Rows(Len(sent))) : flushed = Flushed(answer, thinking)
    BY <1>2, FlushAdds
  <2>2. PICK last : last = Event(terminal, <<>>)
    OBVIOUS
  <2>3. last \in Rows(Len(sent)) /\ last.kind = terminal
    BY <2>2 DEF Event, Rows, FrameTypes
  <2>4. events' = Append(flushed, last)
    BY <1>4, <2>1, <2>2
  <2>5. Len(events') = Len(flushed) + 1 /\ events'[Len(flushed) + 1] = last
    BY <2>3, <2>4
  <2>6. i = Len(events')
    BY <1>6 DEF RelayInv, Shape, EndTypes, TextTypes
  <2> QED
    BY <1>6, <2>3, <2>5, <2>6
<1>7. ASSUME terminal = "done", NEW kind \in TextTypes, NEW f \in SentOf(kind)'
      PROVE  f \in Shown(kind)'
  <2>1. f \in 1..Len(sent) /\ sent[f] = kind /\ Len(sent) = n + 1 /\ sent[Len(sent)] = "done"
    BY <1>1, <1>4, <1>7 DEF SentOf
  <2>2. f <= n
    BY <1>2, <2>1 DEF TextTypes
  <2> QED
    BY <1>5, <1>7, <2>2 DEF Kept
<1>8. (\A i \in 1..Len(events) : events[i].kind = "done" =>
         /\ Len(sent) > 0 /\ sent[Len(sent)] = "done"
         /\ \A kind \in TextTypes : SentOf(kind) \subseteq Shown(kind))'
  <2>1. Read + 1 > 0
    BY <1>1
  <2> QED
    BY <1>4, <1>6, <1>7, <2>1
<1> QED
  BY <1>4, <1>5, <1>8 DEF Relayed

-----------------------------------------------------------------------------
(* One step for each action.                                               *)

LEMMA StepChannelled ==
  ASSUME RelayInv, "reconnect" \notin faults, Channelled, [Next]_vars
  PROVE  Channelled'
<1>0. /\ Len(sent) \in Nat /\ Len(channel) \in Nat /\ channel \in Seq(1..Len(sent))
      /\ sent \in Seq(FrameTypes) /\ pc \in Before \cup {"drain", "over"}
      /\ subscribed \in BOOLEAN
  BY DEF RelayInv, Typed, TypeOK, Before
<1>1. CASE Subscribe
  <2>1. Len(sent) = 0 /\ Len(channel) = 0
    BY <1>0, <1>1 DEF Subscribe, Channelled
  <2> QED
    BY <1>1, <2>1 DEF Subscribe, relayVars, Channelled, Read, Before
<1>2. CASE Publish
  BY <1>2 DEF Publish, relayVars, Channelled, Read, Before
<1>3. CASE PublishFails \/ (\E terminal : pc = "drain" /\ Finish(terminal))
  <2>1. pc' = "over" /\ subscribed' = FALSE /\ channel' = <<>> /\ UNCHANGED <<sent, agent>>
    BY <1>3 DEF PublishFails, Finish
  <2> QED
    BY <1>0, <2>1 DEF Channelled, Read, Before
<1>4. CASE Published \/ RelayStarts
  <2>1. /\ pc \in Before \ {"new", "publish"} /\ UNCHANGED <<subscribed, sent, channel, agent>>
        /\ UNCHANGED <<answer, thinking>> /\ pc' \in {"start", "drain", "over"}
        /\ pc' # "over" => subscribed
    BY <1>4 DEF Published, RelayStarts, relayVars, Channelled, Before
  <2> QED
    BY <2>1 DEF Channelled, Read, Before
<1>5. CASE AgentTakes \/ AgentDies \/ DeadlinePasses
  <2>1. UNCHANGED <<subscribed, sent, channel, answer, thinking, pc>>
    BY <1>5 DEF AgentTakes, AgentDies, DeadlinePasses, relayVars
  <2>2. \/ agent = "asked" /\ agent' = "working"
        \/ agent \in {"asked", "working"} /\ agent' = "over"
        \/ agent' = agent
    BY <1>5 DEF AgentTakes, AgentDies, DeadlinePasses
  <2>3. pc' \in {"new", "publish"} => agent' = "none"
    BY <2>1, <2>2 DEF Channelled
  <2>4. agent' \in {"none", "asked"} => Len(sent') = 0
    BY <2>1, <2>2 DEF Channelled
  <2>5. \A f \in 1..Len(sent') : sent'[f] \in EndTypes => f = Len(sent') /\ agent' = "over"
    BY <1>0, <2>1, <2>2 DEF Channelled
  <2> QED
    BY <2>1, <2>3, <2>4, <2>5 DEF Channelled, Read
<1>6. ASSUME NEW type \in FrameTypes, AgentSends(type)
      PROVE  Channelled'
  <2>1. /\ agent = "working" /\ sent' = Append(sent, type)
        /\ channel' = IF subscribed THEN Append(channel, Len(sent')) ELSE channel
        /\ agent' = IF type \in EndTypes THEN "over" ELSE agent
        /\ UNCHANGED <<pc, subscribed, answer, thinking>>
    BY <1>6 DEF AgentSends, relayVars
  <2>2. /\ Len(sent') = Len(sent) + 1 /\ sent'[Len(sent) + 1] = type
        /\ \A f \in 1..Len(sent) : sent'[f] = sent[f]
    BY <1>0, <2>1
  <2>3. subscribed => /\ Len(channel') = Len(channel) + 1 /\ channel'[Len(channel) + 1] = Len(sent) + 1
                      /\ \A i \in 1..Len(channel) : channel'[i] = channel[i]
    BY <1>0, <2>1, <2>2
  <2>4. Len(channel') <= Len(sent')
    BY <1>0, <2>1, <2>2, <2>3 DEF Channelled
  <2>5. subscribed' => \A i \in 1..Len(channel') : channel'[i] = Read' + i
    <3>1. Read \in Int /\ subscribed => Read' = Read
      BY <1>0, <2>1, <2>2, <2>3 DEF Read
    <3>2. subscribed => \A i \in 1..Len(channel) : channel[i] = Read + i
      BY DEF Channelled
    <3>3. Read + (Len(channel) + 1) = Len(sent) + 1
      BY <1>0 DEF Read
    <3> SUFFICES ASSUME subscribed, NEW i \in 1..Len(channel')
                 PROVE  channel'[i] = Read' + i
      BY <2>1
    <3>4. i \in 1..Len(channel) \/ i = Len(channel) + 1
      BY <1>0, <2>3
    <3>5. Read' = Read
      BY <1>0, <3>1 DEF Read
    <3> QED
      BY <2>3, <3>2, <3>3, <3>4, <3>5
  <2>6. \A f \in 1..Len(sent') : sent'[f] \in EndTypes => f = Len(sent') /\ agent' = "over"
    <3> SUFFICES ASSUME NEW f \in 1..Len(sent'), sent'[f] \in EndTypes
                 PROVE  f = Len(sent') /\ agent' = "over"
      OBVIOUS
    <3>1. f \notin 1..Len(sent)
      BY <2>1, <2>2 DEF Channelled
    <3>2. f = Len(sent) + 1
      BY <1>0, <2>2, <3>1
    <3> QED
      BY <2>1, <2>2, <3>2
  <2> QED
    BY <1>0, <2>1, <2>2, <2>3, <2>4, <2>5, <2>6 DEF Channelled, Before
<1>7. CASE ReadNothing
  BY <1>7 DEF ReadNothing, Channelled, Read, Before
<1>8. CASE ReadText \/ ReadOther
  <2>1. /\ pc = "drain" /\ channel # <<>> /\ channel' = Tail(channel)
        /\ UNCHANGED <<pc, subscribed, sent, agent>>
    BY <1>8 DEF ReadText, ReadOther, relayVars
  <2>2. /\ Len(channel') = Len(channel) - 1 /\ Len(channel') \in Nat
        /\ \A i \in 1..Len(channel') : channel'[i] = channel[i + 1] /\ i + 1 \in 1..Len(channel)
    BY <1>0, <2>1
  <2>3. subscribed' => \A i \in 1..Len(channel') : channel'[i] = Read' + i
    <3>1. Read \in Int /\ Read' = Read + 1
      BY <1>0, <2>1, <2>2 DEF Read
    <3>2. subscribed => \A i \in 1..Len(channel) : channel[i] = Read + i
      BY DEF Channelled
    <3> QED
      BY <1>0, <2>1, <2>2, <3>1, <3>2
  <2>4. Len(channel') <= Len(sent')
    BY <1>0, <2>1, <2>2 DEF Channelled
  <2> QED
    BY <2>1, <2>3, <2>4 DEF Channelled, Before
<1>9. CASE ReadEnd \/ DeadlineExceeded \/ RelayFails
  BY <1>3, <1>9 DEF ReadEnd, DeadlineExceeded, RelayFails
<1>10. CASE UNCHANGED vars
  BY <1>10 DEF vars, relayVars, Channelled, Read, Before
<1>11. ~Reconnect
  BY DEF Reconnect
<1> QED
  BY <1>1, <1>2, <1>3, <1>4, <1>5, <1>6, <1>7, <1>8, <1>9, <1>10, <1>11 DEF Next, Relay

LEMMA StepRelayed ==
  ASSUME RelayInv, RelayInv', "reconnect" \notin faults, Channelled, Relayed, [Next]_vars
  PROVE  Relayed'
<1>0. /\ Len(sent) \in Nat /\ Len(channel) \in Nat /\ channel \in Seq(1..Len(sent))
      /\ sent \in Seq(FrameTypes) /\ answer \in Seq(1..Len(sent)) /\ thinking \in Seq(1..Len(sent))
  BY DEF RelayInv, Typed, TypeOK
<1>n. PICK n \in Nat : n = Read
  <2>1. Read \in Nat
    BY <1>0 DEF Channelled, Read
  <2> QED
    BY <2>1
<1>1. CASE Subscribe \/ Publish \/ PublishFails \/ Published \/ AgentTakes \/ AgentDies \/ DeadlinePasses
  BY <1>1, QuietRelayed
     DEF Subscribe, Publish, PublishFails, Published, AgentTakes, AgentDies, DeadlinePasses, relayVars
<1>2. ASSUME NEW type \in FrameTypes, AgentSends(type)
      PROVE  Relayed'
  <2>1. /\ agent = "working" /\ sent' = Append(sent, type)
        /\ channel' = IF subscribed THEN Append(channel, Len(sent')) ELSE channel
        /\ UNCHANGED <<pc, events, answer, thinking>>
    BY <1>2 DEF AgentSends, relayVars
  <2>2. ASSUME NEW kind
        PROVE  /\ InOrder(kind)' <=> InOrder(kind)
               /\ \A f : f \in Shown(kind)' <=> f \in Shown(kind)
               /\ \A f : f \in SentOf(kind)' <=>
                    f \in SentOf(kind) \/ (f = Len(sent) + 1 /\ type = kind)
               /\ \A f \in SentOf(kind) \cup Shown(kind) : f \in Nat /\ f <= Len(sent)
    BY <2>1, SendGrows
  <2>3. ASSUME NEW kind \in TextTypes
        PROVE  NoGap(kind)'
    <3>1. ASSUME NEW f \in SentOf(kind)', NEW g \in Shown(kind)', f < g
          PROVE  f \in Shown(kind)'
      <4>1. g \in Shown(kind) /\ g \in Nat /\ g <= Len(sent)
        BY <2>2, <3>1
      <4>2. f # Len(sent) + 1
        BY <1>0, <3>1, <4>1
      <4>3. f \in SentOf(kind)
        BY <2>2, <3>1, <4>2
      <4> QED
        BY <2>2, <2>3, <3>1, <4>1, <4>3 DEF Relayed, NoGap
    <3> QED
      BY <2>2, <2>3, <3>1 DEF Relayed, NoGap
  <2>4. ASSUME NEW kind, NEW buffer, Kept(kind, buffer, n)
        PROVE  Kept(kind, buffer, n)'
    <3>1. n <= Len(sent)
      BY <1>0, <1>n DEF Read
    <3>2. \A f \in SentOf(kind)' : f <= n => f \in SentOf(kind)
      BY <1>0, <2>2, <3>1
    <3> QED
      BY <2>2, <2>4, <3>2 DEF Kept
  <2>5. ASSUME pc' = "drain"
        PROVE  Read' = n
    <3>1. channel' = Append(channel, Len(sent')) /\ Len(sent') = Len(sent) + 1
      BY <1>0, <2>1, <2>5 DEF Channelled
    <3>2. Len(channel') = Len(channel) + 1
      BY <1>0, <3>1
    <3> QED
      BY <1>0, <1>n, <3>1, <3>2 DEF Read
  <2>6. ASSUME pc' = "drain"
        PROVE  (Kept("token", answer, Read) /\ Kept("thinking", thinking, Read))'
    <3>1. PICK a, t : a = answer /\ t = thinking
      OBVIOUS
    <3>2. Kept("token", a, n)' /\ Kept("thinking", t, n)'
      BY <1>n, <2>1, <2>4, <2>6, <3>1 DEF Relayed
    <3> QED
      BY <2>1, <2>5, <2>6, <3>1, <3>2
  <2>7. \A i \in 1..Len(events') : events'[i].kind # "done"
    <3>1. ~(Len(sent) > 0 /\ sent[Len(sent)] = "done")
      BY <1>0, <2>1 DEF Channelled, EndTypes
    <3> QED
      BY <2>1, <3>1 DEF Relayed
  <2> QED
    BY <2>3, <2>6, <2>7 DEF Relayed
<1>3. CASE RelayStarts
  <2>1. events = <<>> /\ pc = "start" /\ answer = <<>> /\ thinking = <<>> /\ n = 0
    BY <1>0, <1>3, <1>n DEF RelayStarts, RelayInv, Shape, Channelled, Read, Before
  <2>2. PICK first : first = Event("generation_start", <<>>)
    OBVIOUS
  <2>3. first.kind = "generation_start" /\ first \in Rows(Len(sent))
    BY <2>2 DEF Event, Rows
  <2>4. events' = <<first>> /\ UNCHANGED <<sent, channel, answer, thinking>>
    BY <1>3, <2>1, <2>2 DEF RelayStarts
  <2>5. Len(events') = 1 /\ events'[1] = first
    BY <2>3, <2>4
  <2>6. \A i \in 1..Len(events') : events'[i].kind = "generation_start"
    BY <2>3, <2>5
  <2>7. \A kind \in TextTypes : InOrder(kind)' /\ Shown(kind)' = {}
    BY <2>6 DEF InOrder, Shown, TextTypes
  <2>8. \A kind \in TextTypes : NoGap(kind)'
    BY <2>7 DEF NoGap
  <2>9. \A kind \in TextTypes : Kept(kind, <<>>, n)'
    <3> TAKE kind \in TextTypes
    <3>1. \A f \in SentOf(kind)' : ~(f <= n)
      BY <2>1, <2>4, <1>0 DEF SentOf
    <3> QED
      BY <2>7, <3>1 DEF Kept
  <2>10. Read' = n
    BY <1>n, <2>4 DEF Read
  <2>11. (Kept("token", answer, Read) /\ Kept("thinking", thinking, Read))'
    BY <2>1, <2>4, <2>9, <2>10 DEF TextTypes
  <2> QED
    BY <2>6, <2>8, <2>11 DEF Relayed
<1>4. CASE ReadNothing
  <2>1. pc = "drain" /\ pc' = "drain" /\ UNCHANGED <<sent, channel>> /\ Keep(answer, thinking, TRUE)
    BY <1>4 DEF ReadNothing
  <2>2. Kept("token", answer, n) /\ Kept("thinking", thinking, n) /\ Read' = n
    BY <1>n, <2>1 DEF Relayed, Read
  <2> QED
    BY <1>0, <2>1, <2>2, KeepRelays
<1>5. ASSUME pc = "drain", channel # <<>>
      PROVE  /\ Head(channel) = n + 1 /\ n + 1 \in 1..Len(sent)
             /\ Kept("token", answer, n) /\ Kept("thinking", thinking, n)
             /\ channel' = Tail(channel) /\ UNCHANGED sent => Read' = n + 1
  <2>1. Len(channel) >= 1 /\ Head(channel) = channel[1] /\ Len(Tail(channel)) = Len(channel) - 1
    BY <1>0, <1>5
  <2>2. Head(channel) = n + 1
    BY <1>0, <1>5, <1>n, <2>1 DEF Channelled
  <2>3. n + 1 \in 1..Len(sent)
    BY <1>0, <1>n, <2>1 DEF Read
  <2>4. ASSUME channel' = Tail(channel), UNCHANGED sent
        PROVE  Read' = n + 1
    <3>1. Read' = Len(sent) - Len(Tail(channel))
      BY <2>4 DEF Read
    <3>2. n = Len(sent) - Len(channel)
      BY <1>n DEF Read
    <3>3. Len(sent) - (Len(channel) - 1) = (Len(sent) - Len(channel)) + 1
      BY <1>0
    <3> QED
      BY <2>1, <3>1, <3>2, <3>3
  <2> QED
    BY <1>5, <1>n, <2>2, <2>3, <2>4 DEF Relayed
<1>6. CASE ReadText
  <2>1. PICK a, t : /\ a = IF sent[n + 1] = "token" THEN Append(answer, n + 1) ELSE answer
                    /\ t = IF sent[n + 1] = "thinking" THEN Append(thinking, n + 1) ELSE thinking
    OBVIOUS
  <2>2. /\ pc = "drain" /\ channel # <<>> /\ pc' = "drain"
        /\ channel' = Tail(channel) /\ UNCHANGED sent
    BY <1>6 DEF ReadText
  <2>3. PICK flush \in BOOLEAN : Keep(a, t, flush)
    <3>1. Head(channel) = n + 1
      BY <1>5, <2>2
    <3> QED
      BY <1>6, <2>1, <3>1 DEF ReadText
  <2>4. a \in Seq(1..Len(sent)) /\ t \in Seq(1..Len(sent))
    <3>1. n + 1 \in 1..Len(sent)
      BY <1>5, <2>2
    <3>2. Append(answer, n + 1) \in Seq(1..Len(sent)) /\ Append(thinking, n + 1) \in Seq(1..Len(sent))
      BY <1>0, <3>1
    <3> QED
      BY <1>0, <2>1, <3>2
  <2>5. Kept("token", a, n + 1) /\ Kept("thinking", t, n + 1)
    BY <1>0, <1>5, <2>1, <2>2, <2>4, ReadKeeps
  <2>6. n + 1 \in Nat /\ Read' = n + 1
    BY <1>5, <2>2
  <2> QED
    BY <2>2, <2>3, <2>4, <2>5, <2>6, KeepRelays
<1>7. CASE ReadOther
  <2>1. /\ pc = "drain" /\ channel # <<>> /\ pc' = "drain" /\ sent[Head(channel)] = "other"
        /\ channel' = Tail(channel) /\ UNCHANGED <<sent, events, answer, thinking>>
    BY <1>7 DEF ReadOther, relayVars
  <2>2. sent[n + 1] = "other" /\ n + 1 \in 1..Len(sent) /\ Read' = n + 1 /\ n + 1 \in Nat
    BY <1>5, <2>1
  <2>3. Kept("token", answer, n + 1) /\ Kept("thinking", thinking, n + 1)
    <3>1. sent[n + 1] # "token" /\ sent[n + 1] # "thinking"
      BY <2>2
    <3> QED
      BY <1>0, <1>5, <2>1, <2>2, <3>1, ReadKeeps
  <2>4. Keep(answer, thinking, FALSE)
    BY <2>1 DEF Keep
  <2> QED
    BY <1>0, <2>1, <2>2, <2>3, <2>4, KeepRelays
<1>8. CASE ReadEnd
  <2>1. PICK terminal : terminal = sent[Head(channel)]
    OBVIOUS
  <2>2. pc = "drain" /\ channel # <<>> /\ terminal \in EndTypes /\ Finish(terminal)
    BY <1>8, <2>1 DEF ReadEnd
  <2>3. sent[n + 1] = terminal /\ n + 1 \in 1..Len(sent)
    BY <1>5, <2>1, <2>2
  <2>4. n + 1 = Len(sent)
    BY <2>2, <2>3 DEF Channelled
  <2> QED
    BY <1>n, <2>2, <2>3, <2>4, FinishRelays
<1>9. CASE DeadlineExceeded \/ RelayFails
  <2>1. pc = "drain" /\ Finish("error") /\ "error" \in EndTypes /\ "error" # "done"
    BY <1>9 DEF DeadlineExceeded, RelayFails, EndTypes
  <2> QED
    BY <2>1, FinishRelays
<1>10. CASE UNCHANGED vars
  BY <1>10, QuietRelayed DEF vars, relayVars
<1>11. ~Reconnect
  BY DEF Reconnect
<1> QED
  BY <1>1, <1>2, <1>3, <1>4, <1>6, <1>7, <1>8, <1>9, <1>10, <1>11 DEF Next, Relay

LEMMA StepText == RelayInv /\ RelayInv' /\ TextInv /\ [Next]_vars => TextInv'
<1> SUFFICES ASSUME RelayInv, RelayInv', TextInv, [Next]_vars, "reconnect" \notin faults'
             PROVE  Channelled' /\ Relayed'
  BY DEF TextInv
<1>1. faults' = faults
  BY DEF Next, vars, Subscribe, Publish, PublishFails, Published, AgentTakes, AgentSends, AgentDies,
         Reconnect, DeadlinePasses, Relay, RelayStarts, ReadNothing, ReadText, ReadOther, ReadEnd,
         DeadlineExceeded, RelayFails, Finish
<1>2. Channelled /\ Relayed
  BY <1>1 DEF TextInv
<1> QED
  BY <1>1, <1>2, StepChannelled, StepRelayed

LEMMA AlwaysText == Spec => []TextInv
BY AlwaysInv, InitText, StepText, PTL DEF Spec

\* As long as the connection to Redis lasts, the events show the text in
\* order with nothing twice and nothing skipped, and generation_done comes
\* when the agent said so and all of its text was shown.
THEOREM TextAlwaysWhole == Spec => []TextIsWhole
<1>1. RelayInv /\ TextInv => TextIsWhole
  <2> SUFFICES ASSUME RelayInv, TextInv
               PROVE  TextIsWhole
    OBVIOUS
  <2>1. TextInOrder
    BY DEF TextInOrder, TextInv, Relayed, NoGap
  <2>2. ASSUME "done" \in ToSet(Kinds), "reconnect" \notin faults
        PROVE  Last(sent) = "done" /\ \A kind \in TextTypes : Shown(kind) = SentOf(kind)
    <3>1. Len(events) \in Nat /\ \A i \in 1..Len(events) : Kinds[i] = events[i].kind
      BY DEF RelayInv, Typed, Kinds
    <3>2. Len(Kinds) = Len(events)
      BY <3>1 DEF Kinds
    <3>3. PICK i \in 1..Len(events) : events[i].kind = "done"
      BY <2>2, <3>1, <3>2 DEF ToSet
    <3>4. sent[Len(sent)] = "done" /\ \A kind \in TextTypes : SentOf(kind) \subseteq Shown(kind)
      BY <2>2, <3>3 DEF TextInv, Relayed
    <3> QED
      BY <2>2, <3>4 DEF TextInv, Relayed, NoGap, Last
  <2> QED
    BY <2>1, <2>2 DEF TextIsWhole, DoneIsComplete
<1> QED
  BY <1>1, AlwaysInv, AlwaysText, PTL
=============================================================================
