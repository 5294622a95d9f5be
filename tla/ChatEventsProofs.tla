-------------------------- MODULE ChatEventsProofs --------------------------
(* Proofs about ChatEvents, for any number of messages and clients and     *)
(* every queue size.                                                       *)
EXTENDS ChatEvents, FiniteSetTheorems, TLAPS

-----------------------------------------------------------------------------
(* Queues.                                                                 *)

LEMMA ToSetAppend ==
  ASSUME NEW S, NEW s \in Seq(S), NEW e \in S
  PROVE  ToSet(Append(s, e)) = ToSet(s) \cup {e}
<1>1. /\ Append(s, e) \in Seq(S) /\ Len(Append(s, e)) = Len(s) + 1
      /\ \A i \in 1..Len(s) : Append(s, e)[i] = s[i]
      /\ Append(s, e)[Len(s) + 1] = e
  OBVIOUS
<1>2. Len(s) \in Nat /\ DOMAIN s = 1..Len(s) /\ DOMAIN Append(s, e) = 1..(Len(s) + 1)
  OBVIOUS
<1> QED
  BY <1>1, <1>2 DEF ToSet

LEMMA ToSetHeadTail ==
  ASSUME NEW S, NEW s \in Seq(S), s # <<>>
  PROVE  ToSet(s) \subseteq {Head(s)} \cup ToSet(Tail(s))
<1>1. /\ Len(s) \in Nat \ {0} /\ DOMAIN s = 1..Len(s)
      /\ Tail(s) \in Seq(S) /\ DOMAIN Tail(s) = 1..(Len(s) - 1)
      /\ Head(s) = s[1]
      /\ \A i \in 1..(Len(s) - 1) : Tail(s)[i] = s[i + 1]
  OBVIOUS
<1>2. ASSUME NEW i \in 1..Len(s)
      PROVE  s[i] \in {Head(s)} \cup ToSet(Tail(s))
  <2>1. CASE i = 1
    BY <1>1, <2>1
  <2>2. CASE i # 1
    <3>1. i - 1 \in 1..(Len(s) - 1) /\ (i - 1) + 1 = i
      BY <1>1, <2>2
    <3>2. s[i] = Tail(s)[i - 1] /\ i - 1 \in DOMAIN Tail(s)
      BY <1>1, <3>1
    <3> QED
      BY <3>2 DEF ToSet
  <2> QED
    BY <2>1, <2>2
<1> QED
  BY <1>1, <1>2 DEF ToSet

(* The latest message.                                                     *)

\* A finite set of numbers has a maximum: by descent along its strict subsets.
LEMMA MaxInSet ==
  ASSUME NEW S \in SUBSET Nat, IsFiniteSet(S), S # {}
  PROVE  Max(S) \in S
<1> DEFINE HasMax(A) == \E x \in A : \A y \in A : x >= y
           Bad == {A \in SUBSET S : A # {} /\ ~HasMax(A)}
<1>1. ASSUME Bad # {}
      PROVE  FALSE
  <2>1. /\ IsWellFoundedOn(StrictSubsetOrdering(S), FiniteSubsetsOf(S))
        /\ FiniteSubsetsOf(S) = SUBSET S
    BY FS_StrictSubsetOrderingWellFounded, FS_FiniteSubsetsOfFinite, Zenon
  <2>2. IsWellFoundedOn(StrictSubsetOrdering(S), SUBSET S)
    BY <2>1, Zenon
  <2>3. Bad \subseteq SUBSET S
    OBVIOUS
  <2> HIDE DEF Bad
  <2>4. PICK A \in Bad : \A B \in Bad : ~(<<B, A>> \in StrictSubsetOrdering(S))
    BY <1>1, <2>2, <2>3, WFMin, Zenon
  <2> USE DEF Bad
  <2>5. PICK a \in A : a \in Nat
    OBVIOUS
  <2>6. A \ {a} \notin Bad
    BY <2>4, <2>5 DEF StrictSubsetOrdering
  <2>7. CASE A \ {a} = {}
    <3>1. \A y \in A : a >= y
      BY <2>5, <2>7
    <3> QED
      BY <2>5, <3>1
  <2>8. CASE A \ {a} # {}
    <3>1. PICK x \in A \ {a} : \A y \in A \ {a} : x >= y
      BY <2>6, <2>8
    <3>2. x \in Nat /\ A \subseteq Nat
      OBVIOUS
    <3>3. CASE x >= a
      BY <3>1, <3>2, <3>3
    <3>4. CASE ~(x >= a)
      <4>1. \A y \in A : a >= y
        BY <2>5, <3>1, <3>2, <3>4
      <4> QED
        BY <2>5, <4>1
    <3> QED
      BY <3>3, <3>4
  <2> QED
    BY <2>7, <2>8
<1>2. HasMax(S)
  BY <1>1
<1> QED
  BY <1>2 DEF Max

\* The latest of the rows is one of them.
LEMMA LatestIsARow ==
  ASSUME NEW R \in SUBSET Messages, R # {}
  PROVE  Max(R) \in R /\ Max(R) \in Messages /\ Max(R) # Other
<1>1. R \in SUBSET Nat /\ IsFiniteSet(R)
  BY MessagesAssumption, FS_Subset
<1>2. Max(R) \in R
  BY <1>1, MaxInSet
<1> QED
  BY <1>2, MessagesAssumption

-----------------------------------------------------------------------------
(* Publishing.                                                             *)

\* A publish appends the event to the queues of all listeners but the full
\* ones, which it marks.
LEMMA PublishReaches ==
  ASSUME TypeOK, NEW event \in Messages \cup {Other}, Publish(event)
  PROVE  /\ queue' \in [Clients -> Seq(Messages \cup {Other})]
         /\ \A c \in Clients : Len(queue'[c]) <= MaxQueue
         /\ overflowed' \in SUBSET Clients
         /\ overflowed \subseteq overflowed'
         /\ \A c \in Clients : ToSet(queue[c]) \subseteq ToSet(queue'[c])
         /\ \A c \in Listeners \ overflowed' : event \in ToSet(queue'[c])
<1> DEFINE full == {c \in Listeners : Full(c)}
<1>1. /\ queue' = [c \in Clients |-> IF c \in Listeners \ full
                                     THEN Append(queue[c], event) ELSE queue[c]]
      /\ overflowed' = overflowed \cup full
  BY DEF Publish
<1>2. ASSUME NEW c \in Clients
      PROVE  /\ queue'[c] \in Seq(Messages \cup {Other})
             /\ Len(queue'[c]) <= MaxQueue
             /\ ToSet(queue[c]) \subseteq ToSet(queue'[c])
             /\ c \in Listeners \ full => event \in ToSet(queue'[c])
  <2>1. queue[c] \in Seq(Messages \cup {Other}) /\ Len(queue[c]) <= MaxQueue
    BY DEF TypeOK
  <2>2. CASE c \in Listeners \ full
    <3>1. queue'[c] = Append(queue[c], event) /\ Len(queue[c]) < MaxQueue
      BY <1>1, <2>1, <2>2, QueueAssumption DEF Full
    <3> QED
      BY <2>1, <3>1, ToSetAppend, QueueAssumption
  <2>3. CASE c \notin Listeners \ full
    BY <1>1, <2>1, <2>3
  <2> QED
    BY <2>2, <2>3
<1> QED
  BY <1>1, <1>2 DEF TypeOK, Listeners

-----------------------------------------------------------------------------
(* The type invariant.                                                     *)

LEMMA InitType == Init => TypeOK
BY QueueAssumption DEF Init, TypeOK

LEMMA StepType == TypeOK /\ [Next]_vars => TypeOK'
<1> SUFFICES ASSUME TypeOK, [Next]_vars
             PROVE  TypeOK'
    OBVIOUS
<1> USE DEF clientVars
<1>1. ASSUME NEW m \in Messages, Commit(m)
      PROVE  TypeOK'
  BY <1>1 DEF Commit, TypeOK
<1>2. ASSUME NEW m \in Messages, PublishMessage(m)
      PROVE  TypeOK'
  BY <1>2, PublishReaches DEF PublishMessage, TypeOK
<1>3. CASE PublishOther
  BY <1>3, PublishReaches DEF PublishOther, TypeOK
<1>4. ASSUME NEW c \in Clients, OpenStream(c)
      PROVE  TypeOK'
  <2>1. (IF rows = {} THEN {} ELSE {Max(rows)}) \in SUBSET Messages
    BY LatestIsARow DEF TypeOK
  <2> QED
    BY <1>4, <2>1 DEF OpenStream, TypeOK
<1>5. ASSUME NEW c \in Clients, StreamStarts(c)
      PROVE  TypeOK'
  BY <1>5 DEF StreamStarts, TypeOK
<1>6. ASSUME NEW c \in Clients, StreamGoesOn(c)
      PROVE  TypeOK'
  <2>1. /\ queue[c] \in Seq(Messages \cup {Other}) /\ queue[c] # <<>>
        /\ Len(queue[c]) <= MaxQueue
    BY <1>6 DEF TypeOK, StreamGoesOn
  <2>2. Tail(queue[c]) \in Seq(Messages \cup {Other}) /\ Len(Tail(queue[c])) <= MaxQueue
    BY <2>1, QueueAssumption
  <2> QED
    BY <1>6, <2>2 DEF StreamGoesOn, TypeOK
<1>7. ASSUME NEW c \in Clients, Disconnect(c)
      PROVE  TypeOK'
  BY <1>7, QueueAssumption DEF Disconnect, TypeOK
<1>8. CASE Crash
  BY <1>8, QueueAssumption DEF Crash, TypeOK
<1>9. CASE UNCHANGED vars
  BY <1>9 DEF vars, TypeOK
<1> QED
  BY <1>1, <1>2, <1>3, <1>4, <1>5, <1>6, <1>7, <1>8, <1>9 DEF Next

-----------------------------------------------------------------------------
(* Without a gap between the read and the subscription, nobody misses a    *)
(* message.                                                                *)

EventsInv == ReadIsFresh /\ NothingMissed

LEMMA InitEvents == Init => EventsInv
BY DEF Init, EventsInv, ReadIsFresh, NothingMissed, Listeners

\* What is on its way to a client stays on its way when its queue only grows.
LEMMA StillCaughtUp ==
  ASSUME NothingMissed, UNCHANGED <<rows, stream, seen, known>>,
         overflowed \subseteq overflowed',
         \A c \in Listeners \ overflowed' : OnItsWay(c) \subseteq OnItsWay(c)'
  PROVE  NothingMissed'
BY DEF NothingMissed, Listeners

LEMMA StepEvents ==
  ASSUME "gap" \notin faults, TypeOK, EventsInv, [Next]_vars
  PROVE  EventsInv'
<1> USE DEF clientVars, EventsInv
<1>1. ASSUME NEW m \in Messages, Commit(m)
      PROVE  EventsInv'
  <2>1. \A c \in Clients : stream'[c] # "read"
    BY <1>1 DEF Commit, NoGap
  <2>2. ReadIsFresh'
    BY <2>1 DEF ReadIsFresh
  <2>3. NothingMissed'
    BY <1>1 DEF Commit, NothingMissed, Listeners, OnItsWay
  <2> QED
    BY <2>2, <2>3
<1>2. ASSUME NEW m \in Messages, PublishMessage(m)
      PROVE  EventsInv'
  <2>1. ReadIsFresh'
    BY <1>2 DEF PublishMessage, ReadIsFresh
  <2>2. /\ overflowed \subseteq overflowed'
        /\ \A c \in Clients : ToSet(queue[c]) \subseteq ToSet(queue'[c])
        /\ \A c \in Listeners \ overflowed' : m \in ToSet(queue'[c])
    BY <1>2, PublishReaches DEF PublishMessage
  <2>3. \A c \in Listeners \ overflowed' : OnItsWay(c) \subseteq OnItsWay(c)'
    BY <1>2, <2>2 DEF PublishMessage, OnItsWay, Listeners
  <2> QED
    BY <1>2, <2>1, <2>2, <2>3, StillCaughtUp DEF PublishMessage
<1>3. CASE PublishOther
  <2>1. ReadIsFresh'
    BY <1>3 DEF PublishOther, ReadIsFresh
  <2>2. /\ overflowed \subseteq overflowed'
        /\ \A c \in Clients : ToSet(queue[c]) \subseteq ToSet(queue'[c])
    BY <1>3, PublishReaches DEF PublishOther
  <2>3. \A c \in Listeners \ overflowed' : OnItsWay(c) \subseteq OnItsWay(c)'
    BY <1>3, <2>2 DEF PublishOther, OnItsWay, Listeners
  <2> QED
    BY <1>3, <2>1, <2>2, <2>3, StillCaughtUp DEF PublishOther
<1>4. ASSUME NEW c \in Clients, OpenStream(c)
      PROVE  EventsInv'
  <2>1. ReadIsFresh'
    BY <1>4 DEF OpenStream, ReadIsFresh, TypeOK
  <2>2. /\ Listeners' = Listeners /\ c \notin Listeners
        /\ \A d \in Clients \ {c} : /\ seen'[d] = seen[d] /\ known'[d] = known[d]
                                   /\ d \in overflowed' <=> d \in overflowed
    BY <1>4 DEF OpenStream, Listeners, TypeOK
  <2>3. NothingMissed'
    BY <1>4, <2>2 DEF OpenStream, NothingMissed, OnItsWay, Listeners
  <2> QED
    BY <2>1, <2>3
<1>5. ASSUME NEW c \in Clients, StreamStarts(c)
      PROVE  EventsInv'
  <2>1. ReadIsFresh'
    BY <1>5 DEF StreamStarts, ReadIsFresh, TypeOK
  <2>2. known[c] = rows /\ latest[c] = IF rows = {} THEN {} ELSE {Max(rows)}
    BY <1>5 DEF StreamStarts, ReadIsFresh
  <2>3. /\ Listeners' = Listeners \cup {c}
        /\ seen'[c] = latest[c]
        /\ \A d \in Clients \ {c} : seen'[d] = seen[d]
    BY <1>5 DEF StreamStarts, Listeners, TypeOK
  <2>4. ASSUME NEW d \in Listeners' \ overflowed'
        PROVE  /\ rows \ known[d] \subseteq OnItsWay(d)'
               /\ known[d] # {} => Max(known[d]) \in OnItsWay(d)'
    <3>1. CASE d = c
      BY <2>2, <2>3, <3>1 DEF OnItsWay
    <3>2. CASE d # c
      BY <1>5, <2>3, <3>2 DEF StreamStarts, OnItsWay, NothingMissed, Listeners
    <3> QED
      BY <3>1, <3>2
  <2> QED
    BY <1>5, <2>1, <2>4 DEF StreamStarts, NothingMissed
<1>6. ASSUME NEW c \in Clients, StreamGoesOn(c)
      PROVE  EventsInv'
  <2>1. ReadIsFresh'
    BY <1>6 DEF StreamGoesOn, ReadIsFresh
  <2>2. ToSet(queue[c]) \subseteq {Head(queue[c])} \cup ToSet(Tail(queue[c]))
    BY <1>6, ToSetHeadTail DEF StreamGoesOn, TypeOK
  <2>3. /\ queue'[c] = Tail(queue[c])
        /\ seen'[c] = seen[c] \cup ({Head(queue[c])} \ {Other})
        /\ \A d \in Clients \ {c} : queue'[d] = queue[d] /\ seen'[d] = seen[d]
    BY <1>6 DEF StreamGoesOn, TypeOK
  <2>4. \A d \in Clients : OnItsWay(d) \ {Other} \subseteq OnItsWay(d)'
    BY <1>6, <2>2, <2>3 DEF StreamGoesOn, OnItsWay
  <2>5. ASSUME NEW d \in Clients
        PROVE  Other \notin rows /\ (known[d] # {} => Max(known[d]) # Other)
    BY LatestIsARow, MessagesAssumption DEF TypeOK
  <2>6. NothingMissed'
    BY <1>6, <2>4, <2>5 DEF StreamGoesOn, NothingMissed, Listeners
  <2> QED
    BY <2>1, <2>6
<1>7. ASSUME NEW c \in Clients, Disconnect(c)
      PROVE  EventsInv'
  <2>1. ReadIsFresh'
    BY <1>7 DEF Disconnect, ReadIsFresh, TypeOK
  <2>2. Listeners' = Listeners \ {c}
    BY <1>7 DEF Disconnect, Listeners, TypeOK
  <2>3. NothingMissed'
    BY <1>7, <2>2 DEF Disconnect, NothingMissed, OnItsWay, TypeOK, Listeners
  <2> QED
    BY <2>1, <2>3
<1>8. CASE Crash
  <2>1. \A c \in Clients : stream'[c] = "closed"
    BY <1>8 DEF Crash
  <2> QED
    BY <2>1 DEF ReadIsFresh, NothingMissed, Listeners
<1>9. CASE UNCHANGED vars
  <2>1. /\ ReadIsFresh'
        /\ NothingMissed'
    BY <1>9 DEF vars, ReadIsFresh, NothingMissed, Listeners, OnItsWay
  <2> QED
    BY <2>1
<1> QED
  BY <1>1, <1>2, <1>3, <1>4, <1>5, <1>6, <1>7, <1>8, <1>9 DEF Next

LEMMA FaultsAreRigid == [Next]_vars => UNCHANGED faults
BY DEF Next, vars, Commit, PublishMessage, PublishOther, OpenStream, StreamStarts,
       StreamGoesOn, Disconnect, Crash

-----------------------------------------------------------------------------
\* The chat's queues, streams and rows keep their types and no queue grows
\* over its bound (ChatEventGateway, ServerEventsService).
THEOREM EventsTypeCorrect == Spec => []TypeOK
<1>1. Init => TypeOK
  BY InitType
<1>2. TypeOK /\ [Next]_vars => TypeOK'
  BY StepType
<1> QED
  BY <1>1, <1>2, PTL DEF Spec

\* If nothing is committed or published between the read of the latest
\* message and the subscription (open_stream, _stream), a client whose queue
\* was never full misses no message, whatever the other clients do.
THEOREM NobodyMissesAMessage == Spec => []CaughtUp
<1> DEFINE Inv == "gap" \notin faults => EventsInv
<1>1. Init => Inv
  BY InitEvents
<1>2. TypeOK /\ Inv /\ [Next]_vars => Inv'
  BY StepEvents, FaultsAreRigid
<1>3. Inv => CaughtUp
  BY DEF EventsInv, CaughtUp
<1> QED
  BY <1>1, <1>2, <1>3, EventsTypeCorrect, PTL DEF Spec
=============================================================================
