---------------------------- MODULE LibraryProofs ----------------------------
(* Proofs about Library, for any number of users, scenes, characters, chats *)
(* and requests that overlap.                                              *)
EXTENDS Library, FiniteSetTheorems, TLAPS

-----------------------------------------------------------------------------
(* The invariant: what a request's checks still say when it writes.        *)

ChatOps == {"rename", "settings", "send", "persona", "choose"}
OwnerOps == {"delete", "update", "append", "deleteInitial"}

\* What a request carries.
ArgsOK(q) ==
  /\ q.op \in {"start", "deleteChat"} \cup ChatOps => q.chat \in Chats
  /\ q.op \notin {"start", "deleteChat"} \cup ChatOps => q.chat = None
  /\ q.op \in OwnerOps \cup Marks => q.thing \in Things
  /\ q.op \in {"start", "attach"} => q.thing \in Scenes
  /\ q.op = "start" => q.arg \in Characters \cup {None}
  /\ q.op = "attach" => q.arg \in SUBSET Characters
  /\ q.op = "update" => q.arg \in Body
  /\ q.op \in {"append", "persona"} => q.thing \in Characters
  /\ q.op \in {"choose", "deleteInitial"} => q.arg \in Initials
  /\ q.op = "deleteInitial" => q.thing = SceneOf[q.arg]

\* The chat was there, and writable; only a delete can have changed that.
ChatChecked(q) ==
  q.op \in ChatOps =>
    /\ chats[q.chat] # Unborn
    /\ HasChat(q.chat) /\ ~Writable(q.chat) => q.met \cap {"delete", "deleteUser"} # {}

\* The chosen text is of the chat's scene, or of one that is gone.
ChoiceChecked(q) ==
  q.op = "choose" /\ HasChat(q.chat) =>
    chats[q.chat].scene = SceneOf[q.arg] \/ owner[SceneOf[q.arg]] = Gone

SendChecked(q) == q.op = "send" /\ HasChat(q.chat) => chats[q.chat].greeted > 0

\* The thing was the user's; only an update can have given it to another.  A
\* chat stays its user's.
OwnerChecked(q) ==
  /\ q.op \in OwnerOps =>
       /\ owner[q.thing] # Unborn
       /\ Exists(q.thing) => owner[q.thing] = q.user \/ "update" \in q.met
  /\ q.op = "deleteChat" =>
       /\ chats[q.chat] # Unborn
       /\ HasChat(q.chat) => chats[q.chat].user = q.user

\* The text was in no chat and not the last one of its scene.
TextChecked(q) ==
  q.op = "deleteInitial" =>
    /\ ChatsOn(q.arg) = {} \/ "choose" \in q.met
    /\ q.arg \in initials =>
         (\E m \in initials : m # q.arg /\ SceneOf[m] = q.thing) \/ "deleteInitial" \in q.met

Checked(q) ==
  ChatChecked(q) /\ ChoiceChecked(q) /\ SendChecked(q) /\ OwnerChecked(q) /\ TextChecked(q)

\* Every request in its slot.
RequestsOK ==
  \A r \in Requests : req[r] # None => req[r] \in RequestRow /\ ArgsOK(req[r]) /\ Checked(req[r])

\* A chat with an opening message has been greeted, and one that was told.
Opened ==
  \A c \in Chats :
    HasChat(c) /\ (chats[c].initial # None \/ chats[c].told) => chats[c].greeted > 0

Typed == TypeOK /\ req \in [Requests -> RequestRow \cup {None}]

LibraryInv == Typed /\ RequestsOK /\ NothingDangles /\ GreetingOfItsScene /\ Opened

-----------------------------------------------------------------------------
(* Requests.                                                               *)

\* A request by its fields.
LEMMA RequestFields ==
  ASSUME NEW q \in RequestRow
  PROVE  /\ q.op \in Operations /\ q.user \in Users /\ q.met \in SUBSET Overtaking
         /\ q.thing \in Things \cup {None} /\ q.chat \in Chats \cup {None}
         /\ q # None
BY RowsAssumption DEF RequestRow

\* A commit ends its own request; the others remember it.
LEMMA CommitReq ==
  ASSUME Typed, NEW r \in Requests, NEW op, Commit(r, op)
  PROVE  /\ req' \in [Requests -> RequestRow \cup {None}] /\ req'[r] = None
         /\ \A q \in Requests :
              /\ req'[q] # None => q # r /\ req[q] # None
              /\ req[q] # None /\ req'[q] = None => q = r
              /\ req'[q] # None =>
                   /\ req'[q].op = req[q].op /\ req'[q].user = req[q].user
                   /\ req'[q].thing = req[q].thing /\ req'[q].chat = req[q].chat
                   /\ req'[q].arg = req[q].arg
                   /\ req'[q].met = req[q].met \cup ({op} \cap Overtaking)
<1>1. req' = [q \in Requests |->
                IF q = r \/ req[q] = None THEN None
                ELSE [req[q] EXCEPT !.met = @ \cup ({op} \cap Overtaking)]]
  BY DEF Commit
<1>2. ASSUME NEW q \in Requests, q # r, req[q] # None
      PROVE  /\ req'[q] \in RequestRow
             /\ req'[q].op = req[q].op /\ req'[q].user = req[q].user
             /\ req'[q].thing = req[q].thing /\ req'[q].chat = req[q].chat
             /\ req'[q].arg = req[q].arg
             /\ req'[q].met = req[q].met \cup ({op} \cap Overtaking)
  <2>1. req[q] \in RequestRow
    BY <1>2 DEF Typed
  <2>2. req'[q] = [req[q] EXCEPT !.met = @ \cup ({op} \cap Overtaking)]
    BY <1>1, <1>2
  <2> QED
    BY <2>1, <2>2 DEF RequestRow
<1>3. \A q \in Requests : q = r \/ req[q] = None => req'[q] = None
  BY <1>1
<1>4. \A q \in Requests : q # r /\ req[q] # None => req'[q] # None
  BY <1>2, RequestFields
<1>5. req' \in [Requests -> RequestRow \cup {None}]
  <2>1. \A q \in Requests : req'[q] \in RequestRow \cup {None}
    BY <1>2, <1>3
  <2> QED
    BY <1>1, <2>1
<1> QED
  BY <1>2, <1>3, <1>4, <1>5

(* What a write, op, may do to what other requests have checked.           *)
Moves(op) ==
  /\ \A t \in Things : owner[t] # Unborn =>
       /\ owner'[t] # Unborn
       /\ owner[t] = Gone => owner'[t] = Gone
       /\ Exists(t)' => Exists(t) /\ (owner'[t] = owner[t] \/ op = "update")
  /\ \A c \in Chats : chats[c] # Unborn => chats'[c] # Unborn
  /\ \A c \in Chats : chats[c] # Unborn /\ HasChat(c)' =>
       /\ HasChat(c) /\ chats'[c].user = chats[c].user
       /\ chats'[c].greeted >= chats[c].greeted
       /\ \/ chats'[c].scene = chats[c].scene
          \/ /\ chats'[c].scene = None /\ op \in {"delete", "deleteUser"}
             /\ chats[c].scene # None => owner'[chats[c].scene] = Gone
  /\ \A c \in Chats : HasChat(c)' /\ chats'[c].initial # None =>
       HasChat(c) /\ (chats'[c].initial = chats[c].initial \/ op = "choose")
  /\ \A m \in initials' : owner[SceneOf[m]] # Unborn =>
       /\ m \in initials
       /\ \A o \in initials : SceneOf[o] = SceneOf[m] => o \in initials' \/ op = "deleteInitial"

\* What was checked stays so, or met tells why not.
LEMMA StaysChecked ==
  ASSUME LibraryInv, NEW r \in Requests, NEW op, Commit(r, op), Moves(op),
         TypeOK'
  PROVE  Typed' /\ RequestsOK'
<1>1. Typed'
  BY CommitReq DEF LibraryInv, Typed
<1>2. ASSUME NEW q \in Requests, req'[q] # None
      PROVE  req'[q] \in RequestRow /\ ArgsOK(req'[q]) /\ Checked(req[q])'
  <2>0. PICK p, n : p = req[q] /\ n = req'[q]
    OBVIOUS
  <2>1. /\ p # None /\ q # r /\ p \in RequestRow /\ n \in RequestRow
        /\ n.op = p.op /\ n.user = p.user /\ n.thing = p.thing /\ n.chat = p.chat /\ n.arg = p.arg
        /\ n.met = p.met \cup ({op} \cap Overtaking)
    BY <1>1, <1>2, <2>0, CommitReq DEF LibraryInv, Typed
  <2>2. ArgsOK(p) /\ Checked(p)
    BY <2>0, <2>1 DEF LibraryInv, RequestsOK
  <2>3. ArgsOK(n)
    BY <2>1, <2>2 DEF ArgsOK
  <2>4. /\ p.op \in ChatOps => p.chat \in Chats
        /\ p.op = "deleteChat" => p.chat \in Chats
        /\ p.op \in OwnerOps => p.thing \in Things
        /\ p.op \in {"choose", "deleteInitial"} => p.arg \in Initials
        /\ p.op = "deleteInitial" => p.thing = SceneOf[p.arg]
    BY <2>2 DEF ArgsOK
  <2>5. ASSUME n.op \in ChatOps
        PROVE  /\ chats'[n.chat] # Unborn
               /\ HasChat(n.chat)' /\ ~Writable(n.chat)' => n.met \cap {"delete", "deleteUser"} # {}
    <3>1. p.op \in ChatOps /\ p.chat \in Chats /\ chats[p.chat] # Unborn
      BY <2>1, <2>2, <2>4, <2>5 DEF Checked, ChatChecked
    <3>2. chats'[p.chat] # Unborn
      BY <3>1 DEF Moves
    <3>3. ASSUME HasChat(p.chat)', chats'[p.chat].scene = None
          PROVE  n.met \cap {"delete", "deleteUser"} # {}
      <4>1. \/ chats[p.chat].scene = None /\ HasChat(p.chat)
            \/ op \in {"delete", "deleteUser"}
        BY <3>1, <3>3 DEF Moves
      <4>2. CASE chats[p.chat].scene = None /\ HasChat(p.chat)
        <5>1. p.met \cap {"delete", "deleteUser"} # {}
          BY <2>2, <3>1, <4>2 DEF Checked, ChatChecked, Writable
        <5> QED
          BY <2>1, <5>1
      <4>3. CASE op \in {"delete", "deleteUser"}
        BY <2>1, <4>3 DEF Overtaking
      <4> QED
        BY <4>1, <4>2, <4>3
    <3> QED
      BY <2>1, <3>2, <3>3 DEF Writable, HasChat
  <2>6. ASSUME n.op = "choose", HasChat(n.chat)'
        PROVE  chats'[n.chat].scene = SceneOf[n.arg] \/ owner'[SceneOf[n.arg]] = Gone
    <3>1. /\ p.op = "choose" /\ p.chat \in Chats /\ chats[p.chat] # Unborn
          /\ HasChat(p.chat)' /\ SceneOf[p.arg] \in Scenes
      BY <2>1, <2>2, <2>4, <2>6, SceneOfAssumption DEF Checked, ChatChecked, ChatOps, HasChat
    <3>2. /\ HasChat(p.chat)
          /\ \/ chats'[p.chat].scene = chats[p.chat].scene
             \/ chats[p.chat].scene # None => owner'[chats[p.chat].scene] = Gone
      BY <3>1 DEF Moves
    <3>3. chats[p.chat].scene = SceneOf[p.arg] \/ owner[SceneOf[p.arg]] = Gone
      BY <2>2, <3>1, <3>2 DEF Checked, ChoiceChecked
    <3>4. owner[SceneOf[p.arg]] = Gone => owner'[SceneOf[p.arg]] = Gone
      BY <3>1, AbsentAssumption DEF Moves, Things
    <3>5. SceneOf[p.arg] # None
      BY <3>1, NobodyAssumption DEF Things
    <3> QED
      BY <2>1, <3>2, <3>3, <3>4, <3>5
  <2>7. ASSUME n.op = "send", HasChat(n.chat)'
        PROVE  chats'[n.chat].greeted > 0
    <3>1. /\ p.op = "send" /\ p.chat \in Chats /\ chats[p.chat] # Unborn
          /\ HasChat(p.chat)'
      BY <2>1, <2>2, <2>4, <2>7 DEF Checked, ChatChecked, ChatOps, HasChat
    <3>2. HasChat(p.chat) /\ chats'[p.chat].greeted >= chats[p.chat].greeted
      BY <3>1 DEF Moves
    <3>3. chats[p.chat].greeted > 0
      BY <2>2, <3>1, <3>2 DEF Checked, SendChecked
    <3>4. chats[p.chat].greeted \in Nat /\ chats'[p.chat].greeted \in Nat
      BY <3>1, <3>2 DEF LibraryInv, Typed, TypeOK, ChatRow, HasChat
    <3> QED
      BY <2>1, <3>2, <3>3, <3>4
  <2>8. ASSUME n.op \in OwnerOps
        PROVE  /\ owner'[n.thing] # Unborn
               /\ Exists(n.thing)' => owner'[n.thing] = n.user \/ "update" \in n.met
    <3>1. /\ p.op \in OwnerOps /\ p.thing \in Things /\ owner[p.thing] # Unborn
          /\ Exists(p.thing) => owner[p.thing] = p.user \/ "update" \in p.met
      BY <2>1, <2>2, <2>4, <2>8 DEF Checked, OwnerChecked
    <3>2. /\ owner'[p.thing] # Unborn
          /\ Exists(p.thing)' => Exists(p.thing) /\ (owner'[p.thing] = owner[p.thing] \/ op = "update")
      BY <3>1 DEF Moves
    <3>3. op = "update" => "update" \in n.met
      BY <2>1 DEF Overtaking
    <3> QED
      BY <2>1, <3>1, <3>2, <3>3 DEF Exists
  <2>9. ASSUME n.op = "deleteInitial"
        PROVE  ChatsOn(n.arg)' = {} \/ "choose" \in n.met
    <3>1. p.op = "deleteInitial" /\ p.arg \in Initials
      BY <2>1, <2>4, <2>9
    <3>2. ChatsOn(p.arg) = {} \/ "choose" \in p.met
      BY <2>2, <3>1 DEF Checked, TextChecked
    <3>3. op = "choose" => "choose" \in n.met
      BY <2>1 DEF Overtaking
    <3>4. ASSUME ChatsOn(p.arg) = {}, op # "choose"
          PROVE  ChatsOn(p.arg)' = {}
      <4>1. ASSUME NEW c \in Chats, HasChat(c)', chats'[c].initial = p.arg
            PROVE  FALSE
        <5>1. p.arg # None
          BY <3>1, NobodyAssumption
        <5>2. HasChat(c) /\ chats[c].initial = p.arg
          BY <3>4, <4>1, <5>1 DEF Moves
        <5> QED
          BY <3>4, <5>2 DEF ChatsOn
      <4> QED
        BY <4>1 DEF ChatsOn, HasChat
    <3> QED
      BY <2>1, <3>2, <3>3, <3>4 DEF ChatsOn
  <2>10. ASSUME n.op = "deleteInitial", n.arg \in initials'
         PROVE  \/ \E m \in initials' : m # n.arg /\ SceneOf[m] = n.thing
                \/ "deleteInitial" \in n.met
    <3>1. /\ p.op = "deleteInitial" /\ p.arg \in Initials /\ p.thing = SceneOf[p.arg]
          /\ p.arg \in initials'
      BY <2>1, <2>4, <2>10
    <3>2. owner[SceneOf[p.arg]] # Unborn
      BY <2>2, <3>1 DEF Checked, OwnerChecked, OwnerOps
    <3>3. /\ p.arg \in initials
          /\ \A o \in initials : SceneOf[o] = SceneOf[p.arg] => o \in initials' \/ op = "deleteInitial"
      BY <3>1, <3>2 DEF Moves
    <3>4. (\E m \in initials : m # p.arg /\ SceneOf[m] = p.thing) \/ "deleteInitial" \in p.met
      BY <2>2, <3>1, <3>3 DEF Checked, TextChecked
    <3>5. op = "deleteInitial" => "deleteInitial" \in n.met
      BY <2>1 DEF Overtaking
    <3> QED
      BY <2>1, <3>1, <3>3, <3>4, <3>5
  <2>12. ASSUME n.op = "deleteChat"
         PROVE  /\ chats'[n.chat] # Unborn
                /\ HasChat(n.chat)' => chats'[n.chat].user = n.user
    <3>1. p.chat \in Chats /\ chats[p.chat] # Unborn /\ (HasChat(p.chat) => chats[p.chat].user = p.user)
      BY <2>1, <2>2, <2>4, <2>12 DEF Checked, OwnerChecked
    <3>2. /\ chats'[p.chat] # Unborn
          /\ HasChat(p.chat)' => HasChat(p.chat) /\ chats'[p.chat].user = chats[p.chat].user
      BY <3>1 DEF Moves
    <3> QED
      BY <2>1, <3>1, <3>2 DEF HasChat
  <2>11. Checked(req[q])'
    BY <2>0, <2>5, <2>6, <2>7, <2>8, <2>9, <2>10, <2>12
    DEF Checked, ChatChecked, ChoiceChecked, SendChecked, OwnerChecked, TextChecked,
        HasChat, Writable, Exists, ChatsOn
  <2> QED
    BY <2>0, <2>1, <2>3, <2>11
<1> QED
  BY <1>1, <1>2 DEF RequestsOK

\* A request that only reads changes nothing that was checked.
LEMMA AskKeeps ==
  ASSUME LibraryInv, NEW r \in Requests, NEW op, NEW u, NEW thing, NEW chat, NEW arg,
         Ask(r, op, u, thing, chat, arg),
         NEW row, row = [op |-> op, user |-> u, thing |-> thing, chat |-> chat, arg |-> arg, met |-> {}],
         row \in RequestRow, ArgsOK(row), Checked(row)
  PROVE  LibraryInv'
<1>1. req' = [req EXCEPT ![r] = row] /\ UNCHANGED <<library, chats, scenario>>
  BY DEF Ask
<1>2. /\ req' \in [Requests -> RequestRow \cup {None}]
      /\ \A q \in Requests : req'[q] = (IF q = r THEN row ELSE req[q])
  BY <1>1 DEF LibraryInv, Typed
<1>3. ASSUME NEW q \in Requests, req'[q] # None
      PROVE  req'[q] \in RequestRow /\ ArgsOK(req'[q]) /\ Checked(req[q])'
  <2>1. PICK n : n = req'[q]
    OBVIOUS
  <2>2. n \in RequestRow /\ ArgsOK(n) /\ Checked(n)
    BY <1>2, <1>3, <2>1 DEF LibraryInv, RequestsOK
  <2>3. Checked(req[q])'
    BY <1>1, <2>1, <2>2
    DEF Checked, ChatChecked, ChoiceChecked, SendChecked, OwnerChecked, TextChecked,
        HasChat, Writable, Exists, ChatsOn, library
  <2> QED
    BY <2>1, <2>2, <2>3
<1>4. RequestsOK'
  BY <1>3 DEF RequestsOK
<1>5. TypeOK' /\ NothingDangles' /\ GreetingOfItsScene' /\ Opened'
  BY <1>1 DEF LibraryInv, Typed, TypeOK, NothingDangles, GreetingOfItsScene, Opened, library,
              Exists, HasChat
<1> QED
  BY <1>2, <1>4, <1>5 DEF LibraryInv, Typed

\* A text that is not the only one of its scene leaves another behind.
LEMMA AnotherText ==
  ASSUME NEW m \in initials, Deletable(m)
  PROVE  \E o \in initials : o # m /\ SceneOf[o] = SceneOf[m]
<1>1. SUFFICES ASSUME \A o \in initials : o # m => SceneOf[o] # SceneOf[m]
               PROVE  FALSE
  OBVIOUS
<1>2. InitialsOf(SceneOf[m]) = {m}
  BY <1>1 DEF InitialsOf
<1>3. Cardinality({m}) = 1
  BY FS_Singleton
<1> QED
  BY <1>2, <1>3 DEF Deletable

\* The requests about scenes and characters.
LEMMA ThingAsks ==
  ASSUME LibraryInv, NEW r \in Requests, NEW u \in Users, NEW t \in Things, ThingRequest(r, u, t)
  PROVE  LibraryInv'
<1>1. CASE AskDelete(r, u, t)
  <2> DEFINE row == [op |-> "delete", user |-> u, thing |-> t, chat |-> None, arg |-> None, met |-> {}]
  <2>1. row \in RequestRow /\ ArgsOK(row)
    BY DEF RequestRow, ArgsOK, ChatOps, OwnerOps, Operations, Overtaking, Marks
  <2>2. Checked(row)
    BY <1>1, NobodyAssumption
    DEF AskDelete, Owned, Exists, Checked, ChatChecked, ChoiceChecked, SendChecked, OwnerChecked,
        TextChecked, ChatOps
  <2> QED
    BY <1>1, <2>1, <2>2, AskKeeps DEF AskDelete
<1>2. ASSUME NEW body \in Bodies(t), AskUpdate(r, u, t, body)
      PROVE  LibraryInv'
  <2> DEFINE row == [op |-> "update", user |-> u, thing |-> t, chat |-> None, arg |-> body, met |-> {}]
  <2>1. body \in Body
    BY DEF Bodies, Body, LibraryInv, Typed, TypeOK
  <2>2. row \in RequestRow /\ ArgsOK(row)
    BY <2>1 DEF RequestRow, ArgsOK, ChatOps, OwnerOps, Operations, Overtaking, Marks
  <2>3. Checked(row)
    BY <1>2, NobodyAssumption
    DEF AskUpdate, Owned, Exists, Checked, ChatChecked, ChoiceChecked, SendChecked, OwnerChecked,
        TextChecked, ChatOps
  <2> QED
    BY <1>2, <2>2, <2>3, AskKeeps DEF AskUpdate
<1>3. ASSUME NEW mark \in Marks, AskMark(r, u, t, mark)
      PROVE  LibraryInv'
  <2> DEFINE row == [op |-> mark, user |-> u, thing |-> t, chat |-> None, arg |-> None, met |-> {}]
  <2>1. row \in RequestRow /\ ArgsOK(row)
    BY DEF RequestRow, ArgsOK, ChatOps, OwnerOps, Operations, Overtaking, Marks
  <2>2. Checked(row)
    BY DEF Marks, Checked, ChatChecked, ChoiceChecked, SendChecked, OwnerChecked,
           TextChecked, ChatOps, OwnerOps
  <2> QED
    BY <1>3, <2>1, <2>2, AskKeeps DEF AskMark
<1> QED
  BY <1>1, <1>2, <1>3 DEF ThingRequest

LEMMA OtherThingAsks ==
  ASSUME LibraryInv, NEW r \in Requests, NEW u \in Users
  PROVE  /\ \A s \in Scenes, cs \in SUBSET Characters : AskAttach(r, u, s, cs) => LibraryInv'
         /\ \A m \in Initials : AskDeleteInitial(r, u, m) => LibraryInv'
         /\ \A c \in Characters : AskAppend(r, u, c) => LibraryInv'
<1>1. ASSUME NEW s \in Scenes, NEW cs \in SUBSET Characters, AskAttach(r, u, s, cs)
      PROVE  LibraryInv'
  <2> DEFINE row == [op |-> "attach", user |-> u, thing |-> s, chat |-> None, arg |-> cs, met |-> {}]
  <2>1. row \in RequestRow /\ ArgsOK(row)
    BY DEF RequestRow, ArgsOK, ChatOps, OwnerOps, Operations, Overtaking, Marks, Things
  <2>2. Checked(row)
    BY DEF Checked, ChatChecked, ChoiceChecked, SendChecked, OwnerChecked, TextChecked, ChatOps, OwnerOps
  <2> QED
    BY <1>1, <2>1, <2>2, AskKeeps DEF AskAttach
<1>2. ASSUME NEW m \in Initials, AskDeleteInitial(r, u, m)
      PROVE  LibraryInv'
  <2> DEFINE row == [op |-> "deleteInitial", user |-> u, thing |-> SceneOf[m], chat |-> None,
                     arg |-> m, met |-> {}]
  <2>1. SceneOf[m] \in Scenes
    BY SceneOfAssumption
  <2>2. row \in RequestRow /\ ArgsOK(row)
    BY <2>1 DEF RequestRow, ArgsOK, ChatOps, OwnerOps, Operations, Overtaking, Marks, Things
  <2>3. ChatsOn(m) = {} /\ \E o \in initials : o # m /\ SceneOf[o] = SceneOf[m]
    BY <1>2, AnotherText DEF AskDeleteInitial, Deletable
  <2>4. Checked(row)
    BY <1>2, <2>3, NobodyAssumption
    DEF AskDeleteInitial, Owned, Exists, Checked, ChatChecked, ChoiceChecked, SendChecked,
        OwnerChecked, TextChecked, ChatOps
  <2> QED
    BY <1>2, <2>2, <2>4, AskKeeps DEF AskDeleteInitial
<1>3. ASSUME NEW c \in Characters, AskAppend(r, u, c)
      PROVE  LibraryInv'
  <2> DEFINE row == [op |-> "append", user |-> u, thing |-> c, chat |-> None, arg |-> prompt[c], met |-> {}]
  <2>1. row \in RequestRow /\ ArgsOK(row)
    BY DEF RequestRow, ArgsOK, ChatOps, OwnerOps, Operations, Overtaking, Marks, Things, LibraryInv, Typed, TypeOK
  <2>2. Checked(row)
    BY <1>3, NobodyAssumption
    DEF AskAppend, Owned, Exists, Checked, ChatChecked, ChoiceChecked, SendChecked, OwnerChecked,
        TextChecked, ChatOps
  <2> QED
    BY <1>3, <2>1, <2>2, AskKeeps DEF AskAppend
<1> QED
  BY <1>1, <1>2, <1>3

\* The requests about chats and accounts.
LEMMA ChatAsks ==
  ASSUME LibraryInv, NEW r \in Requests, NEW u \in Users, ChatRequest(r, u)
  PROVE  LibraryInv'
<1> USE DEF Checked, ChatChecked, ChoiceChecked, SendChecked, OwnerChecked, TextChecked
<1>1. ASSUME NEW c \in Chats, NEW s \in Scenes, NEW p \in Characters \cup {None}, AskStart(r, u, c, s, p)
      PROVE  LibraryInv'
  <2> DEFINE row == [op |-> "start", user |-> u, thing |-> s, chat |-> c, arg |-> p, met |-> {}]
  <2>1. row \in RequestRow /\ ArgsOK(row)
    BY DEF RequestRow, ArgsOK, ChatOps, OwnerOps, Operations, Overtaking, Marks, Things
  <2>2. Checked(row)
    BY DEF ChatOps, OwnerOps
  <2> QED
    BY <1>1, <2>1, <2>2, AskKeeps DEF AskStart
<1>2. ASSUME NEW c \in Chats, NEW op \in {"deleteChat", "rename", "settings", "send"},
             HasChat(c) /\ chats[c].user = u, op = "deleteChat" \/ Writable(c),
             op = "send" => chats[c].greeted > 0,
             Ask(r, op, u, None, c, None)
      PROVE  LibraryInv'
  <2> DEFINE row == [op |-> op, user |-> u, thing |-> None, chat |-> c, arg |-> None, met |-> {}]
  <2>1. row \in RequestRow /\ ArgsOK(row)
    BY DEF RequestRow, ArgsOK, ChatOps, OwnerOps, Operations, Overtaking, Marks
  <2>2. Checked(row)
    BY <1>2 DEF ChatOps, OwnerOps, HasChat
  <2> QED
    BY <1>2, <2>1, <2>2, AskKeeps
<1>3. ASSUME NEW c \in Chats, AskSend(r, u, c)
      PROVE  HasChat(c) /\ Writable(c) /\ chats[c].greeted > 0
  BY <1>3 DEF AskSend, OwnedChat, LibraryInv, Opened
<1>4. ASSUME NEW c \in Chats, NEW p \in Characters, AskPersona(r, u, c, p)
      PROVE  LibraryInv'
  <2> DEFINE row == [op |-> "persona", user |-> u, thing |-> p, chat |-> c, arg |-> None, met |-> {}]
  <2>1. row \in RequestRow /\ ArgsOK(row)
    BY DEF RequestRow, ArgsOK, ChatOps, OwnerOps, Operations, Overtaking, Marks, Things
  <2>2. Checked(row)
    BY <1>4 DEF AskPersona, OwnedChat, ChatOps, OwnerOps, HasChat
  <2> QED
    BY <1>4, <2>1, <2>2, AskKeeps DEF AskPersona
<1>5. ASSUME NEW c \in Chats, NEW m \in Initials, AskChoose(r, u, c, m)
      PROVE  LibraryInv'
  <2> DEFINE row == [op |-> "choose", user |-> u, thing |-> None, chat |-> c, arg |-> m, met |-> {}]
  <2>1. row \in RequestRow /\ ArgsOK(row)
    BY DEF RequestRow, ArgsOK, ChatOps, OwnerOps, Operations, Overtaking, Marks
  <2>2. Checked(row)
    BY <1>5 DEF AskChoose, OwnedChat, ChatOps, OwnerOps, HasChat
  <2> QED
    BY <1>5, <2>1, <2>2, AskKeeps DEF AskChoose
<1>6. CASE AskDeleteUser(r, u)
  <2> DEFINE row == [op |-> "deleteUser", user |-> u, thing |-> None, chat |-> None, arg |-> None,
                     met |-> {}]
  <2>1. row \in RequestRow /\ ArgsOK(row)
    BY DEF RequestRow, ArgsOK, ChatOps, OwnerOps, Operations, Overtaking, Marks
  <2>2. Checked(row)
    BY DEF ChatOps, OwnerOps
  <2> QED
    BY <1>6, <2>1, <2>2, AskKeeps DEF AskDeleteUser
<1>7. ASSUME NEW c \in Chats,
             AskDeleteChat(r, u, c) \/ AskRename(r, u, c) \/ AskSettings(r, u, c) \/ AskSend(r, u, c)
      PROVE  LibraryInv'
  BY <1>2, <1>3, <1>7 DEF AskDeleteChat, AskRename, AskSettings, AskSend, OwnedChat
<1> QED
  BY <1>1, <1>4, <1>5, <1>6, <1>7 DEF ChatRequest

-----------------------------------------------------------------------------
(* Writes.  Kept is what every write leaves intact.                        *)

Kept(op) == TypeOK' /\ NothingDangles' /\ GreetingOfItsScene' /\ Opened' /\ Moves(op)

\* One chat is changed; its scene and its user never are.
LEMMA ChatEdit ==
  ASSUME LibraryInv, NEW c \in Chats, HasChat(c), NEW row \in ChatRow, NEW op,
         chats' = [chats EXCEPT ![c] = row], UNCHANGED library,
         row.user = chats[c].user, row.scene = chats[c].scene,
         row.greeted >= chats[c].greeted,
         row.persona = chats[c].persona \/ Exists(row.persona),
         \/ row.initial = chats[c].initial
         \/ op = "choose" /\ row.initial \in initials /\ SceneOf[row.initial] = row.scene,
         row.initial # None \/ row.told => row.greeted > 0
  PROVE  Kept(op)
<1>1. /\ chats[c] \in ChatRow /\ chats[c] # Unborn
      /\ row \notin {Unborn, Gone}
      /\ \A d \in Chats : chats'[d] = (IF d = c THEN row ELSE chats[d])
      /\ chats' \in [Chats -> ChatRow \cup {Unborn, Gone}]
  BY RowsAssumption DEF LibraryInv, Typed, TypeOK, HasChat
<1>2. /\ users' = users /\ owner' = owner /\ public' = public /\ initials' = initials
      /\ attached' = attached /\ likes' = likes /\ bookmarks' = bookmarks /\ prompt' = prompt
  BY DEF library
<1>3. TypeOK'
  BY <1>1, <1>2 DEF LibraryInv, Typed, TypeOK
<1>4. NothingDangles'
  BY <1>1, <1>2 DEF LibraryInv, NothingDangles, HasChat, Exists
<1>5. GreetingOfItsScene'
  BY <1>1, <1>2 DEF LibraryInv, GreetingOfItsScene, HasChat
<1>6. Opened'
  BY <1>1, <1>2 DEF LibraryInv, Opened, HasChat
<1>7. ASSUME NEW d \in Chats, chats[d] # Unborn
      PROVE  /\ chats'[d] # Unborn
             /\ HasChat(d)' => /\ HasChat(d) /\ chats'[d].user = chats[d].user
                               /\ chats'[d].greeted >= chats[d].greeted
                               /\ chats'[d].scene = chats[d].scene
                               /\ chats'[d].initial = chats[d].initial \/ op = "choose"
  <2>1. CASE d = c
    BY <1>1, <2>1 DEF HasChat
  <2>2. CASE d # c
    <3>1. chats'[d] = chats[d]
      BY <1>1, <2>2
    <3>2. HasChat(d) => chats[d].greeted \in Nat
      BY DEF LibraryInv, Typed, TypeOK, ChatRow, HasChat
    <3> QED
      BY <1>7, <3>1, <3>2 DEF HasChat
  <2> QED
    BY <2>1, <2>2
<1>8. \A d \in Chats : HasChat(d)' => chats[d] # Unborn
  BY <1>1 DEF HasChat
<1>9. Moves(op)
  BY <1>2, <1>7, <1>8 DEF Moves, Exists
<1> QED
  BY <1>3, <1>4, <1>5, <1>6, <1>9 DEF Kept

\* A chat is created or deleted.
LEMMA ChatNewOrGone ==
  ASSUME LibraryInv, NEW c \in Chats, NEW row \in ChatRow \cup {Gone}, NEW op,
         chats' = [chats EXCEPT ![c] = row], UNCHANGED library,
         row = Gone \/ chats[c] = Unborn,
         row # Gone => /\ row.user \in users /\ row.initial = None /\ ~row.told
                       /\ row.scene # None => Exists(row.scene)
                       /\ row.persona # None => Exists(row.persona)
  PROVE  Kept(op)
<1>1. /\ row # Unborn
      /\ \A d \in Chats : chats'[d] = (IF d = c THEN row ELSE chats[d])
      /\ chats' \in [Chats -> ChatRow \cup {Unborn, Gone}]
  BY RowsAssumption, AbsentAssumption DEF LibraryInv, Typed, TypeOK
<1>2. /\ users' = users /\ owner' = owner /\ public' = public /\ initials' = initials
      /\ attached' = attached /\ likes' = likes /\ bookmarks' = bookmarks /\ prompt' = prompt
  BY DEF library
<1>3. TypeOK'
  BY <1>1, <1>2 DEF LibraryInv, Typed, TypeOK
<1>4. NothingDangles'
  BY <1>1, <1>2 DEF LibraryInv, NothingDangles, HasChat, Exists
<1>5. GreetingOfItsScene'
  BY <1>1, <1>2 DEF LibraryInv, GreetingOfItsScene, HasChat
<1>6. Opened'
  BY <1>1, <1>2 DEF LibraryInv, Opened, HasChat
<1>7. ASSUME NEW d \in Chats, HasChat(d)'
      PROVE  \/ /\ chats'[d] = chats[d] /\ HasChat(d)
                /\ chats[d].greeted \in Nat
             \/ chats[d] = Unborn /\ chats'[d].initial = None
  <2>1. CASE d = c
    BY <1>1, <1>7, <2>1 DEF HasChat
  <2>2. CASE d # c
    <3>1. chats'[d] = chats[d]
      BY <1>1, <2>2
    <3> QED
      BY <1>7, <3>1 DEF LibraryInv, Typed, TypeOK, ChatRow, HasChat
  <2> QED
    BY <2>1, <2>2
<1>8. \A d \in Chats : chats[d] # Unborn => chats'[d] # Unborn
  BY <1>1
<1>9. Moves(op)
  BY <1>2, <1>7, <1>8 DEF Moves, Exists
<1> QED
  BY <1>3, <1>4, <1>5, <1>6, <1>9 DEF Kept

\* Nothing that chats or texts refer to is changed, but perhaps an owner.
LEMMA ThingEdit ==
  ASSUME LibraryInv, NEW op, TypeOK', UNCHANGED <<users, initials, chats>>,
         \A t \in Things :
           \/ owner'[t] = owner[t]
           \/ op = "update" /\ Exists(t) /\ owner'[t] \in users
           \/ owner[t] = Unborn /\ owner'[t] \in users,
         \A a \in attached' : a \in attached \/ (Exists(a[1]) /\ Exists(a[2])),
         \A l \in likes' \cup bookmarks' : l \in likes \cup bookmarks \/ (Exists(l[1]) /\ l[2] \in users)
  PROVE  Kept(op)
<1> USE DEF Exists
<1>1. users \subseteq Users /\ \A t \in Things : owner[t] \in Users \cup {Unborn, Gone}
  BY DEF LibraryInv, Typed, TypeOK
<1>2. Unborn \notin Users /\ Gone \notin Users /\ Unborn # Gone
  BY NobodyAssumption, AbsentAssumption
<1>3. \A t \in Things : Exists(t) => Exists(t)'
  BY <1>1, <1>2
<1>4. \A t \in Things : Exists(t)' => owner'[t] \in users
  BY <1>1, <1>2 DEF LibraryInv, NothingDangles
<1>5. /\ \A m \in initials : SceneOf[m] \in Things
      /\ \A a \in attached' : a[1] \in Things /\ a[2] \in Things
      /\ \A l \in likes' \cup bookmarks' : l[1] \in Things
      /\ \A c \in Chats : HasChat(c) => /\ chats[c].scene # None => chats[c].scene \in Things
                                        /\ chats[c].persona # None => chats[c].persona \in Things
                                        /\ chats[c].greeted \in Nat
  BY SceneOfAssumption DEF LibraryInv, Typed, TypeOK, Things, HasChat, ChatRow
<1>6. /\ \A m \in initials' : Exists(SceneOf[m])'
      /\ \A a \in attached' : Exists(a[1])' /\ Exists(a[2])'
      /\ \A l \in likes' \cup bookmarks' : Exists(l[1])' /\ l[2] \in users'
  <2>1. \A m \in initials : Exists(SceneOf[m])
    BY DEF LibraryInv, NothingDangles
  <2>2. \A a \in attached : Exists(a[1]) /\ Exists(a[2])
    BY DEF LibraryInv, NothingDangles
  <2>3. \A l \in likes \cup bookmarks : Exists(l[1]) /\ l[2] \in users
    BY DEF LibraryInv, NothingDangles
  <2> HIDE DEF Exists
  <2> QED
    BY <1>3, <1>5, <2>1, <2>2, <2>3
<1>7. NothingDangles'
  <2> HIDE DEF Exists
  <2> QED
    BY <1>3, <1>4, <1>5, <1>6 DEF LibraryInv, NothingDangles, HasChat
<1>8. GreetingOfItsScene' /\ Opened'
  BY DEF LibraryInv, GreetingOfItsScene, Opened, HasChat
<1>9. Moves(op)
  BY <1>1, <1>2, <1>5 DEF Moves, HasChat
<1> QED
  BY <1>7, <1>8, <1>9 DEF Kept

-----------------------------------------------------------------------------
(* Deletes and what goes with them.                                        *)

Doomed(goneUsers, goneThings) == goneThings \cup {t \in Things : owner[t] \in goneUsers}
DoomedTexts(goneUsers, goneThings, goneInitials) ==
  goneInitials \cup {m \in initials : SceneOf[m] \in Doomed(goneUsers, goneThings)}

\* What becomes of a chat.
LEMMA ChatAfterRow ==
  ASSUME NEW row \in ChatRow, NEW goneUsers, NEW things, NEW texts,
         NEW after, after = ChatAfter(row, goneUsers, things, texts)
  PROVE  /\ row.user \in goneUsers => after = Gone
         /\ row.user \notin goneUsers =>
              /\ after \in ChatRow /\ after \notin {Unborn, Gone}
              /\ after.user = row.user /\ after.greeted = row.greeted /\ after.told = row.told
              /\ after.scene = (IF row.scene \in things THEN None ELSE row.scene)
              /\ after.persona = (IF row.persona \in things THEN None ELSE row.persona)
              /\ after.initial = (IF row.initial \in texts THEN None ELSE row.initial)
<1>1. row \notin {Unborn, Gone}
  BY RowsAssumption
<1>2. CASE row.user \in goneUsers
  BY <1>1, <1>2 DEF ChatAfter
<1>3. CASE row.user \notin goneUsers
  <2>1. after = [row EXCEPT !.scene = IF @ \in things THEN None ELSE @,
                            !.persona = IF @ \in things THEN None ELSE @,
                            !.initial = IF @ \in texts THEN None ELSE @]
    BY <1>1, <1>3 DEF ChatAfter
  <2>2. after \in ChatRow
    BY <2>1 DEF ChatRow
  <2> QED
    BY <1>3, <2>1, <2>2, RowsAssumption DEF ChatRow
<1> QED
  BY <1>2, <1>3

LEMMA EraseKeeps ==
  ASSUME LibraryInv, NEW op, UNCHANGED prompt,
         NEW goneUsers \in SUBSET Users, NEW goneThings \in SUBSET Things,
         NEW goneInitials \in SUBSET Initials,
         Erase(goneUsers, goneThings, goneInitials),
         \/ op = "deleteInitial" /\ goneUsers = {} /\ goneThings = {}
         \/ op \in {"delete", "deleteUser"} /\ goneInitials = {}
  PROVE  Kept(op)
<1>0. PICK things, texts : /\ things = Doomed(goneUsers, goneThings)
                           /\ texts = DoomedTexts(goneUsers, goneThings, goneInitials)
  OBVIOUS
<1>1. /\ users' = users \ goneUsers
      /\ owner' = [t \in Things |-> IF t \in things THEN Gone ELSE owner[t]]
      /\ public' = public \ things
      /\ initials' = initials \ texts
      /\ attached' = {a \in attached : a[1] \notin things /\ a[2] \notin things}
      /\ likes' = {l \in likes : l[1] \notin things /\ l[2] \notin goneUsers}
      /\ bookmarks' = {b \in bookmarks : b[1] \notin things /\ b[2] \notin goneUsers}
      /\ chats' = [c \in Chats |-> ChatAfter(chats[c], goneUsers, things, texts)]
      /\ prompt' = prompt
  BY <1>0 DEF Erase, DropJoins, Doomed, DoomedTexts
<1>2. /\ things \subseteq Things
      /\ \A t \in Things \ things : owner[t] \notin goneUsers
      /\ \A m \in initials : SceneOf[m] \in things => m \in texts
      /\ op = "deleteInitial" \/ \A m \in texts : SceneOf[m] \in things
      /\ op = "deleteInitial" => things = {}
  <2>1. op = "deleteInitial" => things = {}
    <3>1. \A t \in Things : owner[t] \notin {}
      OBVIOUS
    <3> QED
      BY <1>0, <3>1 DEF Doomed
  <2> QED
    BY <1>0, <2>1 DEF Doomed, DoomedTexts
<1>3. /\ Unborn \notin Users /\ Gone \notin Users /\ None \notin Things /\ Unborn # Gone
      /\ \A m \in Initials : SceneOf[m] \in Things
  BY NobodyAssumption, AbsentAssumption, SceneOfAssumption DEF Things
<1>4. \A t \in Things : /\ t \in things => owner'[t] = Gone
                        /\ t \notin things => owner'[t] = owner[t]
  BY <1>1
<1>5. \A t \in Things : Exists(t)' <=> Exists(t) /\ t \notin things
  BY <1>3, <1>4 DEF Exists
<1>6. ASSUME NEW c \in Chats
      PROVE  /\ chats[c] \in {Unborn, Gone} => chats'[c] = chats[c]
             /\ HasChat(c) => chats[c] \in ChatRow
             /\ HasChat(c)' =>
                  /\ HasChat(c) /\ chats'[c] \in ChatRow /\ chats[c].user \notin goneUsers
                  /\ chats'[c].user = chats[c].user /\ chats'[c].greeted = chats[c].greeted
                  /\ chats'[c].told = chats[c].told
                  /\ chats'[c].scene = (IF chats[c].scene \in things THEN None ELSE chats[c].scene)
                  /\ chats'[c].persona = (IF chats[c].persona \in things THEN None ELSE chats[c].persona)
                  /\ chats'[c].initial = (IF chats[c].initial \in texts THEN None ELSE chats[c].initial)
             /\ HasChat(c) => chats'[c] \in ChatRow \cup {Gone}
  <2>1. chats'[c] = ChatAfter(chats[c], goneUsers, things, texts)
    BY <1>1
  <2>2. chats[c] \in {Unborn, Gone} => chats'[c] = chats[c]
    BY <2>1 DEF ChatAfter
  <2>3. HasChat(c) => chats[c] \in ChatRow
    BY DEF LibraryInv, Typed, TypeOK, HasChat
  <2>4. CASE HasChat(c)
    BY <2>1, <2>2, <2>3, <2>4, ChatAfterRow DEF HasChat
  <2>5. CASE ~HasChat(c)
    BY <2>2, <2>5 DEF HasChat
  <2> QED
    BY <2>2, <2>3, <2>4, <2>5
<1>7. TypeOK'
  <2>1. chats' \in [Chats -> ChatRow \cup {Unborn, Gone}]
    <3>1. \A c \in Chats : chats'[c] \in ChatRow \cup {Unborn, Gone}
      BY <1>6 DEF HasChat
    <3> QED
      BY <1>1, <3>1
  <2>2. owner' \in [Things -> Users \cup {Unborn, Gone}]
    BY <1>1 DEF LibraryInv, Typed, TypeOK
  <2> QED
    BY <1>1, <2>1, <2>2 DEF LibraryInv, Typed, TypeOK
<1>8. NothingDangles'
  <2>1. \A t \in Things : Exists(t)' => owner'[t] \in users'
    BY <1>1, <1>2, <1>4, <1>5 DEF LibraryInv, NothingDangles
  <2>2. \A m \in initials' : Exists(SceneOf[m])'
    <3>1. \A m \in initials : m \in Initials /\ Exists(SceneOf[m])
      BY DEF LibraryInv, Typed, TypeOK, NothingDangles
    <3> QED
      BY <1>1, <1>2, <1>3, <1>5, <3>1
  <2>3. \A a \in attached' : Exists(a[1])' /\ Exists(a[2])'
    <3>1. \A a \in attached : a[1] \in Things /\ a[2] \in Things /\ Exists(a[1]) /\ Exists(a[2])
      BY DEF LibraryInv, Typed, TypeOK, NothingDangles, Things
    <3> QED
      BY <1>1, <1>5, <3>1
  <2>4. \A l \in likes' \cup bookmarks' : Exists(l[1])' /\ l[2] \in users'
    <3>1. \A l \in likes \cup bookmarks : l[1] \in Things /\ Exists(l[1]) /\ l[2] \in users
      BY DEF LibraryInv, Typed, TypeOK, NothingDangles
    <3> QED
      BY <1>1, <1>5, <3>1
  <2>5. ASSUME NEW c \in Chats, HasChat(c)'
        PROVE  /\ chats'[c].user \in users'
               /\ chats'[c].scene # None => owner'[chats'[c].scene] \in Users
               /\ chats'[c].persona # None => owner'[chats'[c].persona] \in Users
               /\ chats'[c].initial # None => chats'[c].initial \in initials'
    <3>1. /\ HasChat(c) /\ chats[c].user \in users
          /\ chats[c].scene # None => chats[c].scene \in Things /\ Exists(chats[c].scene)
          /\ chats[c].persona # None => chats[c].persona \in Things /\ Exists(chats[c].persona)
          /\ chats[c].initial # None => chats[c].initial \in initials
      BY <1>6, <2>5 DEF LibraryInv, NothingDangles, ChatRow, Things
    <3> QED
      BY <1>1, <1>5, <1>6, <2>5, <3>1 DEF Exists
  <2> QED
    BY <2>1, <2>2, <2>3, <2>4, <2>5 DEF NothingDangles, Exists, HasChat
<1>9. GreetingOfItsScene'
  <2>1. ASSUME NEW c \in Chats, HasChat(c)', chats'[c].initial # None
        PROVE  chats'[c].scene = SceneOf[chats'[c].initial]
    <3>1. /\ HasChat(c) /\ chats'[c].initial = chats[c].initial /\ chats[c].initial \notin texts
          /\ chats[c].initial \in initials /\ chats[c].scene = SceneOf[chats[c].initial]
      BY <1>6, <2>1 DEF LibraryInv, NothingDangles, GreetingOfItsScene
    <3> QED
      BY <1>2, <1>6, <2>1, <3>1
  <2> QED
    BY <2>1 DEF GreetingOfItsScene, HasChat
<1>10. Opened'
  BY <1>6 DEF LibraryInv, Opened, HasChat
<1>11. Moves(op)
  <2>1. ASSUME NEW t \in Things, owner[t] # Unborn
        PROVE  /\ owner'[t] # Unborn
               /\ owner[t] = Gone => owner'[t] = Gone
               /\ Exists(t)' => Exists(t) /\ owner'[t] = owner[t]
    BY <1>3, <1>4, <1>5, <2>1 DEF Exists
  <2>2. ASSUME NEW c \in Chats, chats[c] # Unborn
        PROVE  chats'[c] # Unborn
    BY <1>3, <1>6, <2>2, RowsAssumption DEF HasChat
  <2>3. ASSUME NEW c \in Chats, HasChat(c)'
        PROVE  /\ HasChat(c) /\ chats'[c].user = chats[c].user
               /\ chats'[c].greeted >= chats[c].greeted
               /\ \/ chats'[c].scene = chats[c].scene
                  \/ /\ chats'[c].scene = None /\ op \in {"delete", "deleteUser"}
                     /\ chats[c].scene # None => owner'[chats[c].scene] = Gone
               /\ chats'[c].initial # None => chats'[c].initial = chats[c].initial
    <3>1. HasChat(c) /\ chats[c].greeted \in Nat /\ chats'[c].greeted = chats[c].greeted
      BY <1>6, <2>3 DEF ChatRow
    <3> QED
      BY <1>2, <1>4, <1>6, <2>3, <3>1
  <2>4. ASSUME NEW m \in initials'
        PROVE  /\ m \in initials
               /\ \A o \in initials : SceneOf[o] = SceneOf[m] => o \in initials' \/ op = "deleteInitial"
    BY <1>1, <1>2, <2>4
  <2> QED
    BY <2>1, <2>2, <2>3, <2>4 DEF Moves, HasChat, Exists
<1> QED
  BY <1>7, <1>8, <1>9, <1>10, <1>11 DEF Kept

-----------------------------------------------------------------------------
(* Every write keeps what is Kept.                                         *)

LEMMA Served ==
  ASSUME LibraryInv, NEW r \in Requests, NEW op, Serving(r, op)
  PROVE  /\ req[r] \in RequestRow /\ req[r].op = op /\ req[r].user \in Users
         /\ ArgsOK(req[r]) /\ Checked(req[r])
BY RequestFields DEF Serving, LibraryInv, RequestsOK

LEMMA CreatesKeep ==
  ASSUME LibraryInv, NEW r \in Requests, NEW u \in Users, NEW t \in Things, NEW shared \in BOOLEAN,
         NEW ms \in SUBSET Initials,
         CreateScene(r, u, t, ms, shared) \/ CreateCharacter(r, u, t, shared)
  PROVE  Kept("create") /\ Commit(r, "create")
<1> DEFINE texts == {m \in initials' : m \notin initials}
<1>1. /\ owner[t] = Unborn /\ u \in users
      /\ owner' = [owner EXCEPT ![t] = u]
      /\ public' = IF shared THEN public \cup {t} ELSE public
      /\ initials \subseteq initials' /\ initials' \subseteq Initials
      /\ \A m \in initials' : m \in initials \/ SceneOf[m] = t
      /\ UNCHANGED <<users, attached, likes, bookmarks, prompt, chats>>
  BY DEF CreateScene, CreateCharacter, LibraryInv, Typed, TypeOK
<1>2. TypeOK'
  BY <1>1 DEF LibraryInv, Typed, TypeOK
<1>3. /\ \A o \in Things : owner'[o] = (IF o = t THEN u ELSE owner[o])
      /\ Unborn \notin Users /\ Gone \notin Users /\ Unborn # Gone
      /\ \A m \in Initials : SceneOf[m] \in Things
  BY <1>1, NobodyAssumption, AbsentAssumption, SceneOfAssumption DEF LibraryInv, Typed, TypeOK, Things
<1>4. \A o \in Things : /\ Exists(o)' <=> Exists(o) \/ o = t
                        /\ Exists(o)' => owner'[o] \in users
                        /\ owner[o] # Unborn => owner'[o] = owner[o]
  BY <1>1, <1>3 DEF LibraryInv, NothingDangles, Exists
<1>5. NothingDangles'
  <2>1. \A m \in initials' : Exists(SceneOf[m])'
    <3>1. \A m \in initials : Exists(SceneOf[m])
      BY DEF LibraryInv, NothingDangles
    <3> QED
      BY <1>1, <1>3, <1>4, <3>1
  <2>2. /\ \A a \in attached' : Exists(a[1])' /\ Exists(a[2])'
        /\ \A l \in likes' \cup bookmarks' : Exists(l[1])' /\ l[2] \in users'
    <3>1. /\ \A a \in attached : a[1] \in Things /\ a[2] \in Things /\ Exists(a[1]) /\ Exists(a[2])
          /\ \A l \in likes \cup bookmarks : l[1] \in Things /\ Exists(l[1]) /\ l[2] \in users
      BY DEF LibraryInv, Typed, TypeOK, NothingDangles, Things
    <3> QED
      BY <1>1, <1>4, <3>1
  <2>3. \A c \in Chats : HasChat(c) =>
          /\ chats[c].user \in users
          /\ chats[c].scene # None => chats[c].scene \in Things /\ Exists(chats[c].scene)
          /\ chats[c].persona # None => chats[c].persona \in Things /\ Exists(chats[c].persona)
          /\ chats[c].initial # None => chats[c].initial \in initials
    BY DEF LibraryInv, Typed, TypeOK, NothingDangles, HasChat, ChatRow, Things
  <2> QED
    BY <1>1, <1>4, <2>1, <2>2, <2>3 DEF NothingDangles, HasChat
<1>6. GreetingOfItsScene' /\ Opened'
  BY <1>1 DEF LibraryInv, GreetingOfItsScene, Opened, HasChat
<1>7. Moves("create")
  <2>1. \A c \in Chats : HasChat(c) => chats[c].greeted \in Nat
    BY DEF LibraryInv, Typed, TypeOK, HasChat, ChatRow
  <2>2. \A m \in initials' : owner[SceneOf[m]] # Unborn => m \in initials
    BY <1>1
  <2> QED
    BY <1>1, <1>3, <1>4, <2>1, <2>2 DEF Moves, HasChat
<1> QED
  BY <1>2, <1>5, <1>6, <1>7 DEF Kept, CreateScene, CreateCharacter

\* The writes that leave chats and texts alone.
LEMMA ThingWritesKeep ==
  ASSUME LibraryInv, NEW r \in Requests,
         \/ Update(r) \/ AppendToPrompt(r) \/ Like(r) \/ Bookmark(r) \/ Attach(r)
         \/ Delete(r) /\ ~Exists(req[r].thing)
  PROVE  Kept(req[r].op) /\ Commit(r, req[r].op)
<1>1. CASE Update(r)
  <2> DEFINE t == req[r].thing
             body == req[r].arg
  <2>1. t \in Things /\ body \in Body /\ req[r].op = "update"
    BY <1>1, Served DEF Update, ArgsOK, OwnerOps
  <2>2. /\ body.owner = None \/ body.owner \in users
        /\ \/ UNCHANGED <<owner, public, prompt>>
           \/ /\ Exists(t)
              /\ owner' = [owner EXCEPT ![t] = OwnerAfter(t, body)]
              /\ public' = IF body.shared THEN public \cup {t} ELSE public \ {t}
              /\ prompt' = IF t \in Characters THEN [prompt EXCEPT ![t] = body.prompt] ELSE prompt
        /\ UNCHANGED <<users, initials, attached, likes, bookmarks, chats>>
    BY <1>1 DEF Update
  <2>3. body.prompt \in SUBSET Requests
    BY <2>1 DEF Body
  <2> HIDE DEF t, body
  <2>4. users \subseteq Users /\ (Exists(t) => OwnerAfter(t, body) \in users)
    BY <2>1, <2>2 DEF LibraryInv, Typed, TypeOK, NothingDangles, OwnerAfter
  <2>5. TypeOK'
    BY <2>1, <2>2, <2>3, <2>4 DEF LibraryInv, Typed, TypeOK
  <2>6. \A o \in Things : \/ owner'[o] = owner[o]
                          \/ Exists(o) /\ owner'[o] \in users
    BY <2>1, <2>2, <2>4 DEF LibraryInv, Typed, TypeOK
  <2>7. Kept("update")
    BY <2>2, <2>5, <2>6, ThingEdit
  <2> QED
    BY <1>1, <2>1, <2>7 DEF Update
<1>2. CASE AppendToPrompt(r)
  <2>1. req[r].thing \in Characters /\ req[r].op = "append"
    BY <1>2, Served DEF AppendToPrompt, ArgsOK
  <2>2. /\ prompt' = IF Exists(req[r].thing)
                     THEN [prompt EXCEPT ![req[r].thing] = PromptWith(req[r].thing, r, req[r].arg)]
                     ELSE prompt
        /\ UNCHANGED <<users, owner, public, initials, attached, likes, bookmarks, chats>>
    BY <1>2 DEF AppendToPrompt
  <2>3. TypeOK'
    BY <2>1, <2>2 DEF LibraryInv, Typed, TypeOK, PromptWith
  <2>4. Kept("append")
    BY <2>2, <2>3, ThingEdit
  <2> QED
    BY <1>2, <2>1, <2>4 DEF AppendToPrompt
<1>3. CASE Like(r) \/ Bookmark(r)
  <2>1. req[r].op \in Marks /\ req[r].thing \in Things /\ req[r].user \in Users
    BY <1>3, Served DEF Like, Bookmark, Marks, ArgsOK
  <2>2. /\ UNCHANGED <<users, owner, public, initials, attached, prompt, chats>>
        /\ \A l \in likes' \cup bookmarks' :
             \/ l \in likes \cup bookmarks
             \/ l = <<req[r].thing, req[r].user>> /\ MarkKeysHold(r)
        /\ likes' \subseteq Things \X Users /\ bookmarks' \subseteq Things \X Users
    BY <1>3, <2>1 DEF Like, Bookmark, LibraryInv, Typed, TypeOK
  <2>3. TypeOK'
    BY <2>2 DEF LibraryInv, Typed, TypeOK
  <2>4. \A l \in likes' \cup bookmarks' : l \in likes \cup bookmarks \/ (Exists(l[1]) /\ l[2] \in users)
    BY <2>2 DEF MarkKeysHold
  <2>5. Kept(req[r].op)
    BY <2>2, <2>3, <2>4, ThingEdit
  <2> QED
    BY <1>3, <2>5 DEF Like, Bookmark
<1>4. CASE Attach(r)
  <2>1. req[r].thing \in Scenes /\ req[r].arg \in SUBSET Characters /\ req[r].op = "attach"
    BY <1>4, Served DEF Attach, ArgsOK
  <2>2. /\ \A t \in {req[r].thing} \cup req[r].arg : Exists(t)
        /\ attached' = attached \cup ({req[r].thing} \X req[r].arg)
        /\ UNCHANGED <<users, owner, public, initials, likes, bookmarks, prompt, chats>>
    BY <1>4 DEF Attach
  <2>3. TypeOK'
    BY <2>1, <2>2 DEF LibraryInv, Typed, TypeOK
  <2>4. \A a \in attached' : a \in attached \/ (Exists(a[1]) /\ Exists(a[2]))
    BY <2>2
  <2>5. Kept("attach")
    BY <2>2, <2>3, <2>4, ThingEdit
  <2> QED
    BY <1>4, <2>1, <2>5 DEF Attach
<1>5. CASE Delete(r) /\ ~Exists(req[r].thing)
  <2>1. req[r].op = "delete" /\ UNCHANGED <<library, chats>>
    BY <1>5 DEF Delete, Serving, library
  <2>2. TypeOK'
    BY <2>1 DEF LibraryInv, Typed, TypeOK, library
  <2>3. Kept("delete")
    BY <2>1, <2>2, ThingEdit DEF library
  <2> QED
    BY <1>5, <2>1, <2>3 DEF Delete
<1> QED
  BY <1>1, <1>2, <1>3, <1>4, <1>5

\* The deletes of scenes, characters, texts and users.
LEMMA DeletesKeep ==
  ASSUME LibraryInv, NEW r \in Requests,
         (Delete(r) /\ Exists(req[r].thing)) \/ DeleteInitial(r) \/ DeleteUser(r)
  PROVE  Kept(req[r].op) /\ Commit(r, req[r].op)
<1>1. CASE Delete(r) /\ Exists(req[r].thing)
  <2>1. req[r].thing \in Things /\ req[r].op = "delete"
    BY <1>1, Served DEF Delete, ArgsOK, OwnerOps
  <2>2. Erase({}, {req[r].thing}, {}) /\ UNCHANGED prompt
    BY <1>1 DEF Delete
  <2>3. Kept("delete")
    BY <2>1, <2>2, EraseKeeps
  <2> QED
    BY <1>1, <2>1, <2>3 DEF Delete
<1>2. CASE DeleteInitial(r)
  <2>1. req[r].arg \in Initials /\ req[r].op = "deleteInitial"
    BY <1>2, Served DEF DeleteInitial, ArgsOK
  <2>2. Erase({}, {}, {req[r].arg}) /\ UNCHANGED prompt
    BY <1>2 DEF DeleteInitial
  <2>3. Kept("deleteInitial")
    BY <2>1, <2>2, EraseKeeps
  <2> QED
    BY <1>2, <2>1, <2>3 DEF DeleteInitial
<1>3. CASE DeleteUser(r)
  <2>1. req[r].user \in Users /\ req[r].op = "deleteUser"
    BY <1>3, Served DEF DeleteUser
  <2>2. Erase({req[r].user}, {}, {}) /\ UNCHANGED prompt
    BY <1>3 DEF DeleteUser
  <2>3. Kept("deleteUser")
    BY <2>1, <2>2, EraseKeeps
  <2> QED
    BY <1>3, <2>1, <2>3 DEF DeleteUser
<1> QED
  BY <1>1, <1>2, <1>3

\* A greeting that is still there and still of the chat's scene.
LEMMA ChoiceStillRight ==
  ASSUME LibraryInv, NEW r \in Requests, Choose(r)
  PROVE  /\ req[r].chat \in Chats /\ req[r].arg \in Initials /\ Writable(req[r].chat)
         /\ chats[req[r].chat].scene = SceneOf[req[r].arg]
<1>1. /\ req[r].chat \in Chats /\ req[r].arg \in Initials /\ HasChat(req[r].chat)
      /\ req[r].arg \in initials
      /\ chats[req[r].chat].scene = SceneOf[req[r].arg] \/ owner[SceneOf[req[r].arg]] = Gone
  BY Served DEF Choose, ArgsOK, ChatOps, Checked, ChoiceChecked
<1>2. Exists(SceneOf[req[r].arg]) /\ SceneOf[req[r].arg] \in Scenes
  BY <1>1, SceneOfAssumption DEF LibraryInv, NothingDangles
<1> QED
  BY <1>1, <1>2, NobodyAssumption DEF Exists, Writable, Things

\* The writes to one chat.
LEMMA ChatEditsKeep ==
  ASSUME LibraryInv, NEW r \in Requests,
         Rename(r) \/ SetPersona(r) \/ SaveSettings(r) \/ Choose(r) \/ Send(r)
  PROVE  Kept(req[r].op) /\ Commit(r, req[r].op)
<1>0. PICK c, old : c = req[r].chat /\ old = chats[c]
  OBVIOUS
<1>1. old \in ChatRow
  BY <1>0, Served
  DEF Rename, SetPersona, SaveSettings, Choose, Send, ArgsOK, ChatOps, LibraryInv, Typed, TypeOK, HasChat
<1>9. c \in Chats /\ HasChat(c) /\ UNCHANGED library
  BY <1>0, Served DEF Rename, SetPersona, SaveSettings, Choose, Send, ArgsOK, ChatOps
<1>2. old.initial # None \/ old.told => old.greeted > 0
  BY <1>0, <1>9 DEF LibraryInv, Opened
<1>3. old.greeted \in Nat
  BY <1>1 DEF ChatRow
<1>4. CASE Rename(r)
  <2>5. PICK row : row = [old EXCEPT !.renamed = TRUE]
    OBVIOUS
  <2>1. /\ row \in ChatRow
        /\ row.user = old.user /\ row.scene = old.scene /\ row.greeted = old.greeted
        /\ row.persona = old.persona /\ row.initial = old.initial /\ row.told = old.told
    BY <1>1, <2>5 DEF ChatRow
  <2>2. chats' = [chats EXCEPT ![c] = row] /\ req[r].op = "rename"
    BY <1>0, <1>4, <2>5 DEF Rename, Serving
  <2>3. Kept("rename")
    <3>1. /\ row.user = chats[c].user /\ row.scene = chats[c].scene
          /\ row.greeted >= chats[c].greeted
          /\ row.persona = chats[c].persona \/ Exists(row.persona)
          /\ \/ row.initial = chats[c].initial
             \/ req[r].op = "choose" /\ row.initial \in initials /\ SceneOf[row.initial] = row.scene
          /\ row.initial # None \/ row.told => row.greeted > 0
      BY <1>0, <1>1, <1>9, <1>2, <1>3, <2>1, <2>2
    <3> QED
      BY <1>9, <2>1, <2>2, <3>1, ChatEdit
  <2> QED
    BY <1>4, <2>2, <2>3 DEF Rename
<1>5. CASE SaveSettings(r)
  <2>5. PICK row : row = [old EXCEPT !.configured = TRUE]
    OBVIOUS
  <2>1. /\ row \in ChatRow
        /\ row.user = old.user /\ row.scene = old.scene /\ row.greeted = old.greeted
        /\ row.persona = old.persona /\ row.initial = old.initial /\ row.told = old.told
    BY <1>1, <2>5 DEF ChatRow
  <2>2. chats' = [chats EXCEPT ![c] = row] /\ req[r].op = "settings"
    BY <1>0, <1>5, <2>5 DEF SaveSettings, Serving
  <2>3. Kept("settings")
    <3>1. /\ row.user = chats[c].user /\ row.scene = chats[c].scene
          /\ row.greeted >= chats[c].greeted
          /\ row.persona = chats[c].persona \/ Exists(row.persona)
          /\ \/ row.initial = chats[c].initial
             \/ req[r].op = "choose" /\ row.initial \in initials /\ SceneOf[row.initial] = row.scene
          /\ row.initial # None \/ row.told => row.greeted > 0
      BY <1>0, <1>1, <1>9, <1>2, <1>3, <2>1, <2>2
    <3> QED
      BY <1>9, <2>1, <2>2, <3>1, ChatEdit
  <2> QED
    BY <1>5, <2>2, <2>3 DEF SaveSettings
<1>6. CASE SetPersona(r)
  <2>5. PICK row : row = [old EXCEPT !.persona = req[r].thing]
    OBVIOUS
  <2>0. req[r].thing \in Characters
    BY <1>6, Served DEF SetPersona, ArgsOK
  <2>1. /\ row \in ChatRow
        /\ row.user = old.user /\ row.scene = old.scene /\ row.greeted = old.greeted
        /\ row.persona = req[r].thing /\ row.initial = old.initial /\ row.told = old.told
    BY <1>1, <2>0, <2>5 DEF ChatRow
  <2>2. chats' = [chats EXCEPT ![c] = row] /\ req[r].op = "persona" /\ Exists(req[r].thing)
    BY <1>0, <1>6, <2>5 DEF SetPersona, Serving
  <2>3. Kept("persona")
    <3>1. /\ row.user = chats[c].user /\ row.scene = chats[c].scene
          /\ row.greeted >= chats[c].greeted
          /\ row.persona = chats[c].persona \/ Exists(row.persona)
          /\ \/ row.initial = chats[c].initial
             \/ req[r].op = "choose" /\ row.initial \in initials /\ SceneOf[row.initial] = row.scene
          /\ row.initial # None \/ row.told => row.greeted > 0
      BY <1>0, <1>1, <1>9, <1>2, <1>3, <2>1, <2>2
    <3> QED
      BY <1>9, <2>1, <2>2, <3>1, ChatEdit
  <2> QED
    BY <1>6, <2>2, <2>3 DEF SetPersona
<1>7. CASE Send(r)
  <2>5. PICK row : row = [old EXCEPT !.told = TRUE]
    OBVIOUS
  <2>1. /\ row \in ChatRow
        /\ row.user = old.user /\ row.scene = old.scene /\ row.greeted = old.greeted
        /\ row.persona = old.persona /\ row.initial = old.initial
    BY <1>1, <2>5 DEF ChatRow
  <2>2. chats' = [chats EXCEPT ![c] = row] /\ req[r].op = "send"
    BY <1>0, <1>7, <2>5 DEF Send, Serving
  <2>3. old.greeted > 0
    BY <1>0, <1>1, <1>7, Served DEF Send, Checked, SendChecked
  <2>4. Kept("send")
    <3>1. /\ row.user = chats[c].user /\ row.scene = chats[c].scene
          /\ row.greeted >= chats[c].greeted
          /\ row.persona = chats[c].persona \/ Exists(row.persona)
          /\ \/ row.initial = chats[c].initial
             \/ req[r].op = "choose" /\ row.initial \in initials /\ SceneOf[row.initial] = row.scene
          /\ row.initial # None \/ row.told => row.greeted > 0
      BY <1>0, <1>1, <1>9, <1>3, <2>1, <2>2, <2>3
    <3> QED
      BY <1>9, <2>1, <2>2, <3>1, ChatEdit
  <2> QED
    BY <1>7, <2>2, <2>4 DEF Send
<1>8. CASE Choose(r)
  <2>5. PICK row : row = [old EXCEPT !.initial = req[r].arg, !.greeted = @ + 1]
    OBVIOUS
  <2>0. req[r].arg \in Initials /\ req[r].arg \in initials /\ old.scene = SceneOf[req[r].arg]
    BY <1>0, <1>8, ChoiceStillRight DEF Choose
  <2>1. /\ row \in ChatRow
        /\ row.user = old.user /\ row.scene = old.scene /\ row.greeted = old.greeted + 1
        /\ row.persona = old.persona /\ row.initial = req[r].arg
    <3>1. old.greeted + 1 \in Nat
      BY <1>3
    <3>2. row = [old EXCEPT !.initial = req[r].arg, !.greeted = old.greeted + 1]
      BY <2>5
    <3>3. row \in ChatRow
      BY <1>1, <2>0, <3>1, <3>2 DEF ChatRow
    <3> QED
      BY <1>1, <3>2, <3>3 DEF ChatRow
  <2>2. chats' = [chats EXCEPT ![c] = row] /\ req[r].op = "choose"
    BY <1>0, <1>8, <2>5 DEF Choose, Serving
  <2>3. row.greeted > 0 /\ row.greeted >= old.greeted
    BY <1>3, <2>1
  <2>4. Kept("choose")
    <3>1. /\ row.user = chats[c].user /\ row.scene = chats[c].scene
          /\ row.greeted >= chats[c].greeted
          /\ row.persona = chats[c].persona \/ Exists(row.persona)
          /\ \/ row.initial = chats[c].initial
             \/ req[r].op = "choose" /\ row.initial \in initials /\ SceneOf[row.initial] = row.scene
          /\ row.initial # None \/ row.told => row.greeted > 0
      BY <1>0, <1>1, <1>9, <2>0, <2>1, <2>2, <2>3
    <3> QED
      BY <1>9, <2>1, <2>2, <3>1, ChatEdit
  <2> QED
    BY <1>8, <2>2, <2>4 DEF Choose
<1> QED
  BY <1>4, <1>5, <1>6, <1>7, <1>8

LEMMA ChatLivesKeep ==
  ASSUME LibraryInv, NEW r \in Requests, StartChat(r) \/ DeleteChat(r)
  PROVE  Kept(req[r].op) /\ Commit(r, req[r].op)
<1>1. CASE StartChat(r)
  <2> DEFINE row == NewChat(req[r].user, req[r].thing, req[r].arg)
  <2>1. /\ req[r].op = "start" /\ req[r].chat \in Chats /\ req[r].thing \in Scenes
        /\ req[r].arg \in Characters \cup {None} /\ req[r].user \in Users
    BY <1>1, Served DEF StartChat, ArgsOK
  <2>2. /\ row \in ChatRow
        /\ row.user = req[r].user /\ row.scene = req[r].thing /\ row.persona = req[r].arg
        /\ row.initial = None /\ ~row.told
    BY <2>1 DEF NewChat, ChatRow
  <2>3. /\ chats[req[r].chat] = Unborn /\ req[r].user \in users /\ Exists(req[r].thing)
        /\ req[r].arg # None => Exists(req[r].arg)
        /\ chats' = [chats EXCEPT ![req[r].chat] = row]
        /\ UNCHANGED library
    BY <1>1 DEF StartChat
  <2> HIDE DEF row
  <2>4. Kept("start")
    BY <2>1, <2>2, <2>3, ChatNewOrGone
  <2> QED
    BY <1>1, <2>1, <2>4 DEF StartChat
<1>2. CASE DeleteChat(r)
  <2>1. req[r].op = "deleteChat" /\ req[r].chat \in Chats
    BY <1>2, Served DEF DeleteChat, ArgsOK
  <2>2. chats' = [chats EXCEPT ![req[r].chat] = Gone] /\ UNCHANGED library
    BY <1>2 DEF DeleteChat
  <2>3. Kept("deleteChat")
    BY <2>1, <2>2, ChatNewOrGone
  <2> QED
    BY <1>2, <2>1, <2>3 DEF DeleteChat
<1> QED
  BY <1>1, <1>2

-----------------------------------------------------------------------------
(* The invariant.                                                          *)

LEMMA WriteKeeps ==
  ASSUME LibraryInv, NEW r \in Requests, Write(r)
  PROVE  Kept(req[r].op) /\ Commit(r, req[r].op)
BY ThingWritesKeep, DeletesKeep, ChatEditsKeep, ChatLivesKeep DEF Write

LEMMA KeptInv ==
  ASSUME LibraryInv, NEW r \in Requests, NEW op, Kept(op), Commit(r, op)
  PROVE  LibraryInv'
BY StaysChecked DEF Kept, LibraryInv

LEMMA FailKeeps ==
  ASSUME LibraryInv, NEW r \in Requests, Fail(r)
  PROVE  LibraryInv'
<1>1. req' = [req EXCEPT ![r] = None] /\ UNCHANGED <<library, chats, scenario>>
  BY DEF Fail
<1>2. /\ req' \in [Requests -> RequestRow \cup {None}]
      /\ \A q \in Requests : req'[q] # None => req'[q] = req[q]
  BY <1>1 DEF LibraryInv, Typed
<1>3. RequestsOK'
  BY <1>1, <1>2
  DEF LibraryInv, RequestsOK, Checked, ChatChecked, ChoiceChecked, SendChecked, OwnerChecked,
      TextChecked, HasChat, Writable, Exists, ChatsOn, library
<1>4. TypeOK' /\ NothingDangles' /\ GreetingOfItsScene' /\ Opened'
  BY <1>1 DEF LibraryInv, Typed, TypeOK, NothingDangles, GreetingOfItsScene, Opened, library,
              Exists, HasChat
<1> QED
  BY <1>2, <1>3, <1>4 DEF LibraryInv, Typed

LEMMA InitInv == Init => LibraryInv
<1> SUFFICES ASSUME Init PROVE LibraryInv
  OBVIOUS
<1>1. Typed /\ RequestsOK
  BY DEF Init, Typed, TypeOK, RequestsOK
<1>2. NothingDangles /\ GreetingOfItsScene /\ Opened
  BY NobodyAssumption DEF Init, NothingDangles, GreetingOfItsScene, Opened, Exists, HasChat
<1> QED
  BY <1>1, <1>2 DEF LibraryInv

\* A step is a request that reads, a write, or a failure.
LEMMA StepInv == LibraryInv /\ [Next]_vars => LibraryInv'
<1> SUFFICES ASSUME LibraryInv, [Next]_vars PROVE LibraryInv'
  OBVIOUS
<1>1. ASSUME NEW r \in Requests, Write(r) PROVE LibraryInv'
  BY <1>1, WriteKeeps, KeptInv
<1>2. ASSUME NEW r \in Requests, Fail(r) PROVE LibraryInv'
  BY <1>2, FailKeeps
<1>3. ASSUME NEW r \in Requests, NEW u \in Users, SceneRequest(r, u) PROVE LibraryInv'
  <2>1. ASSUME NEW s \in Scenes, NEW ms \in SUBSET Initials, NEW shared \in BOOLEAN,
               CreateScene(r, u, s, ms, shared)
        PROVE  LibraryInv'
    <3>1. Kept("create") /\ Commit(r, "create")
      BY <2>1, CreatesKeep DEF Things
    <3> QED
      BY <3>1, KeptInv
  <2>2. ASSUME NEW s \in Scenes, ThingRequest(r, u, s) PROVE LibraryInv'
    BY <2>2, ThingAsks DEF Things
  <2> QED
    BY <1>3, <2>1, <2>2, OtherThingAsks DEF SceneRequest
<1>4. ASSUME NEW r \in Requests, NEW u \in Users, CharacterRequest(r, u) PROVE LibraryInv'
  <2>1. ASSUME NEW c \in Characters, NEW shared \in BOOLEAN, CreateCharacter(r, u, c, shared)
        PROVE  LibraryInv'
    <3>1. Kept("create") /\ Commit(r, "create")
      BY <2>1, CreatesKeep DEF Things
    <3> QED
      BY <3>1, KeptInv
  <2>2. ASSUME NEW c \in Characters, ThingRequest(r, u, c) PROVE LibraryInv'
    BY <2>2, ThingAsks DEF Things
  <2> QED
    BY <1>4, <2>1, <2>2, OtherThingAsks DEF CharacterRequest
<1>5. ASSUME NEW r \in Requests, NEW u \in Users, ChatRequest(r, u) PROVE LibraryInv'
  BY <1>5, ChatAsks
<1>6. CASE UNCHANGED vars
  BY <1>6 DEF vars, library, LibraryInv, Typed, TypeOK, NothingDangles, GreetingOfItsScene, Opened,
              Exists, HasChat, RequestsOK, Checked, ChatChecked, ChoiceChecked, SendChecked,
              OwnerChecked, TextChecked, Writable, ChatsOn
<1> QED
  BY <1>1, <1>2, <1>3, <1>4, <1>5, <1>6 DEF Next, Request

LEMMA AlwaysInv == Spec => []LibraryInv
BY InitInv, StepInv, PTL DEF Spec

\* The tables keep their types, whoever writes them (models.py's columns).
THEOREM LibraryTypeCorrect == Spec => []TypeOK
<1>1. LibraryInv => TypeOK
  BY DEF LibraryInv, Typed
<1> QED
  BY AlwaysInv, <1>1, PTL

\* No row ever points at one that is gone, whatever was deleted between the
\* checks of a request and its write (models.py's foreign keys).
THEOREM NothingEverDangles == Spec => []NothingDangles
<1>1. LibraryInv => NothingDangles
  BY DEF LibraryInv
<1> QED
  BY AlwaysInv, <1>1, PTL

\* A chat opens with a greeting of its own scene, or not at all
\* (ChatService.choose_initial_message, LLMChatsService.send_message).
THEOREM ChatsOpenRight == Spec => []GreetingRight
<1>1. LibraryInv => GreetingRight
  BY DEF LibraryInv, GreetingRight, Opened, GreetedFirst
<1> QED
  BY AlwaysInv, <1>1, PTL

-----------------------------------------------------------------------------
(* What a step changes.                                                    *)

\* Either nothing but requests, or one write, or something new.
Adds == /\ \A q \in Requests : ~Step(q)
        /\ \A t \in Things : Exists(t) => owner'[t] = owner[t] /\ (t \in public <=> t \in public')
        /\ \A m \in initials' : m \in initials \/ ~Exists(SceneOf[m])
        /\ initials \subseteq initials' /\ UNCHANGED <<prompt, chats>>

LEMMA StepCases ==
  ASSUME LibraryInv, [Next]_vars
  PROVE  UNCHANGED <<library, chats>> \/ Adds \/ \E r \in Requests : Write(r)
<1> USE DEF Ask
<1>1. ASSUME NEW r \in Requests, NEW u \in Users, SceneRequest(r, u)
      PROVE  UNCHANGED <<library, chats>> \/ \E s \in Scenes, ms \in SUBSET Initials, shared \in BOOLEAN :
                                                CreateScene(r, u, s, ms, shared)
  BY <1>1 DEF SceneRequest, ThingRequest, AskDelete, AskUpdate, AskMark, AskAttach, AskDeleteInitial
<1>2. ASSUME NEW r \in Requests, NEW u \in Users, CharacterRequest(r, u)
      PROVE  UNCHANGED <<library, chats>> \/ \E c \in Characters, shared \in BOOLEAN :
                                                CreateCharacter(r, u, c, shared)
  BY <1>2 DEF CharacterRequest, ThingRequest, AskDelete, AskUpdate, AskMark, AskAppend
<1>3. ASSUME NEW r \in Requests, NEW u \in Users, ChatRequest(r, u)
      PROVE  UNCHANGED <<library, chats>>
  BY <1>3 DEF ChatRequest, AskStart, AskDeleteChat, AskRename, AskSettings, AskSend, AskPersona,
              AskChoose, AskDeleteUser
<1>4. ASSUME NEW r \in Requests, NEW u \in Users, NEW t \in Things, NEW shared \in BOOLEAN,
             NEW ms \in SUBSET Initials,
             CreateScene(r, u, t, ms, shared) \/ CreateCharacter(r, u, t, shared)
      PROVE  Adds
  <2>1. /\ owner[t] = Unborn /\ req[r] = None /\ Commit(r, "create")
        /\ owner' = [owner EXCEPT ![t] = u]
        /\ public' = IF shared THEN public \cup {t} ELSE public
        /\ initials \subseteq initials'
        /\ \A m \in initials' : m \in initials \/ SceneOf[m] = t
        /\ UNCHANGED <<prompt, chats>>
    BY <1>4 DEF CreateScene, CreateCharacter, Free
  <2>2. Unborn \notin Users
    BY NobodyAssumption
  <2>3. \A q \in Requests : ~Step(q)
    BY <2>1, CommitReq DEF Step, LibraryInv
  <2>4. \A o \in Things : Exists(o) => o # t /\ owner'[o] = owner[o]
    BY <2>1, <2>2 DEF Exists, LibraryInv, Typed, TypeOK
  <2> QED
    BY <2>1, <2>2, <2>3, <2>4 DEF Adds, Exists
<1>5. ASSUME NEW r \in Requests, Fail(r)
      PROVE  UNCHANGED <<library, chats>>
  BY <1>5 DEF Fail
<1>6. CASE UNCHANGED vars
  BY <1>6 DEF vars
<1> QED
  BY <1>1, <1>2, <1>3, <1>4, <1>5, <1>6 DEF Next, Request, Things

\* A write is the step of its own request only.
LEMMA OneStep ==
  ASSUME LibraryInv, NEW r \in Requests, Write(r), NEW q \in Requests, Step(q)
  PROVE  q = r
BY WriteKeeps, CommitReq DEF Step, LibraryInv

\* Whose request it is, and what it does to a chat.
LEMMA ChatChange ==
  ASSUME LibraryInv, NEW r \in Requests, Write(r), NEW c \in Chats, HasChat(c)
  PROVE  /\ Step(r)
         /\ \/ chats'[c] = chats[c]
            \/ /\ req[r].chat = c /\ req[r].op \in ChatOps /\ chats'[c] \in ChatRow
               /\ req[r].op # "choose" => /\ chats'[c].greeted = chats[c].greeted
                                          /\ chats'[c].initial = chats[c].initial
               /\ req[r].op = "choose" => chats[c].initial = None /\ Writable(c)
            \/ req[r].op = "deleteChat" /\ req[r].chat = c /\ chats'[c] = Gone
            \/ /\ req[r].op \in {"delete", "deleteInitial", "deleteUser"}
               /\ \/ chats'[c] = Gone /\ chats[c].user \notin users'
                  \/ /\ chats'[c] \in ChatRow /\ chats'[c].greeted = chats[c].greeted
                     /\ chats'[c].initial # chats[c].initial =>
                          \/ chats'[c].scene = None
                          \/ req[r].op = "deleteInitial" /\ req[r].arg = chats[c].initial
<1>0. PICK old : old = chats[c] /\ old \in ChatRow
  BY DEF LibraryInv, Typed, TypeOK, HasChat
<1>1. Step(r)
  <2>1. req[r] # None
    BY DEF Write, Serving, Delete, Update, AppendToPrompt, Like, Bookmark, Attach, DeleteInitial,
           StartChat, DeleteChat, Rename, SetPersona, SaveSettings, Choose, Send, DeleteUser
  <2> QED
    BY <2>1, WriteKeeps, CommitReq DEF Step, LibraryInv
<1>2. CASE Update(r) \/ AppendToPrompt(r) \/ Like(r) \/ Bookmark(r) \/ Attach(r)
  BY <1>1, <1>2 DEF Update, AppendToPrompt, Like, Bookmark, Attach
<1>3. ASSUME NEW goneUsers \in SUBSET Users, NEW goneThings \in SUBSET Things,
             NEW goneInitials \in SUBSET Initials,
             Erase(goneUsers, goneThings, goneInitials),
             goneInitials = {} \/ (req[r].op = "deleteInitial" /\ goneInitials = {req[r].arg})
      PROVE  \/ chats'[c] = Gone /\ chats[c].user \notin users'
             \/ /\ chats'[c] \in ChatRow /\ chats'[c].greeted = chats[c].greeted
                /\ chats'[c].initial # chats[c].initial =>
                     \/ chats'[c].scene = None
                     \/ req[r].op = "deleteInitial" /\ req[r].arg = chats[c].initial
  <2>1. PICK things, texts, after :
          /\ things = Doomed(goneUsers, goneThings)
          /\ texts = DoomedTexts(goneUsers, goneThings, goneInitials)
          /\ after = chats'[c]
    OBVIOUS
  <2>2. after = ChatAfter(old, goneUsers, things, texts) /\ users' = users \ goneUsers
    BY <1>0, <1>3, <2>1 DEF Erase, Doomed, DoomedTexts
  <2>3. /\ old.user \in goneUsers => after = Gone
        /\ old.user \notin goneUsers =>
             /\ after \in ChatRow /\ after.greeted = old.greeted
             /\ after.scene = (IF old.scene \in things THEN None ELSE old.scene)
             /\ after.initial = (IF old.initial \in texts THEN None ELSE old.initial)
    BY <1>0, <2>2, ChatAfterRow
  <2>4. /\ old.initial # None => old.initial \in initials /\ old.scene = SceneOf[old.initial]
        /\ None \notin Initials /\ initials \subseteq Initials
    BY <1>0, NobodyAssumption DEF LibraryInv, Typed, TypeOK, NothingDangles, GreetingOfItsScene
  <2>5. \A m \in texts : m \in goneInitials \/ SceneOf[m] \in things
    BY <2>1 DEF DoomedTexts
  <2>6. None \notin texts
    BY <2>1, <2>4 DEF DoomedTexts
  <2> QED
    BY <1>0, <1>3, <2>1, <2>2, <2>3, <2>4, <2>5, <2>6
<1>4. CASE Delete(r)
  <2>1. req[r].op = "delete" /\ req[r].thing \in Things
    BY <1>4, Served DEF Delete, ArgsOK, OwnerOps
  <2>2. Erase({}, {req[r].thing}, {}) \/ UNCHANGED chats
    BY <1>4 DEF Delete
  <2> QED
    BY <1>1, <1>3, <2>1, <2>2
<1>5. CASE DeleteInitial(r)
  <2>1. req[r].op = "deleteInitial" /\ req[r].arg \in Initials
    BY <1>5, Served DEF DeleteInitial, ArgsOK
  <2> QED
    BY <1>1, <1>3, <1>5, <2>1 DEF DeleteInitial
<1>6. CASE DeleteUser(r)
  <2>1. req[r].op = "deleteUser" /\ req[r].user \in Users
    BY <1>6, Served DEF DeleteUser
  <2> QED
    BY <1>1, <1>3, <1>6, <2>1 DEF DeleteUser
<1>7. CASE StartChat(r) \/ DeleteChat(r)
  <2>1. /\ req[r].chat \in Chats
        /\ \/ chats' = [chats EXCEPT ![req[r].chat] = Gone] /\ req[r].op = "deleteChat"
           \/ /\ chats[req[r].chat] = Unborn
              /\ chats' = [chats EXCEPT ![req[r].chat] = NewChat(req[r].user, req[r].thing, req[r].arg)]
    BY <1>7, Served DEF StartChat, DeleteChat, ArgsOK
  <2>2. chats \in [Chats -> ChatRow \cup {Unborn, Gone}]
    BY DEF LibraryInv, Typed, TypeOK
  <2> QED
    BY <1>1, <2>1, <2>2 DEF HasChat
<1>8. CASE Rename(r) \/ SetPersona(r) \/ SaveSettings(r) \/ Send(r)
  <2>1. PICK d, was : d = req[r].chat /\ was = chats[d] /\ d \in Chats /\ req[r].op \in ChatOps
                      /\ req[r].op # "choose" /\ was \in ChatRow
    BY <1>8, Served DEF Rename, SetPersona, SaveSettings, Send, ArgsOK, ChatOps,
                        LibraryInv, Typed, TypeOK, HasChat
  <2>2. \A thing \in Characters :
          /\ [was EXCEPT !.persona = thing].greeted = was.greeted
          /\ [was EXCEPT !.persona = thing].initial = was.initial
          /\ [was EXCEPT !.persona = thing] \in ChatRow
    BY <2>1 DEF ChatRow
  <2>6. req[r].op = "persona" => req[r].thing \in Characters
    BY <1>8, Served DEF Rename, SetPersona, SaveSettings, Send, ArgsOK
  <2>3. PICK row : /\ chats' = [chats EXCEPT ![d] = row] /\ row \in ChatRow
                   /\ row.greeted = was.greeted /\ row.initial = was.initial
    <3>1. CASE Rename(r)
      <4>1. PICK row : row = [was EXCEPT !.renamed = TRUE]
        OBVIOUS
      <4>2. chats' = [chats EXCEPT ![d] = row]
        BY <3>1, <4>1, <2>1 DEF Rename
      <4>3. row \in ChatRow /\ row.greeted = was.greeted /\ row.initial = was.initial
        BY <4>1, <2>1 DEF ChatRow
      <4> QED
        BY <4>2, <4>3
    <3>2. CASE SetPersona(r)
      <4>1. PICK row : row = [was EXCEPT !.persona = req[r].thing]
        OBVIOUS
      <4>2. chats' = [chats EXCEPT ![d] = row]
        BY <3>2, <4>1, <2>1 DEF SetPersona
      <4>3. row \in ChatRow /\ row.greeted = was.greeted /\ row.initial = was.initial
        BY <4>1, <2>1, <2>2, <2>6, <3>2 DEF SetPersona, Serving
      <4> QED
        BY <4>2, <4>3
    <3>3. CASE SaveSettings(r)
      <4>1. PICK row : row = [was EXCEPT !.configured = TRUE]
        OBVIOUS
      <4>2. chats' = [chats EXCEPT ![d] = row]
        BY <3>3, <4>1, <2>1 DEF SaveSettings
      <4>3. row \in ChatRow /\ row.greeted = was.greeted /\ row.initial = was.initial
        BY <4>1, <2>1 DEF ChatRow
      <4> QED
        BY <4>2, <4>3
    <3>4. CASE Send(r)
      <4>1. PICK row : row = [was EXCEPT !.told = TRUE]
        OBVIOUS
      <4>2. chats' = [chats EXCEPT ![d] = row]
        BY <3>4, <4>1, <2>1 DEF Send
      <4>3. row \in ChatRow /\ row.greeted = was.greeted /\ row.initial = was.initial
        BY <4>1, <2>1 DEF ChatRow
      <4> QED
        BY <4>2, <4>3
    <3> QED
      BY <1>8, <3>1, <3>2, <3>3, <3>4
  <2>4. chats \in [Chats -> ChatRow \cup {Unborn, Gone}] /\ chats' \in [Chats -> ChatRow \cup {Unborn, Gone}]
    BY WriteKeeps DEF LibraryInv, Typed, TypeOK, Kept
  <2> QED
    BY <1>0, <1>1, <2>1, <2>3, <2>4
<1>9. CASE Choose(r)
  <2>1. PICK d, was, text, row :
          /\ d = req[r].chat /\ was = chats[d] /\ text = req[r].arg
          /\ row = [was EXCEPT !.initial = text, !.greeted = @ + 1]
    OBVIOUS
  <2>2. /\ chats' = [chats EXCEPT ![d] = row] /\ was.initial = None
        /\ req[r].op = "choose" /\ HasChat(d)
    BY <1>9, <2>1 DEF Choose, StillOpen, Serving
  <2>3. d \in Chats /\ Writable(d) /\ text \in Initials
    BY <1>9, <2>1, ChoiceStillRight
  <2>4. was \in ChatRow
    BY <2>1, <2>2, <2>3 DEF LibraryInv, Typed, TypeOK, HasChat
  <2>5. row \in ChatRow
    <3>1. was.greeted + 1 \in Nat
      BY <2>4 DEF ChatRow
    <3>2. row = [was EXCEPT !.initial = text, !.greeted = was.greeted + 1]
      BY <2>1
    <3> QED
      BY <2>3, <2>4, <3>1, <3>2 DEF ChatRow
  <2>6. chats \in [Chats -> ChatRow \cup {Unborn, Gone}]
    BY DEF LibraryInv, Typed, TypeOK
  <2> QED
    BY <1>1, <2>1, <2>2, <2>3, <2>5, <2>6 DEF ChatOps
<1> QED
  BY <1>1, <1>2, <1>4, <1>5, <1>6, <1>7, <1>8, <1>9 DEF Write

\* Whose request it is, and what it does to a scene or a character.
LEMMA ThingChange ==
  ASSUME LibraryInv, NEW r \in Requests, Write(r), NEW t \in Things, Exists(t),
         req[r].op # "deleteUser",
         \/ ~Exists(t)' \/ owner'[t] # owner[t] \/ (t \in public) # (t \in public')
         \/ (t \in Scenes /\ InitialsOf(t) # InitialsOf(t)')
         \/ (t \in Characters /\ prompt'[t] # prompt[t])
  PROVE  req[r].op \in OwnerOps /\ req[r].thing = t
<1> DEFINE Same == /\ owner'[t] = owner[t] /\ (t \in public <=> t \in public')
                   /\ InitialsOf(t) = InitialsOf(t)'
                   /\ t \in Characters => prompt'[t] = prompt[t]
<1>1. ~Same
  BY DEF Exists
<1>2. /\ owner \in [Things -> Users \cup {Unborn, Gone}] /\ prompt \in [Characters -> SUBSET Requests]
      /\ Characters \subseteq Things
  BY DEF LibraryInv, Typed, TypeOK, Things
<1>3. CASE Like(r) \/ Bookmark(r) \/ Attach(r)
  BY <1>1, <1>3 DEF Like, Bookmark, Attach, InitialsOf
<1>4. CASE StartChat(r) \/ DeleteChat(r) \/ Rename(r) \/ SetPersona(r) \/ SaveSettings(r)
             \/ Choose(r) \/ Send(r)
  <2>1. UNCHANGED library
    BY <1>4 DEF StartChat, DeleteChat, Rename, SetPersona, SaveSettings, Choose, Send
  <2> QED
    BY <1>1, <2>1 DEF library, InitialsOf
<1>5. CASE Update(r)
  <2>1. req[r].op = "update" /\ UNCHANGED initials
    BY <1>5 DEF Update, Serving
  <2>2. req[r].thing # t => Same
    BY <1>2, <1>5 DEF Update, InitialsOf
  <2> QED
    BY <1>1, <2>1, <2>2 DEF OwnerOps
<1>6. CASE AppendToPrompt(r)
  <2>1. req[r].op = "append" /\ UNCHANGED <<owner, public, initials>>
    BY <1>6 DEF AppendToPrompt, Serving
  <2>2. req[r].thing # t => Same
    BY <1>2, <1>6 DEF AppendToPrompt, InitialsOf
  <2> QED
    BY <1>1, <2>1, <2>2 DEF OwnerOps
<1>7. CASE Delete(r)
  <2>1. req[r].op = "delete" /\ UNCHANGED prompt
    BY <1>7 DEF Delete, Serving
  <2>2. CASE ~Exists(req[r].thing)
    BY <1>1, <1>7, <2>1, <2>2 DEF Delete, InitialsOf
  <2>3. CASE Exists(req[r].thing)
    <3>1. /\ owner' = [o \in Things |-> IF o \in Doomed({}, {req[r].thing}) THEN Gone ELSE owner[o]]
          /\ public' = public \ Doomed({}, {req[r].thing})
          /\ initials' = initials \ DoomedTexts({}, {req[r].thing}, {})
      BY <1>7, <2>3 DEF Delete, Erase, Doomed, DoomedTexts
    <3>2. Doomed({}, {req[r].thing}) = {req[r].thing}
      BY DEF Doomed
    <3>3. DoomedTexts({}, {req[r].thing}, {}) = {m \in initials : SceneOf[m] = req[r].thing}
      BY <3>2 DEF DoomedTexts
    <3>4. req[r].thing # t => Same
      BY <2>1, <3>1, <3>2, <3>3 DEF InitialsOf
    <3> QED
      BY <1>1, <2>1, <3>4 DEF OwnerOps
  <2> QED
    BY <2>2, <2>3
<1>8. CASE DeleteInitial(r)
  <2>1. /\ req[r].op = "deleteInitial" /\ UNCHANGED prompt /\ req[r].thing = SceneOf[req[r].arg]
    BY <1>8, Served DEF DeleteInitial, ArgsOK, Serving
  <2>2. /\ owner' = [o \in Things |-> IF o \in Doomed({}, {}) THEN Gone ELSE owner[o]]
        /\ public' = public \ Doomed({}, {})
        /\ initials' = initials \ DoomedTexts({}, {}, {req[r].arg})
    BY <1>8 DEF DeleteInitial, Erase, Doomed, DoomedTexts
  <2>3. Doomed({}, {}) = {}
    BY DEF Doomed
  <2>4. DoomedTexts({}, {}, {req[r].arg}) = {req[r].arg}
    BY <2>3 DEF DoomedTexts
  <2>5. req[r].thing # t => Same
    BY <2>1, <2>2, <2>3, <2>4 DEF InitialsOf
  <2> QED
    BY <1>1, <2>1, <2>5 DEF OwnerOps
<1>9. CASE DeleteUser(r)
  BY <1>9 DEF DeleteUser, Serving
<1> QED
  BY <1>3, <1>4, <1>5, <1>6, <1>7, <1>8, <1>9 DEF Write

-----------------------------------------------------------------------------
(* The action properties: one step of a state that satisfies LibraryInv.   *)

LEMMA ReadOnlyStep == LibraryInv /\ [Next]_vars => ReadOnlyStays
<1> SUFFICES ASSUME LibraryInv, [Next]_vars, NEW c \in Chats,
                    HasChat(c), ~Writable(c), HasChat(c)'
             PROVE  /\ chats'[c].scene = None /\ chats'[c].greeted = chats[c].greeted
                    /\ \A r \in Requests :
                         (Step(r) /\ req[r].chat = c /\ chats'[c] # chats[c])
                           => req[r].met \cap {"delete", "deleteUser"} # {}
  BY DEF ReadOnlyStays
<1>1. CASE chats'[c] = chats[c]
  BY <1>1 DEF Writable
<1>2. ASSUME NEW r \in Requests, Write(r), chats'[c] # chats[c]
      PROVE  /\ chats'[c].scene = None /\ chats'[c].greeted = chats[c].greeted
             /\ req[r].chat = c => req[r].met \cap {"delete", "deleteUser"} # {}
  <2>1. chats'[c].scene = None
    BY <1>2, WriteKeeps DEF Kept, Moves, HasChat, Writable
  <2>2. chats'[c].greeted = chats[c].greeted
    BY <1>2, ChatChange DEF HasChat
  <2>3. req[r] # None /\ ArgsOK(req[r]) /\ Checked(req[r])
    BY <1>2, ChatChange DEF Step, LibraryInv, RequestsOK
  <2>4. req[r].chat = c => req[r].op \in ChatOps
    BY <1>2, <2>3, ChatChange, NobodyAssumption DEF HasChat, ArgsOK, ChatOps
  <2> QED
    BY <2>1, <2>2, <2>3, <2>4 DEF Checked, ChatChecked
<1> QED
  BY <1>1, <1>2, StepCases, OneStep DEF Adds

LEMMA OwnersStep == LibraryInv /\ [Next]_vars => OwnersOnly
<1> SUFFICES ASSUME LibraryInv, [Next]_vars, NEW r \in Requests, NEW t \in Things, Step(r),
                    Exists(t), owner[t] # req[r].user, req[r].op # "deleteUser",
                    \/ ~Exists(t)' \/ owner'[t] # owner[t] \/ (t \in public) # (t \in public')
                    \/ (t \in Scenes /\ InitialsOf(t) # InitialsOf(t)')
                    \/ (t \in Characters /\ prompt'[t] # prompt[t])
             PROVE  "update" \in req[r].met
  BY DEF OwnersOnly
<1>1. Write(r)
  <2>1. ~UNCHANGED library
    BY DEF library, Exists, InitialsOf
  <2> QED
    BY <2>1, StepCases, OneStep DEF Adds
<1>2. req[r].op \in OwnerOps /\ req[r].thing = t
  BY <1>1, ThingChange
<1>3. Checked(req[r])
  BY DEF Step, LibraryInv, RequestsOK
<1> QED
  BY <1>2, <1>3 DEF Checked, OwnerChecked

LEMMA SurviveStep == LibraryInv /\ [Next]_vars => OthersChatsSurvive
<1> SUFFICES ASSUME LibraryInv, [Next]_vars, NEW c \in Chats, HasChat(c), ~HasChat(c)'
             PROVE  \/ chats[c].user \notin users'
                    \/ \E r \in Requests : /\ Step(r) /\ req[r].op = "deleteChat"
                                           /\ req[r].user = chats[c].user
  BY DEF OthersChatsSurvive
<1>1. PICK r \in Requests : Write(r)
  BY StepCases DEF Adds, HasChat
<1>2. chats'[c] \notin ChatRow /\ chats'[c] # chats[c]
  BY RowsAssumption DEF HasChat
<1>3. Step(r) /\ (chats[c].user \notin users' \/ (req[r].op = "deleteChat" /\ req[r].chat = c))
  BY <1>1, <1>2, ChatChange
<1>4. Checked(req[r])
  BY <1>3 DEF Step, LibraryInv, RequestsOK
<1> QED
  BY <1>3, <1>4 DEF Checked, OwnerChecked

LEMMA ChoiceStep == LibraryInv /\ [Next]_vars => ChoiceStands
<1> SUFFICES ASSUME LibraryInv, [Next]_vars, NEW c \in Chats, HasChat(c), chats[c].initial # None,
                    HasChat(c)', chats'[c].initial = None, chats'[c].scene # None
             PROVE  \E r \in Requests : Step(r) /\ req[r].op = "deleteInitial" /\ "choose" \in req[r].met
  BY DEF ChoiceStands
<1>1. PICK r \in Requests : Write(r)
  BY StepCases DEF Adds
<1>2. Step(r) /\ req[r].op = "deleteInitial" /\ req[r].arg = chats[c].initial
  BY <1>1, ChatChange DEF HasChat
<1>3. Checked(req[r])
  BY <1>2 DEF Step, LibraryInv, RequestsOK
<1>4. c \in ChatsOn(req[r].arg)
  BY <1>2 DEF ChatsOn
<1> QED
  BY <1>2, <1>3, <1>4 DEF Checked, TextChecked

LEMMA LastInitialStep == LibraryInv /\ [Next]_vars => LastInitialOnlyInRace
<1> SUFFICES ASSUME LibraryInv, [Next]_vars, NEW s \in Scenes, Exists(s), Exists(s)',
                    InitialsOf(s) # {}, InitialsOf(s)' = {}
             PROVE  \E r \in Requests : /\ Step(r) /\ req[r].op = "deleteInitial"
                                        /\ "deleteInitial" \in req[r].met
  BY DEF LastInitialOnlyInRace
<1>0. s \in Things
  BY DEF Things
<1>1. PICK m : m \in initials /\ SceneOf[m] = s
  BY DEF InitialsOf
<1>2. \A o \in initials' : SceneOf[o] # s
  BY DEF InitialsOf
<1>3. PICK r \in Requests : Write(r)
  BY <1>1, <1>2, StepCases DEF Adds, library
<1>4. Step(r)
  <2>1. req[r] # None
    BY <1>3 DEF Write, Serving, Delete, Update, AppendToPrompt, Like, Bookmark, Attach, DeleteInitial,
           StartChat, DeleteChat, Rename, SetPersona, SaveSettings, Choose, Send, DeleteUser
  <2> QED
    BY <1>3, <2>1, WriteKeeps, CommitReq DEF Step, LibraryInv
<1>5. req[r].op = "deleteInitial" /\ \A o \in initials : SceneOf[o] = s => o = req[r].arg
  <2>1. CASE DeleteInitial(r)
    <3>1. initials' = initials \ DoomedTexts({}, {}, {req[r].arg}) /\ req[r].op = "deleteInitial"
      BY <2>1 DEF DeleteInitial, Erase, Doomed, DoomedTexts, Serving
    <3>2. DoomedTexts({}, {}, {req[r].arg}) = {req[r].arg}
      BY DEF DoomedTexts, Doomed
    <3> QED
      BY <1>2, <3>1, <3>2
  <2>2. ASSUME NEW goneUsers, NEW goneThings, Erase(goneUsers, goneThings, {})
        PROVE  FALSE
    <3>1. /\ owner' = [o \in Things |-> IF o \in Doomed(goneUsers, goneThings) THEN Gone ELSE owner[o]]
          /\ initials' = initials \ DoomedTexts(goneUsers, goneThings, {})
      BY <2>2 DEF Erase, Doomed, DoomedTexts
    <3>2. s \in Doomed(goneUsers, goneThings)
      BY <1>1, <1>2, <3>1 DEF DoomedTexts
    <3> QED
      BY <1>0, <3>1, <3>2, NobodyAssumption DEF Exists
  <2>3. ~Delete(r) /\ ~DeleteUser(r)
    BY <1>1, <1>2, <2>2 DEF Delete, DeleteUser
  <2>4. ~(Update(r) \/ AppendToPrompt(r) \/ Like(r) \/ Bookmark(r) \/ Attach(r))
    BY <1>1, <1>2 DEF Update, AppendToPrompt, Like, Bookmark, Attach
  <2>5. ~(StartChat(r) \/ DeleteChat(r) \/ Rename(r) \/ SetPersona(r) \/ SaveSettings(r)
            \/ Choose(r) \/ Send(r))
    BY <1>1, <1>2 DEF StartChat, DeleteChat, Rename, SetPersona, SaveSettings, Choose, Send, library
  <2> QED
    BY <1>3, <2>1, <2>3, <2>4, <2>5 DEF Write
<1>6. ArgsOK(req[r]) /\ Checked(req[r])
  BY <1>4 DEF Step, LibraryInv, RequestsOK
<1>7. req[r].arg = m /\ req[r].thing = s
  BY <1>1, <1>5, <1>6 DEF ArgsOK
<1> QED
  BY <1>1, <1>4, <1>5, <1>6, <1>7 DEF Checked, TextChecked

LEMMA AtomicStep == LibraryInv /\ [Next]_vars => GreetedOnce /\ AppendsSurvive
<1> SUFFICES ASSUME LibraryInv, [Next]_vars
             PROVE  GreetedOnce /\ AppendsSurvive
  OBVIOUS
<1>1. GreetedOnce
  BY StepCases, ChatChange DEF GreetedOnce, Adds
<1>2. ASSUME NEW c \in Characters, ~(prompt[c] \subseteq prompt'[c])
      PROVE  \E r \in Requests : Step(r) /\ req[r].op = "update" /\ req[r].thing = c
  <2>1. PICK r \in Requests : Write(r)
    BY <1>2, StepCases DEF Adds, library
  <2>2. Update(r) \/ AppendToPrompt(r)
    BY <1>2, <2>1 DEF Write, Delete, Like, Bookmark, Attach, DeleteInitial, StartChat, DeleteChat,
      Rename, SetPersona, SaveSettings, Choose, Send, DeleteUser, library
  <2>3. prompt \in [Characters -> SUBSET Requests]
    BY DEF LibraryInv, Typed, TypeOK
  <2>4. ~AppendToPrompt(r)
    BY <1>2, <2>3 DEF AppendToPrompt, PromptWith
  <2>5. req[r].op = "update" /\ req[r].thing = c /\ req[r] # None
    BY <1>2, <2>2, <2>3, <2>4 DEF Update, Serving
  <2>6. Step(r)
    BY <2>1, <2>5, WriteKeeps, CommitReq DEF Step, LibraryInv
  <2> QED
    BY <2>5, <2>6
<1> QED
  BY <1>1, <1>2 DEF AppendsSurvive

\* Who may change what: the owner, whoever was it when the request was
\* checked, and in a chat without its scene only who had found it there.
THEOREM RightsAlwaysHold == Spec => RightsHold
<1>1. LibraryInv /\ [Next]_vars => [ReadOnlyStays /\ OwnersOnly /\ OthersChatsSurvive]_vars
  BY ReadOnlyStep, OwnersStep, SurviveStep
<1> QED
  BY <1>1, AlwaysInv, PTL DEF Spec, RightsHold

\* Of the rules about initial messages only a delete that overlapped the
\* choice, or another delete, makes an exception.
THEOREM InitialsBreakOnlyInRace == Spec => InitialsBreakInRace
<1>1. LibraryInv /\ [Next]_vars => [ChoiceStands /\ LastInitialOnlyInRace]_vars
  BY ChoiceStep, LastInitialStep
<1> QED
  BY <1>1, AlwaysInv, PTL DEF Spec, InitialsBreakInRace

\* The greeting is seeded once for each choice, and appends are not lost.
THEOREM WritesAreAtomic == Spec => AtomicWrites
<1>1. LibraryInv /\ [Next]_vars => [GreetedOnce /\ AppendsSurvive]_vars
  BY AtomicStep
<1> QED
  BY <1>1, AlwaysInv, PTL DEF Spec, AtomicWrites
=============================================================================
