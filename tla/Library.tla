------------------------------ MODULE Library ------------------------------
(***************************************************************************)
(* Scenes, characters and the chats that are played from them: the CRUD    *)
(* handlers of src/controllers/api/v1/{scenes,characters,chats,users}.py,  *)
(* the services behind them and the rows they leave (src/infrastructure/   *)
(* database/models.py).                                                    *)
(*                                                                         *)
(* Nearly every handler first reads rows and checks them, and only then    *)
(* opens the unit of work that writes; at READ COMMITTED the checked rows  *)
(* may have changed in between.  An operation Op is therefore two actions, *)
(* AskOp (the checks) and Op (the write, its own conditions, commit), and  *)
(* req[r] is what the request holds from one to the other.  A request      *)
(* whose write finds no row, breaks a foreign key or loses its database    *)
(* ends in Fail: the session is rolled back.                               *)
(*                                                                         *)
(* Texts are abstracted, except that prompt[c] records which additions are *)
(* in a character's system_prompt.  Row ids are never used twice.          *)
(***************************************************************************)
EXTENDS Absent, FiniteSets, Integers

CONSTANTS Users, Scenes, Characters, Chats, Requests,
          Initials,     \* the initial messages that get written
          SceneOf,      \* scene_initial_messages.scene_id, fixed at the insert
          Scenarios     \* what to look at: the operations, whose requests, on which rows

Things == Scenes \cup Characters

ASSUME SceneOfAssumption == SceneOf \in [Initials -> Scenes]
ASSUME KindsAssumption == Scenes \cap Characters = {}
ASSUME NobodyAssumption ==
  {None, Unborn, Gone} \cap (Users \cup Things \cup Chats \cup Initials) = {}
ASSUME ScenariosAssumption ==
  Scenarios \subseteq [ops : SUBSET STRING, users : SUBSET Users, things : SUBSET Things]

\* The operations; the second are those that a check of another can miss.
Marks == {"like", "unlike", "bookmark", "unbookmark"}
Overtaking == {"choose", "deleteInitial", "delete", "deleteUser", "update"}
Operations ==
  Marks \cup Overtaking \cup
  {"append", "attach", "start", "deleteChat", "rename", "persona", "settings", "send"}

ChatRow ==
  [user : Users, scene : Scenes \cup {None}, persona : Characters \cup {None},
   initial : Initials \cup {None}, renamed : BOOLEAN, configured : BOOLEAN,
   greeted : Nat, told : BOOLEAN]

\* The body of an update, see Update.
Body == [owner : Users \cup {None}, shared : BOOLEAN, prompt : SUBSET Requests]

\* What is asked: arg is a persona, a text, characters, additions or a body.
RequestRow ==
  [op : Operations, user : Users, thing : Things \cup {None}, chat : Chats \cup {None},
   arg : {None} \cup Characters \cup Initials \cup Body \cup (SUBSET Characters) \cup (SUBSET Requests),
   met : SUBSET Overtaking]

ASSUME RowsAssumption ==
  {None, Unborn, Gone} \cap ChatRow = {} /\ None \notin RequestRow

VARIABLES
  users,      \* rows of users
  owner,      \* owner_id of each scene and character, Unborn or Gone when there is no row
  public,     \* is_public
  initials,   \* rows of scene_initial_messages
  attached,   \* rows of character_scene
  likes,      \* rows of scene_likes and character_likes
  bookmarks,  \* rows of scene_bookmarks and character_bookmarks
  prompt,     \* the additions a character's system_prompt contains
  chats,      \* rows of chats with their settings and messages
  req,        \* the request in each slot, None when there is none
  scenario    \* what this behaviour is about

library == <<users, owner, public, initials, attached, likes, bookmarks, prompt>>
vars == <<library, chats, req, scenario>>

Exists(t) == owner[t] \in Users
HasChat(c) == chats[c] \notin {Unborn, Gone}
Writable(c) == chats[c].scene # None

NewChat(u, s, p) ==
  [user |-> u, scene |-> s, persona |-> p, initial |-> None,
   renamed |-> FALSE, configured |-> FALSE, greeted |-> 0, told |-> FALSE]

-----------------------------------------------------------------------------
(* Requests.  met collects which of the Overtaking operations, those that  *)
(* a check can miss, committed since r's checks.                           *)

Free(r, op, u) == req[r] = None /\ op \in scenario.ops /\ u \in scenario.users

Ask(r, op, u, thing, chat, arg) ==
  /\ Free(r, op, u)
  /\ req' = [req EXCEPT ![r] = [op |-> op, user |-> u, thing |-> thing, chat |-> chat,
                                arg |-> arg, met |-> {}]]
  /\ UNCHANGED <<library, chats, scenario>>

Serving(r, op) == req[r] # None /\ req[r].op = op

\* PostgresqlUOW.__aexit__ without an exception.
Commit(r, op) ==
  /\ req' = [q \in Requests |->
               IF q = r \/ req[q] = None THEN None ELSE [req[q] EXCEPT !.met = @ \cup ({op} \cap Overtaking)]]
  /\ UNCHANGED scenario

\* PostgresqlUOW.__aexit__ with one.
Fail(r) ==
  /\ req[r] # None
  /\ req' = [req EXCEPT ![r] = None]
  /\ UNCHANGED <<library, chats, scenario>>

-----------------------------------------------------------------------------
(* AuthorizationService.                                                   *)

VisibleTo(t, u) == Exists(t) /\ (t \in public \/ owner[t] = u)

Owned(t, u) == Exists(t) /\ owner[t] = u

OwnedChat(c, u) == HasChat(c) /\ chats[c].user = u

-----------------------------------------------------------------------------
(* The foreign keys.                                                       *)

\* The form of DropJoins that leaves the characters attached.
DropJoinsOfScenes(things, goneUsers) ==
  /\ attached' = {a \in attached : a[1] \notin things}
  /\ likes' = {l \in likes : l[1] \notin things /\ l[2] \notin goneUsers}
  /\ bookmarks' = {b \in bookmarks : b[1] \notin things /\ b[2] \notin goneUsers}

\* character_scene, the likes and the bookmarks: ON DELETE CASCADE.
DropJoins(things, goneUsers) ==
  /\ attached' = {a \in attached : a[1] \notin things /\ a[2] \notin things}
  /\ likes' = {l \in likes : l[1] \notin things /\ l[2] \notin goneUsers}
  /\ bookmarks' = {b \in bookmarks : b[1] \notin things /\ b[2] \notin goneUsers}

\* The form of ChatAfter in which scene_id cascades too.
ChatAfterCascade(row, goneUsers, things, texts) ==
  IF row \in {Unborn, Gone} THEN row
  ELSE IF row.user \in goneUsers \/ row.scene \in things THEN Gone
  ELSE [row EXCEPT !.persona = IF @ \in things THEN None ELSE @,
                   !.initial = IF @ \in texts THEN None ELSE @]

\* chats: user_id cascades, the three others are SET NULL.
ChatAfter(row, goneUsers, things, texts) ==
  IF row \in {Unborn, Gone} THEN row
  ELSE IF row.user \in goneUsers THEN Gone
  ELSE [row EXCEPT !.scene = IF @ \in things THEN None ELSE @,
                   !.persona = IF @ \in things THEN None ELSE @,
                   !.initial = IF @ \in texts THEN None ELSE @]

\* characters, scenes and scene_initial_messages cascade from their parents.
Erase(goneUsers, goneThings, goneInitials) ==
  LET things == goneThings \cup {t \in Things : owner[t] \in goneUsers}
      texts == goneInitials \cup {m \in initials : SceneOf[m] \in things}
  IN /\ users' = users \ goneUsers
     /\ owner' = [t \in Things |-> IF t \in things THEN Gone ELSE owner[t]]
     /\ public' = public \ things
     /\ initials' = initials \ texts
     /\ DropJoins(things, goneUsers)
     /\ chats' = [c \in Chats |-> ChatAfter(chats[c], goneUsers, things, texts)]

-----------------------------------------------------------------------------
(* Scenes and characters.                                                  *)

\* POST /scenes: the scene and its initial messages in one unit of work.
CreateScene(r, u, s, ms, shared) ==
  /\ Free(r, "create", u) /\ s \in scenario.things
  /\ owner[s] = Unborn /\ u \in users
  /\ ms # {} /\ \A m \in ms : SceneOf[m] = s
  /\ owner' = [owner EXCEPT ![s] = u]
  /\ public' = IF shared THEN public \cup {s} ELSE public
  /\ initials' = initials \cup ms
  /\ Commit(r, "create")
  /\ UNCHANGED <<users, attached, likes, bookmarks, prompt, chats>>

\* POST /characters.
CreateCharacter(r, u, c, shared) ==
  /\ Free(r, "create", u) /\ c \in scenario.things
  /\ owner[c] = Unborn /\ u \in users
  /\ owner' = [owner EXCEPT ![c] = u]
  /\ public' = IF shared THEN public \cup {c} ELSE public
  /\ Commit(r, "create")
  /\ UNCHANGED <<users, initials, attached, likes, bookmarks, prompt, chats>>

AskDelete(r, u, t) == Owned(t, u) /\ Ask(r, "delete", u, t, None, None)

\* DELETE: no row count is looked at, a second delete is a success too.
Delete(r) ==
  /\ Serving(r, "delete")
  /\ IF Exists(req[r].thing)
     THEN Erase({}, {req[r].thing}, {})
     ELSE UNCHANGED <<users, owner, public, initials, attached, likes, bookmarks, chats>>
  /\ Commit(r, "delete")
  /\ UNCHANGED prompt

\* The body of an update is the whole entity: visibility, the prompt as the
\* client last saw it, and possibly another owner.
AskUpdate(r, u, t, body) == Owned(t, u) /\ Ask(r, "update", u, t, None, body)

Bodies(t) ==
  [owner : Users \cup {None}, shared : BOOLEAN,
   prompt : IF t \in Characters THEN SUBSET prompt[t] ELSE {{}}]

\* The form of OwnerAfter that takes the body's owner_id as it comes.
OwnerFromBody(t, body) == body.owner

\* owner_id is written only when the body has one.
OwnerAfter(t, body) == IF body.owner = None THEN owner[t] ELSE body.owner

Update(r) ==
  /\ Serving(r, "update")
  /\ LET t == req[r].thing
         body == req[r].arg
     IN /\ body.owner = None \/ body.owner \in users
        /\ IF ~Exists(t) THEN UNCHANGED <<owner, public, prompt>>
           ELSE /\ owner' = [owner EXCEPT ![t] = OwnerAfter(t, body)]
                /\ public' = IF body.shared THEN public \cup {t} ELSE public \ {t}
                /\ prompt' = IF t \in Characters THEN [prompt EXCEPT ![t] = body.prompt] ELSE prompt
  /\ Commit(r, "update")
  /\ UNCHANGED <<users, initials, attached, likes, bookmarks, chats>>

\* append_to_system_prompt (a lorebook import): concatenation in SQL.  What
\* the request read meanwhile (arg) is not used.
AskAppend(r, u, c) == Owned(c, u) /\ Ask(r, "append", u, c, None, prompt[c])

\* The form of PromptWith that writes back what was read.
PromptRewritten(c, addition, seen) == seen \cup {addition}

PromptWith(c, addition, seen) == prompt[c] \cup {addition}

AppendToPrompt(r) ==
  /\ Serving(r, "append")
  /\ LET c == req[r].thing
     IN prompt' = IF Exists(c)
                  THEN [prompt EXCEPT ![c] = PromptWith(c, r, req[r].arg)]
                  ELSE prompt
  /\ Commit(r, "append")
  /\ UNCHANGED <<users, owner, public, initials, attached, likes, bookmarks, chats>>

-----------------------------------------------------------------------------
(* Likes and bookmarks.  get_one and the write share the unit of work, but *)
(* not the snapshot.                                                       *)

\* set_like, unset_like and their twins, ON CONFLICT DO NOTHING.
MarkKeysHold(r) == Exists(req[r].thing) /\ req[r].user \in users

AskMark(r, u, t, mark) == VisibleTo(t, u) /\ Ask(r, mark, u, t, None, None)

Like(r) ==
  /\ \/ Serving(r, "like") /\ MarkKeysHold(r) /\ likes' = likes \cup {<<req[r].thing, req[r].user>>}
     \/ Serving(r, "unlike") /\ likes' = likes \ {<<req[r].thing, req[r].user>>}
  /\ Commit(r, req[r].op)
  /\ UNCHANGED <<users, owner, public, initials, attached, bookmarks, prompt, chats>>

Bookmark(r) ==
  /\ \/ /\ Serving(r, "bookmark") /\ MarkKeysHold(r)
        /\ bookmarks' = bookmarks \cup {<<req[r].thing, req[r].user>>}
     \/ Serving(r, "unbookmark") /\ bookmarks' = bookmarks \ {<<req[r].thing, req[r].user>>}
  /\ Commit(r, req[r].op)
  /\ UNCHANGED <<users, owner, public, initials, attached, likes, prompt, chats>>

\* POST /scenes/{id}/characters: the owner's scene, characters she may see.
AskAttach(r, u, s, cs) ==
  /\ VisibleTo(s, u) /\ owner[s] = u
  /\ \A c \in cs : VisibleTo(c, u)
  /\ Ask(r, "attach", u, s, None, cs)

Attach(r) ==
  /\ Serving(r, "attach")
  /\ \A t \in {req[r].thing} \cup req[r].arg : Exists(t)
  /\ attached' = attached \cup ({req[r].thing} \X req[r].arg)
  /\ Commit(r, "attach")
  /\ UNCHANGED <<users, owner, public, initials, likes, bookmarks, prompt, chats>>

-----------------------------------------------------------------------------
(* Initial messages.                                                       *)

InitialsOf(s) == {m \in initials : SceneOf[m] = s}
ChatsOn(m) == {c \in Chats : HasChat(c) /\ chats[c].initial = m}

\* The form of Deletable that forgets its second check.
DeletableLast(m) == ChatsOn(m) = {}

\* The two checks of InitialMessageService.delete.
Deletable(m) == ChatsOn(m) = {} /\ Cardinality(InitialsOf(SceneOf[m])) > 1

AskDeleteInitial(r, u, m) ==
  /\ m \in initials /\ Owned(SceneOf[m], u)
  /\ Deletable(m)
  /\ Ask(r, "deleteInitial", u, SceneOf[m], None, m)

DeleteInitial(r) ==
  /\ Serving(r, "deleteInitial")
  /\ req[r].arg \in initials
  /\ Erase({}, {}, {req[r].arg})
  /\ Commit(r, "deleteInitial")
  /\ UNCHANGED prompt

-----------------------------------------------------------------------------
(* Chats.                                                                  *)

\* POST /chats: the persona must be visible, the scene must exist.
AskStart(r, u, c, s, p) ==
  /\ chats[c] = Unborn
  /\ p # None => VisibleTo(p, u)
  /\ Ask(r, "start", u, s, c, p)

StartChat(r) ==
  /\ Serving(r, "start")
  /\ chats[req[r].chat] = Unborn
  /\ req[r].user \in users /\ Exists(req[r].thing)
  /\ req[r].arg # None => Exists(req[r].arg)
  /\ chats' = [chats EXCEPT ![req[r].chat] = NewChat(req[r].user, req[r].thing, req[r].arg)]
  /\ Commit(r, "start")
  /\ UNCHANGED library

AskDeleteChat(r, u, c) == OwnedChat(c, u) /\ Ask(r, "deleteChat", u, None, c, None)

DeleteChat(r) ==
  /\ Serving(r, "deleteChat")
  /\ HasChat(req[r].chat)
  /\ chats' = [chats EXCEPT ![req[r].chat] = Gone]
  /\ Commit(r, "deleteChat")
  /\ UNCHANGED library

\* POST /chats/update: the title.
AskRename(r, u, c) ==
  OwnedChat(c, u) /\ Writable(c) /\ Ask(r, "rename", u, None, c, None)

Rename(r) ==
  /\ Serving(r, "rename")
  /\ HasChat(req[r].chat)
  /\ chats' = [chats EXCEPT ![req[r].chat].renamed = TRUE]
  /\ Commit(r, "rename")
  /\ UNCHANGED library

\* POST /chats/{id}/persona.
AskPersona(r, u, c, p) ==
  /\ VisibleTo(p, u)
  /\ OwnedChat(c, u) /\ Writable(c)
  /\ Ask(r, "persona", u, p, c, None)

SetPersona(r) ==
  /\ Serving(r, "persona")
  /\ Exists(req[r].thing) /\ HasChat(req[r].chat)
  /\ chats' = [chats EXCEPT ![req[r].chat].persona = req[r].thing]
  /\ Commit(r, "persona")
  /\ UNCHANGED library

\* PUT /chats/{id}/settings.
AskSettings(r, u, c) ==
  OwnedChat(c, u) /\ Writable(c) /\ Ask(r, "settings", u, None, c, None)

SaveSettings(r) ==
  /\ Serving(r, "settings")
  /\ HasChat(req[r].chat)
  /\ chats' = [chats EXCEPT ![req[r].chat].configured = TRUE]
  /\ Commit(r, "settings")
  /\ UNCHANGED library

\* The form of AskChoose that takes the greeting of any scene.
AskChooseAny(r, u, c, m) ==
  /\ OwnedChat(c, u) /\ Writable(c)
  /\ m \in initials
  /\ chats[c].initial = None
  /\ Ask(r, "choose", u, None, c, m)

\* POST /chats/{id}/initial-message.
AskChoose(r, u, c, m) ==
  /\ OwnedChat(c, u) /\ Writable(c)
  /\ m \in initials /\ SceneOf[m] = chats[c].scene
  /\ chats[c].initial = None
  /\ Ask(r, "choose", u, None, c, m)

\* set_initial_message: UPDATE ... WHERE initial_message_id IS NULL.
StillOpen(c) == chats[c].initial = None

\* The greeting is a model message of the chat, in the same unit of work.
Choose(r) ==
  /\ Serving(r, "choose")
  /\ HasChat(req[r].chat) /\ StillOpen(req[r].chat)
  /\ req[r].arg \in initials
  /\ chats' = [chats EXCEPT ![req[r].chat].initial = req[r].arg, ![req[r].chat].greeted = @ + 1]
  /\ Commit(r, "choose")
  /\ UNCHANGED library

\* POST /messages, up to the user's row: an empty chat is told to choose an
\* initial message first.
AskSend(r, u, c) ==
  /\ OwnedChat(c, u) /\ Writable(c)
  /\ chats[c].greeted > 0 \/ chats[c].told \/ chats[c].initial # None
  /\ Ask(r, "send", u, None, c, None)

Send(r) ==
  /\ Serving(r, "send")
  /\ HasChat(req[r].chat)
  /\ chats' = [chats EXCEPT ![req[r].chat].told = TRUE]
  /\ Commit(r, "send")
  /\ UNCHANGED library

-----------------------------------------------------------------------------
(* Users.  A token outlives its user: requests of a deleted one go on.     *)

AskDeleteUser(r, u) == u \in users /\ Ask(r, "deleteUser", u, None, None, None)

DeleteUser(r) ==
  /\ Serving(r, "deleteUser")
  /\ req[r].user \in users
  /\ Erase({req[r].user}, {}, {})
  /\ Commit(r, "deleteUser")
  /\ UNCHANGED prompt

-----------------------------------------------------------------------------
Init ==
  /\ users = Users
  /\ owner = [t \in Things |-> Unborn]
  /\ public = {} /\ initials = {}
  /\ attached = {} /\ likes = {} /\ bookmarks = {}
  /\ prompt = [c \in Characters |-> {}]
  /\ chats = [c \in Chats |-> Unborn]
  /\ req = [r \in Requests |-> None]
  /\ scenario \in Scenarios

\* The handlers of scenes.py and characters.py.
ThingRequest(r, u, t) ==
  \/ AskDelete(r, u, t)
  \/ \E body \in Bodies(t) : AskUpdate(r, u, t, body)
  \/ \E mark \in Marks : AskMark(r, u, t, mark)

SceneRequest(r, u) ==
  \E s \in Scenes :
    \/ \E ms \in SUBSET Initials, shared \in BOOLEAN : CreateScene(r, u, s, ms, shared)
    \/ ThingRequest(r, u, s)
    \/ \E cs \in SUBSET Characters : AskAttach(r, u, s, cs)
    \/ \E m \in Initials : SceneOf[m] = s /\ AskDeleteInitial(r, u, m)

CharacterRequest(r, u) ==
  \E c \in Characters :
    \/ \E shared \in BOOLEAN : CreateCharacter(r, u, c, shared)
    \/ ThingRequest(r, u, c)
    \/ AskAppend(r, u, c)

ChatRequest(r, u) ==
  \/ \E c \in Chats, s \in Scenes, p \in Characters \cup {None} : AskStart(r, u, c, s, p)
  \/ \E c \in Chats : \/ AskDeleteChat(r, u, c) \/ AskRename(r, u, c)
                      \/ AskSettings(r, u, c) \/ AskSend(r, u, c)
  \/ \E c \in Chats, p \in Characters : AskPersona(r, u, c, p)
  \/ \E c \in Chats, m \in Initials : AskChoose(r, u, c, m)
  \/ AskDeleteUser(r, u)

Write(r) ==
  \/ Delete(r) \/ Update(r) \/ AppendToPrompt(r) \/ Like(r) \/ Bookmark(r) \/ Attach(r)
  \/ DeleteInitial(r) \/ StartChat(r) \/ DeleteChat(r) \/ Rename(r) \/ SetPersona(r)
  \/ SaveSettings(r) \/ Choose(r) \/ Send(r) \/ DeleteUser(r)

Request(r, u) == SceneRequest(r, u) \/ CharacterRequest(r, u) \/ ChatRequest(r, u)

Next == \E r \in Requests : Write(r) \/ Fail(r) \/ \E u \in Users : Request(r, u)

Spec == Init /\ [][Next]_vars

-----------------------------------------------------------------------------
TypeOK ==
  /\ users \subseteq Users
  /\ owner \in [Things -> Users \cup {Unborn, Gone}]
  /\ public \subseteq Things /\ initials \subseteq Initials
  /\ attached \subseteq Scenes \X Characters
  /\ likes \subseteq Things \X Users /\ bookmarks \subseteq Things \X Users
  /\ prompt \in [Characters -> SUBSET Requests]
  /\ chats \in [Chats -> ChatRow \cup {Unborn, Gone}]

\* No row points at one that is gone: deletes cascade or reset every
\* reference, and writes that were checked before are refused by the keys.
NothingDangles ==
  /\ \A t \in Things : Exists(t) => owner[t] \in users
  /\ \A m \in initials : Exists(SceneOf[m])
  /\ \A a \in attached : Exists(a[1]) /\ Exists(a[2])
  /\ \A l \in likes \cup bookmarks : Exists(l[1]) /\ l[2] \in users
  /\ \A c \in Chats : HasChat(c) =>
       /\ chats[c].user \in users
       /\ chats[c].scene # None => Exists(chats[c].scene)
       /\ chats[c].persona # None => Exists(chats[c].persona)
       /\ chats[c].initial # None => chats[c].initial \in initials

\* The chosen initial message belongs to the scene the chat is played in
\* ("otherwise a user could seed an arbitrary scene's greeting into a chat",
\* ChatService.choose_initial_message), whatever was deleted since the check.
GreetingOfItsScene ==
  \A c \in Chats : HasChat(c) /\ chats[c].initial # None
                     => chats[c].scene = SceneOf[chats[c].initial]

\* Nobody talks in a chat before its greeting (the gate of send_message and
\* the choice are separate requests).
GreetedFirst == \A c \in Chats : HasChat(c) /\ chats[c].told => chats[c].greeted > 0

\* A chat opens with a greeting of its own scene, or not at all.
GreetingRight == GreetingOfItsScene /\ GreetedFirst

Step(r) == req[r] # None /\ req'[r] = None

\* While the scene is there, a choice is undone only by a delete of the
\* initial message that was checked before the choice was made.
ChoiceStands ==
  \A c \in Chats :
    (HasChat(c) /\ chats[c].initial # None /\ HasChat(c)' /\ chats'[c].initial = None
       /\ chats'[c].scene # None)
      => \E r \in Requests : Step(r) /\ req[r].op = "deleteInitial" /\ "choose" \in req[r].met

\* A scene loses its last initial message only when two deletes overlap.
LastInitialOnlyInRace ==
  \A s \in Scenes :
    (Exists(s) /\ Exists(s)' /\ InitialsOf(s) # {} /\ InitialsOf(s)' = {})
      => \E r \in Requests : Step(r) /\ req[r].op = "deleteInitial" /\ "deleteInitial" \in req[r].met

\* The rules about initial messages are broken by overlapping deletes only,
\* whose checks were made before (InitialMessageService.delete).
InitialsBreakInRace == [][ChoiceStands /\ LastInitialOnlyInRace]_vars

\* A chat whose scene is gone is read-only: only a request that had found it
\* writable before the scene went still changes it, and none greets in it.
ReadOnlyStays ==
  \A c \in Chats :
    (HasChat(c) /\ ~Writable(c) /\ HasChat(c)') =>
      /\ chats'[c].scene = None /\ chats'[c].greeted = chats[c].greeted
      /\ \A r \in Requests :
           (Step(r) /\ req[r].chat = c /\ chats'[c] # chats[c])
             => req[r].met \cap {"delete", "deleteUser"} # {}

\* What somebody else owns is changed only by a request that overlapped a
\* change of hands.
OwnersOnly ==
  \A r \in Requests, t \in Things :
    (Step(r) /\ Exists(t) /\ owner[t] # req[r].user /\ req[r].op # "deleteUser"
       /\ \/ ~Exists(t)' \/ owner'[t] # owner[t] \/ (t \in public) # (t \in public')
          \/ (t \in Scenes /\ InitialsOf(t) # InitialsOf(t)')
          \/ (t \in Characters /\ prompt'[t] # prompt[t]))
      => "update" \in req[r].met

\* A chat goes with its own user or by her delete, never with the scene, the
\* characters or the account of somebody else.
OthersChatsSurvive ==
  \A c \in Chats :
    (HasChat(c) /\ ~HasChat(c)')
      => \/ chats[c].user \notin users'
         \/ \E r \in Requests : Step(r) /\ req[r].op = "deleteChat" /\ req[r].user = chats[c].user

\* Who may change what holds through every interleaving of the requests with
\* the deletes and the changes of hands that their checks did not see.
RightsHold == [][ReadOnlyStays /\ OwnersOnly /\ OthersChatsSurvive]_vars

\* A chat gets a second greeting only after its chosen message was deleted
\* under it: two requests that both saw the chat without one seed it once.
GreetedOnce ==
  \A c \in Chats : HasChat(c) /\ chats[c].initial # None
    => chats'[c] \in {Gone} \/ chats'[c].greeted = chats[c].greeted

\* An addition is lost only when a whole-row update overwrites it: racing
\* appends all survive.
AppendsSurvive ==
  \A c \in Characters :
    ~(prompt[c] \subseteq prompt'[c])
      => \E r \in Requests : Step(r) /\ req[r].op = "update" /\ req[r].thing = c

\* The two writes that SQL makes conditional or relative do not depend on
\* what their requests read (ChatGateway.set_initial_message, CharacterGateway
\* .append_to_system_prompt).
AtomicWrites == [][GreetedOnce /\ AppendsSurvive]_vars
=============================================================================
