----------------------------- MODULE MCRecords -----------------------------
(***************************************************************************)
(* Small instances of what the backend does to its records, for TLC: the   *)
(* library, the images, an import, a search and an error response.  The    *)
(* five share no state, so one of them (part) is looked at in a behaviour  *)
(* and the others rest.                                                    *)
(***************************************************************************)
EXTENDS Library, MediaStorage, LorebookImport, Search, ErrorResponses, TLC

CONSTANTS u1, u2, s1, s2, a1, m1, m2, m3,   \* of the library
          k1, k2, k3, k4,                   \* images
          MaxItems, MaxRows                 \* bounds on a lorebook and on a table

VARIABLES part, input

parts == <<part, input>>
allVars == <<vars, mediaVars, parts>>

-----------------------------------------------------------------------------
(* The library.                                                            *)

\* Two initial messages of one scene, one of another.
MCSceneOf == (m1 :> s1) @@ (m2 :> s1) @@ (m3 :> s2)

About(ops, us, things) == [ops |-> ops \cup {"create"}, users |-> us, things |-> things]

\* The greeting of a chat against deletes; the rights of users in a scene and
\* in a character that change hands; a chat against what it refers to; users.
Greeting == About({"deleteInitial", "start", "choose", "send", "delete"}, {u1}, {s1, s2})
ScenePassedOn == About({"update", "delete", "deleteInitial"}, {u1, u2}, {s1})
CharacterPassedOn == About({"update", "delete", "append"}, {u1, u2}, {a1})
Played == About({"start", "persona", "deleteChat", "delete"}, {u1, u2}, {s1, a1})
OwnChats == About({"start", "rename", "settings", "delete", "deleteUser"}, {u1, u2}, {s1})
Linked == About({"attach", "delete", "deleteUser"}, {u1, u2}, {s1, a1})
Marked == About({"like", "unlike", "bookmark", "unbookmark", "deleteUser", "delete"}, {u1, u2}, {a1})
Accounts == About({"start", "persona", "deleteUser"}, {u1, u2}, {s1, a1})

MCScenarios ==
  {Greeting, ScenePassedOn, CharacterPassedOn, Played, OwnChats, Linked, Marked, Accounts}

-----------------------------------------------------------------------------
(* Images: two of one import; an upload of either kind while the script    *)
(* runs; the script before and after a wipe; none.                         *)

MCPublic == {k1, k2, k4}
MCSessionOf == [k \in {k1, k2, k3} |-> IF k = k3 THEN "other" ELSE "import"]
Seeing(uploads, seeded, seedings) == [uploads |-> uploads, seeded |-> seeded, seedings |-> seedings]
MCSituations ==
  {Seeing({k1, k2}, {}, 0), Seeing({k1}, {k4}, 1), Seeing({k3}, {}, 1), Seeing({}, {k4}, 2), Seeing({}, {}, 0)}

Alike == Permutations({k1, k2}) \cup Permutations(Requests)

-----------------------------------------------------------------------------
(* An import: a file gets its entries, then the user chooses.              *)

MCLength == [short |-> 1, long |-> 2]

EmptyFile(card) == [chosen |-> FALSE, file |-> [items |-> <<>>, hasEntries |-> ~card, card |-> card]]

AddEntry(kind) ==
  /\ Len(input.file.items) < MaxItems
  /\ input' = [input EXCEPT !.file.items = Append(@, kind), !.file.hasEntries = TRUE]
  /\ UNCHANGED part

Choose1(selection, link, fails, unattached) ==
  /\ input' = [chosen |-> TRUE, file |-> input.file, selection |-> selection, link |-> link,
               failing |-> fails, unattached |-> unattached]
  /\ UNCHANGED part

AnImport ==
  LET keys == ToSet(Candidates(input.file)) \cup {Fallback}
  IN \E selection \in SUBSET (keys \ {Fallback}), link \in BOOLEAN, key \in keys :
       \E fails, unattached \in {{}, {key}} : Choose1(selection, link, fails, unattached)

-----------------------------------------------------------------------------
(* A search: a table gets its rows, then somebody asks.                    *)

Listing(kind) == [chosen |-> FALSE, kind |-> kind, rows |-> {}]

Row(kind) ==
  [id : {Cardinality(input.rows) + 1},
   owner : IF kind = "media" THEN {u1, None} ELSE {u1, u2},
   public : IF kind \in Shared THEN BOOLEAN ELSE {FALSE},
   key : IF kind \in {"scenes", "media", "messages"} THEN 1..2 ELSE {1},
   marks : IF kind \in {"scenes", "characters"} THEN {{}, {1, 2}} ELSE {{}}]

AddRow(row) ==
  /\ Cardinality(input.rows) < MaxRows
  /\ input' = [input EXCEPT !.rows = @ \cup {row}]
  /\ UNCHANGED part

AskFor(q, limit) ==
  /\ input' = [chosen |-> TRUE, q |-> q, rows |-> input.rows, limit |-> limit]
  /\ UNCHANGED part

ASearch ==
  \E actor \in {u1, None}, limit \in 0..1,
     marks \in IF input.kind \in {"scenes", "characters"} THEN {{}, {1, 2}} ELSE {{}},
     sort \in IF input.kind = "scenes" THEN {"none", "asc", "desc"} ELSE {"none"} :
    AskFor([kind |-> input.kind, actor |-> actor, marks |-> marks, sort |-> sort], limit)

-----------------------------------------------------------------------------
(* An exception.                                                           *)

Types ==
  DOMAIN StatusOf \cup Registered \cup {"KeyError", "ResourceExhausted", "PermissionDenied",
                                        "ServiceUnavailable", "GoogleAPICallError"}
Words == {"not found", "quota", "rate", "limit", "permission", "unavailable"}

Raise(type, words, status) ==
  /\ input' = [chosen |-> TRUE, type |-> type, words |-> words, status |-> status]
  /\ UNCHANGED part

AnError ==
  \E type \in Types \ {"BaseAPIException"}, words \in SUBSET Words :
    \E status \in IF type = "HTTPException" THEN {401, 403, 404, 413} ELSE {0} :
      Raise(type, words, status)

-----------------------------------------------------------------------------
NoMedia == seeder.left = 0 /\ \A k \in Keys : rows[k] = Unborn /\ (k \in Uploads => pc[k] = "unused")
Rest == scenario = Greeting /\ NoMedia

RecordsInit ==
  /\ Init /\ MediaInit
  /\ \/ part = "library" /\ input = None /\ NoMedia
     \/ part = "media" /\ input = None /\ scenario = Greeting
     \/ part = "import" /\ Rest /\ input \in {EmptyFile(card) : card \in BOOLEAN}
     \/ part = "search" /\ Rest /\ input \in {Listing(kind) : kind \in Shared \cup Private \cup {"users"}}
     \/ part = "error" /\ Rest /\ input = [chosen |-> FALSE]

InputNext ==
  \/ part = "import" /\ ~input.chosen /\ (AnImport \/ \E kind \in Kinds : AddEntry(kind))
  \/ part = "search" /\ ~input.chosen /\ (ASearch \/ \E row \in Row(input.kind) : AddRow(row))
  \/ part = "error" /\ ~input.chosen /\ AnError

RecordsNext ==
  \/ part = "library" /\ Next /\ UNCHANGED <<mediaVars, parts>>
  \/ part = "media" /\ MediaNext /\ UNCHANGED <<vars, parts>>
  \/ InputNext /\ UNCHANGED <<vars, mediaVars>>

RecordsSpec == RecordsInit /\ [][RecordsNext]_allVars

-----------------------------------------------------------------------------
Chosen(what) == part = what /\ input.chosen

\* Rows, requests, uploads and the script's state keep their types.
RecordsTypeOK == TypeOK /\ MediaTypeOK

\* "import-all delivers exactly what preview promised", and a selection brings
\* nothing that was not selected (ImportService).
PreviewIsKept == Chosen("import") => ImportKeepsPreview(input)

\* The result of an import accounts for every candidate, and its scenes have
\* their own pictures, characters and lore, whichever of the writes failed.
ImportIsAccounted == Chosen("import") => ImportAddsUp(input)

\* Sorted pages cover every row once, counts are counts of rows, and nobody
\* sees what is private (the search methods of the gateways).
ListingsAnswer == Chosen("search") => ListingAnswers(input.q, input.rows, input.limit)

\* What is missing is a 404, and a blamed client keeps his connection
\* (global_exception_handler and register_exception_handlers).
ErrorsKeepMeaning == Chosen("error") => ErrorKeepsMeaning(input)
=============================================================================
