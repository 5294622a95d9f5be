--------------------------- MODULE LorebookImport ---------------------------
(***************************************************************************)
(* What an import makes of a SillyTavern file (src/application/imports/    *)
(* service.py and lorebook.py): the candidates a preview offers, what a    *)
(* selection keeps, and what is created when some of the writes fail.  One *)
(* request does it all in order, so the result is a function of the file,  *)
(* the choices and the failures.                                           *)
(*                                                                         *)
(* A file is [items, hasEntries, card]: items are the raw entries, each a  *)
(* kind, at their position, which is their key; hasEntries says whether    *)
(* there is an entries object at all, card whether the file is a character *)
(* card.  A lore entry is short or long (Length).                          *)
(***************************************************************************)
EXTENDS Integers, Sequences, SequencesExt

CONSTANTS Card, Book,      \* CARD_KEY, WHOLE_BOOK_KEY: the synthetic candidates
          Fallback,        \* the "Imported lorebook" scene
          Length,          \* of a lore entry's line in the world context, by kind
          MaxContext       \* _MAX_WORLD_CONTEXT_CHARS

ASSUME SyntheticAssumption ==
  {Card, Book, Fallback} \cap Nat = {} /\ Card # Book /\ Fallback \notin {Card, Book}
ASSUME LengthAssumption ==
  /\ MaxContext \in Nat /\ \A kind \in DOMAIN Length : Length[kind] \in Nat
  /\ DOMAIN Length \cap {"character", "location", "junk"} = {}

Lore == DOMAIN Length
Kinds == Lore \cup {"character", "location", "junk"}

\* parse_file refuses the rest.
Readable(f) == f.hasEntries \/ f.card

\* [x for x in seq if x in S], and what it has after each of seq.
Filtering(seq, S) ==
  LET some[n \in 0..Len(seq)] ==
        IF n = 0 THEN <<>>
        ELSE IF seq[n] \in S THEN Append(some[n - 1], seq[n]) ELSE some[n - 1]
  IN some

Only(seq, S) == Filtering(seq, S)[Len(seq)]

ItemsOf(f, kinds) == {k \in DOMAIN f.items : f.items[k] \in kinds}

\* The entries that are objects with a name and a content.
Entries(f) == Only([k \in DOMAIN f.items |-> k], ItemsOf(f, Kinds \ {"junk"}))
SkippedItems(f) == Len(f.items) - Len(Entries(f))

CardCandidate(f) == IF f.card THEN <<Card>> ELSE <<>>

\* Only a book without characters and locations is offered as one scene.
WholeBookScene(f) ==
  IF Entries(f) # <<>> /\ \A i \in DOMAIN Entries(f) : f.items[Entries(f)[i]] \in Lore
  THEN <<Book>> ELSE <<>>

Candidates(f) == Entries(f) \o CardCandidate(f) \o WholeBookScene(f)

\* is_character and is_location: the card is a character, the book a location.
CharacterKeys(f) == {Card} \cup ItemsOf(f, {"character"})
LocationKeys(f) == {Book} \cup ItemsOf(f, {"location"})

Preview(f) ==
  [characters |-> Only(Entries(f), CharacterKeys(f)) \o CardCandidate(f),
   scenes |-> Only(Entries(f), LocationKeys(f)) \o WholeBookScene(f),
   skipped |-> SkippedItems(f)]

\* The form of SelectedEntries whose import-all forgets the synthetic ones.
SelectedReal(f, selection) ==
  IF selection = {} THEN Entries(f) ELSE Only(Candidates(f), selection)

\* _selected_entries: an empty selection is none, and imports everything.
SelectedEntries(f, selection) ==
  IF selection = {} THEN Candidates(f) ELSE Only(Candidates(f), selection)

\* The body of the loop of world_context: entries that are no lore are passed
\* over, and the first line that does not fit any more ends it.
AddLine(acc, f, k) ==
  IF acc.full \/ k \notin ItemsOf(f, Lore) THEN acc
  ELSE IF acc.total + Length[f.items[k]] > MaxContext THEN [acc EXCEPT !.full = TRUE]
  ELSE [acc EXCEPT !.lines = Append(@, k), !.total = @ + Length[f.items[k]]]

NoLines == [lines |-> <<>>, total |-> 0, full |-> FALSE]

\* What the loop has after each entry.
AddingLines(f, entries) ==
  LET acc[n \in 0..Len(entries)] == IF n = 0 THEN NoLines ELSE AddLine(acc[n - 1], f, entries[n])
  IN acc

WorldContext(f, entries) == AddingLines(f, entries)[Len(entries)].lines

-----------------------------------------------------------------------------
(* An import: its choices [file, selection, link, append], the keys whose  *)
(* insert fails, and those whose scene gets no characters.                 *)

\* _create_characters: one transaction each.
CreateCharacters(wanted, failing) == Only(wanted, ToSet(wanted) \ failing)

\* The form of BulkCreate that goes on without the failed scenes.
CreateEach(scenes, failing) == Only(scenes, ToSet(scenes) \ failing)

\* _bulk_create: all of them in one transaction, or none.
BulkCreate(scenes, failing) ==
  IF \E i \in DOMAIN scenes : scenes[i] \in failing THEN <<>> ELSE scenes

\* The scenes to be made.
WantedScenes(i) ==
  LET entries == SelectedEntries(i.file, i.selection)
      locations == Only(entries, LocationKeys(i.file))
  IN IF locations # <<>> \/ ~i.link THEN locations
     ELSE IF \E k \in ToSet(entries) : k \notin {Card, Book} THEN <<Fallback>>
     ELSE <<>>

\* A scene that was made: whom it is linked to, the lore in its background,
\* and the entry whose pictures it gets: the ids are zipped with the wanted.
MadeScenes(i, ids, characters) ==
  [n \in DOMAIN ids |->
     [key |-> ids[n], pictures |-> WantedScenes(i)[n],
      linked |-> IF i.link /\ ids[n] \notin i.unattached THEN ToSet(characters) ELSE {},
      context |-> IF i.link THEN WorldContext(i.file, SelectedEntries(i.file, i.selection)) ELSE <<>>]]

SkippedWrites(wanted, made, scenes, ids) == (Len(wanted) - Len(made)) + (Len(scenes) - Len(ids))

\* import_lorebook without a character to append to.
Imported(i) ==
  LET entries == SelectedEntries(i.file, i.selection)
      wanted == Only(entries, CharacterKeys(i.file))
      made == CreateCharacters(wanted, i.failing)
      ids == BulkCreate(WantedScenes(i), i.failing)
  IN [characters |-> made,
      scenes |-> MadeScenes(i, ids, made),
      skipped |-> SkippedItems(i.file) + SkippedWrites(wanted, made, WantedScenes(i), ids)]

\* _append_to_character: every selected text but the card's; nothing to add
\* is an error.
Appended(i) ==
  LET entries == SelectedEntries(i.file, i.selection)
  IN Only(entries, ToSet(entries) \ {Card})

-----------------------------------------------------------------------------
\* "import-all delivers exactly what preview promised"
\* (ImportService._selected_entries), and the generic scene when it promised
\* none for a book that has entries.
ImportAllIsPreview(i) ==
  (i.selection = {} /\ i.failing = {} /\ Readable(i.file)) =>
    LET scenes == [n \in DOMAIN Imported(i).scenes |-> Imported(i).scenes[n].key]
    IN /\ Imported(i).characters = Preview(i.file).characters
       /\ scenes = IF Preview(i.file).scenes = <<>> /\ i.link /\ Entries(i.file) # <<>>
                   THEN <<Fallback>> ELSE Preview(i.file).scenes

\* Whatever is created or appended was selected; the one selection that
\* brings more is the empty one.
OnlySelected(i) ==
  i.selection # {} =>
    /\ ToSet(Imported(i).characters) \subseteq i.selection
    /\ \A n \in DOMAIN Imported(i).scenes : Imported(i).scenes[n].key \in i.selection \cup {Fallback}
    /\ ToSet(Appended(i)) \subseteq i.selection

\* The user gets what was shown and ticked, and nothing else.
ImportKeepsPreview(i) == ImportAllIsPreview(i) /\ OnlySelected(i)

\* Every raw entry and every selected candidate that should become a
\* character or a scene is in the result: made or skipped.
NothingUnaccounted(i) ==
  LET entries == SelectedEntries(i.file, i.selection)
      wanted == Only(entries, CharacterKeys(i.file))
  IN Len(Imported(i).characters) + Len(Imported(i).scenes) + Imported(i).skipped
       = SkippedItems(i.file) + Len(wanted) + Len(WantedScenes(i))

\* A scene gets the pictures of its own entry, and only characters that this
\* import made, although any of the inserts may have failed.
ScenesAreTheirOwn(i) ==
  \A n \in DOMAIN Imported(i).scenes :
    LET scene == Imported(i).scenes[n]
    IN scene.pictures = scene.key /\ scene.linked \subseteq ToSet(Imported(i).characters)

\* The length of the first lines, after each of them.
LengthUpTo(f, lines) ==
  LET sum[n \in 0..Len(lines)] == IF n = 0 THEN 0 ELSE sum[n - 1] + Length[f.items[lines[n]]]
  IN sum

\* The world context is the beginning of the selected lore, whatever stands
\* in between: as much as fits, and no entry more.
ContextIsBeginning(i) ==
  LET entries == SelectedEntries(i.file, i.selection)
      lore == Only(entries, ItemsOf(i.file, Lore))
  IN \E n \in 0..Len(lore) :
       /\ WorldContext(i.file, entries) = SubSeq(lore, 1, n)
       /\ LengthUpTo(i.file, lore)[n] <= MaxContext
       /\ n < Len(lore) => LengthUpTo(i.file, lore)[n + 1] > MaxContext

\* However many writes of an import fail, its result tells what is there.
ImportAddsUp(i) == NothingUnaccounted(i) /\ ScenesAreTheirOwn(i) /\ ContextIsBeginning(i)
=============================================================================
