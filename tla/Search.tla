------------------------------- MODULE Search -------------------------------
(***************************************************************************)
(* The listings of src/infrastructure/gateways: which rows a search finds  *)
(* for an actor, in which order, and which of them one page shows.         *)
(*                                                                         *)
(* A row is [id, owner, public, key, marks]: key is what the listing sorts *)
(* by (a title, a count, created_at, sort_order), marks are the rows of    *)
(* the association the filter looks at (a scene's characters, the users    *)
(* who bookmarked a character).  Where a query has no total order, every   *)
(* request may get the equal rows in another one: Listings is the set of   *)
(* what it may get.                                                        *)
(***************************************************************************)
EXTENDS Absent, Integers, Sequences, SequencesExt, FiniteSetsExt

Shared == {"scenes", "characters", "media"}
Private == {"chats", "messages"}

\* VisibilityGateway.public_or_owned.
PublicOrOwned(row, actor) == row.public \/ (actor # None /\ row.owner = actor)

\* Chats and messages are found by their user only, accounts by everybody.
Shown(kind, row, actor) ==
  \/ kind \in Shared /\ PublicOrOwned(row, actor)
  \/ kind \in Private /\ row.owner = actor /\ actor # None
  \/ kind = "users"

\* The WHERE of a query q = [kind, actor, marks, sort].
Matching(q, rows) ==
  {row \in rows : Shown(q.kind, row, q.actor) /\ (q.marks = {} \/ row.marks \cap q.marks # {})}

\* The form of SortsBefore without the id.
SortsBeforeByKey(q, a, b) ==
  CASE q.sort = "asc" -> a.key < b.key
    [] q.sort = "desc" -> a.key > b.key
    [] OTHER -> FALSE

\* ORDER BY: scenes by the chosen column and the id, media by sort_order and
\* the id downwards, messages by created_at alone, the others by nothing.
SortsBefore(q, a, b) ==
  CASE q.kind = "scenes" /\ q.sort = "asc" -> a.key < b.key \/ (a.key = b.key /\ a.id < b.id)
    [] q.kind = "scenes" /\ q.sort = "desc" -> a.key > b.key \/ (a.key = b.key /\ a.id < b.id)
    [] q.kind = "media" -> a.key < b.key \/ (a.key = b.key /\ a.id > b.id)
    [] q.kind = "messages" -> a.key > b.key
    [] OTHER -> FALSE

Listings(q, rows) ==
  {l \in SetToSeqs(Matching(q, rows)) :
     \A i \in DOMAIN l : \A j \in 1..(i - 1) : ~SortsBefore(q, l[i], l[j])}

\* LIMIT and OFFSET: no limit is no LIMIT for scenes and characters, and
\* LIMIT 0 (for media, no query at all) for the others.
PageOf(q, listing, offset, limit) ==
  IF limit = 0
  THEN IF q.kind \in {"scenes", "characters"} THEN SubSeq(listing, offset + 1, Len(listing)) ELSE <<>>
  ELSE SubSeq(listing, offset + 1, IF offset + limit < Len(listing) THEN offset + limit ELSE Len(listing))

\* The rows the count query goes over: that of scenes joins their characters
\* when it filters by them.
Joined(q, rows) ==
  UNION {IF q.kind = "scenes" /\ q.marks # {} THEN {row} \X row.marks ELSE {<<row, None>>} :
           row \in Matching(q, rows)}

Count(q, rows) == Cardinality({j[1] : j \in Joined(q, rows)})

-----------------------------------------------------------------------------
Ordered(q) == (q.kind = "scenes" /\ q.sort # "none") \/ q.kind = "media"

Offsets(q, rows, limit) == {n \in 0..Cardinality(rows) : n % limit = 0}

\* Whoever turns the pages of a sorted listing sees every row once, although
\* each page is a query of its own ("unique tiebreaker so offset/limit
\* pagination stays stable across pages", ScenesGateway.search).
PagesCoverOnce(q, rows, limit) ==
  (Ordered(q) /\ limit > 0) =>
    \A got \in [Offsets(q, rows, limit) -> Listings(q, rows)] :
      \A row \in Matching(q, rows) :
        Cardinality({n \in DOMAIN got : row \in ToSet(PageOf(q, got[n], n, limit))}) = 1

\* The count of a page is the number of rows of all pages, however many
\* characters or bookmarks of a row meet the filter.
CountIsAll(q, rows, limit) ==
  \A l \in Listings(q, rows) :
    /\ Count(q, rows) = Len(l)
    /\ limit > 0 => Len(PageOf(q, l, 0, limit)) = Min({limit, Count(q, rows)})

\* Without a token only public rows are shown, and never one that has lost
\* its owner; with one, nobody else's private rows.
OnlyVisible(q, rows, limit) ==
  \A l \in Listings(q, rows) : \A i \in DOMAIN PageOf(q, l, 0, limit) :
    LET row == PageOf(q, l, 0, limit)[i]
    IN (q.kind \in Shared \cup Private /\ (row.owner # q.actor \/ row.owner = None))
         => row.public /\ q.kind \in Shared

\* What the pages of a listing show, together and each.
ListingAnswers(q, rows, limit) ==
  PagesCoverOnce(q, rows, limit) /\ CountIsAll(q, rows, limit) /\ OnlyVisible(q, rows, limit)
=============================================================================
