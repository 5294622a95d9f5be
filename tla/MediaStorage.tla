---------------------------- MODULE MediaStorage ----------------------------
(***************************************************************************)
(* Images: an object in a MinIO bucket and a row of media_assets that      *)
(* names it, written by two systems that share no transaction.             *)
(*   - MediaService.upload, and ImageImporter, which runs several uploads  *)
(*     at once on the one session of its request;                          *)
(*   - MediaService.update and delete;                                     *)
(*   - scripts/seed_minio_media.py, which draws a missing picture for      *)
(*     every row, with its own connections, while the backend serves.      *)
(*                                                                         *)
(* An object_key is used by one upload only, so a key stands for the       *)
(* upload, its row and its object.  Bytes are abstracted to who made them. *)
(* hit collects the keys whose own calls failed: a failure is always       *)
(* possible while there are fewer than MaxHits.  Of the uploads of one     *)
(* session, a call that overlaps another's call may fail as well           *)
(* (AsyncSession is not meant for concurrent tasks).                       *)
(***************************************************************************)
EXTENDS Absent, FiniteSets, Integers

CONSTANTS Uploads,      \* keys an upload may come with
          Seeded,       \* keys of the rows of init.sql
          PublicKeys,   \* keys of public rows
          Sessions, SessionOf,   \* the request of each upload
          MaxFetches,   \* _MAX_CONCURRENT_IMAGE_FETCHES
          MaxHits,
          Situations    \* what to look at: uploads, rows of init.sql, runs of the script

Keys == Uploads \cup Seeded
Buckets == {"public", "private"}

MediaRow == [describes : {None, "upload", "art"}, edited : BOOLEAN]

ASSUME KeysAssumption ==
  Uploads \cap Seeded = {} /\ PublicKeys \subseteq Keys /\ Seeded \subseteq PublicKeys /\ IsFiniteSet(Seeded)
ASSUME AbsentMediaAssumption ==
  {Unborn, Gone} \cap MediaRow = {} /\ None \notin Keys \cup {"upload", "art", "object", "row"}
ASSUME SessionsAssumption == SessionOf \in [Uploads -> Sessions]
ASSUME SituationsAssumption ==
  Situations \subseteq [uploads : SUBSET Uploads, seeded : SUBSET Seeded, seedings : Nat]
ASSUME BoundsAssumption == MaxHits \in Nat /\ MaxFetches \in Nat \ {0}

VARIABLES
  stored,   \* the object of each bucket and key, None when there is none
  rows,     \* the row of each key; describes: whose size and type it has
  flushed,  \* keys whose row is inserted in an open transaction
  pc,       \* where each upload is
  removal,  \* where the delete of each key is
  hit,      \* keys whose own calls failed
  seeder,   \* the run of the seeding script
  cache,    \* keys with a file in MEDIA_BACKUP_DIR
  drawn,    \* how often each picture was bought from the API
  forced    \* a run had FORCE_REGENERATE_MEDIA or no MEDIA_BACKUP_DIR

uploading == <<flushed, pc>>
seeding == <<seeder, cache, drawn, forced>>
mediaVars == <<stored, rows, uploading, removal, hit, seeding>>

BucketOf(k) == IF k \in PublicKeys THEN "public" ELSE "private"
HasRow(k) == rows[k] \notin {Unborn, Gone}
Siblings(k) == {o \in Uploads \ {k} : SessionOf[o] = SessionOf[k]}
FlushedWith(k) == {o \in flushed : SessionOf[o] = SessionOf[k]}
Put(bucket, k, what) == stored' = [stored EXCEPT ![<<bucket, k>>] = what]
At(k, step) == k \in Uploads /\ pc[k] = step
Goto(k, step) == pc' = [pc EXCEPT ![k] = step]

\* k's own call fails.
Hit(k) == /\ k \in hit \/ Cardinality(hit) < MaxHits
          /\ hit' = hit \cup {k}

-----------------------------------------------------------------------------
(* Uploads.                                                                *)

Fetching == {"owner", "put", "flush", "refresh", "commit", "cleanup"}

\* POST /media, or the fetch of one url of an import under its semaphore.
Fetch(k) ==
  /\ At(k, "new")
  /\ Cardinality({o \in Siblings(k) : pc[o] \in Fetching}) < MaxFetches
  /\ Goto(k, "owner")
  /\ UNCHANGED <<stored, rows, flushed, removal, hit, seeding>>

\* No image at the url, not the owner, too large, not an image.
Reject(k) ==
  /\ At(k, "new") \/ At(k, "owner")
  /\ Goto(k, "failed")
  /\ UNCHANGED <<stored, rows, flushed, removal, hit, seeding>>

\* _require_owner, then the reader.
Accept(k) ==
  /\ At(k, "owner") /\ Goto(k, "put")
  /\ UNCHANGED <<stored, rows, flushed, removal, hit, seeding>>

\* ensure_buckets and put_object are outside the try: when the answer to the
\* put is lost nothing removes the object.
PutObject(k) ==
  /\ At(k, "put")
  /\ \/ Put(BucketOf(k), k, "upload") /\ Goto(k, "flush") /\ UNCHANGED hit
     \/ stored' \in {stored, [stored EXCEPT ![<<BucketOf(k), k>>] = "upload"]}
          /\ Goto(k, "failed") /\ Hit(k)
  /\ UNCHANGED <<rows, flushed, removal, seeding>>

\* MediaGateway.create: the INSERT.
Flush(k) ==
  /\ At(k, "flush")
  /\ flushed' = flushed \cup {k}
  /\ Goto(k, "refresh")
  /\ UNCHANGED <<stored, rows, removal, hit, seeding>>

\* What the session's refresh can see: a sibling's rollback takes k's row
\* along, a sibling's commit does not.
Visible(k) == k \in flushed \/ HasRow(k)

\* A sibling's commit is under way: nobody else commits or rolls back.
Committing(k) == \E o \in Siblings(k) : pc[o] = "commit"

\* From here k goes on to its own commit without giving way.
Refresh(k) ==
  /\ At(k, "refresh") /\ Visible(k) /\ ~Committing(k)
  /\ Goto(k, "commit")
  /\ UNCHANGED <<stored, rows, flushed, removal, hit, seeding>>

\* create raised: the unit of work rolls back whatever the session holds,
\* unless a sibling's commit keeps it from doing so.
RollBack(k) ==
  /\ At(k, "flush") \/ At(k, "refresh")
  /\ IF At(k, "refresh") /\ ~Visible(k) THEN UNCHANGED hit ELSE Hit(k)
  /\ flushed' = IF Committing(k) THEN flushed ELSE flushed \ FlushedWith(k)
  /\ Goto(k, "cleanup")
  /\ UNCHANGED <<stored, rows, removal, seeding>>

NewRow(k, describes) == [describes |-> describes, edited |-> FALSE]

\* The rows of the session's transaction.
Landed(ks) == [k \in Keys |-> IF k \in ks THEN NewRow(k, "upload") ELSE rows[k]]

\* The commit is of the session: siblings' rows go with it.
CommitUpload(k) ==
  /\ At(k, "commit")
  /\ rows' = Landed(FlushedWith(k))
  /\ flushed' = flushed \ FlushedWith(k)
  /\ Goto(k, "imported")
  /\ UNCHANGED <<stored, removal, hit, seeding>>

\* The commit raised, and __aexit__ does not roll back then: the transaction
\* is lost, done all the same, or, when a sibling is flushing or committing,
\* still open.
CommitFails(k) ==
  /\ Hit(k)
  /\ \/ At(k, "commit") /\ flushed' = flushed \ FlushedWith(k) /\ rows' \in {rows, Landed(FlushedWith(k))}
     \/ /\ \/ At(k, "commit") /\ \E o \in Siblings(k) : pc[o] = "flush"
           \/ At(k, "refresh") /\ Visible(k) /\ Committing(k)
        /\ UNCHANGED <<rows, flushed>>
  /\ Goto(k, "cleanup")
  /\ UNCHANGED <<stored, removal, seeding>>

\* The form of CleanUp without delete_object.
LeaveObject(k) ==
  /\ At(k, "cleanup")
  /\ Goto(k, "failed")
  /\ UNCHANGED <<stored, rows, flushed, removal, hit, seeding>>

\* delete_object on the way out; its own failure is only logged.
CleanUp(k) ==
  /\ At(k, "cleanup")
  /\ \/ Put(BucketOf(k), k, None) /\ UNCHANGED hit
     \/ Hit(k) /\ UNCHANGED stored
  /\ Goto(k, "failed")
  /\ UNCHANGED <<rows, flushed, removal, seeding>>

\* The request is over, or its import goes on to commit something else: what
\* its session still holds is dropped, or written.
EndRequest(s) ==
  LET left == {k \in flushed : SessionOf[k] = s}
  IN /\ left # {} /\ \A k \in Uploads : SessionOf[k] = s => pc[k] \in {"unused", "failed", "imported"}
     /\ flushed' = flushed \ left
     /\ rows' \in {rows, Landed(left)}
     /\ UNCHANGED <<stored, pc, removal, hit, seeding>>

\* The process stops: nothing takes up what its requests were doing.
Crash ==
  LET busy == {k \in Uploads : pc[k] \in Fetching} \cup {k \in Keys : removal[k] # None}
  IN /\ busy # {} /\ Cardinality(hit) < MaxHits
     /\ hit' = hit \cup busy
     /\ pc' = [k \in Uploads |-> IF pc[k] \in Fetching THEN "failed" ELSE pc[k]]
     /\ flushed' = {}
     /\ removal' = [k \in Keys |-> None]
     /\ UNCHANGED <<stored, rows, seeding>>

-----------------------------------------------------------------------------
(* Update and delete.                                                      *)

\* sort_order, layer, caption.  A row deleted since the check is a 404.
UpdateMedia(k) ==
  /\ HasRow(k)
  /\ rows' = [rows EXCEPT ![k].edited = TRUE]
  /\ UNCHANGED <<stored, uploading, removal, hit, seeding>>

AskDeleteMedia(k) ==
  /\ HasRow(k) /\ removal[k] = None
  /\ removal' = [removal EXCEPT ![k] = "object"]
  /\ UNCHANGED <<stored, rows, uploading, hit, seeding>>

\* Best effort, before the row.
RemoveObject(k) ==
  /\ removal[k] = "object"
  /\ removal' = [removal EXCEPT ![k] = "row"]
  /\ \/ Put(BucketOf(k), k, None) /\ UNCHANGED hit
     \/ Hit(k) /\ UNCHANGED stored
  /\ UNCHANGED <<rows, uploading, seeding>>

\* The row goes at the commit; a failure rolls back and leaves it.
DeleteRow(k) ==
  /\ removal[k] = "row"
  /\ removal' = [removal EXCEPT ![k] = None]
  /\ \/ rows' = [rows EXCEPT ![k] = Gone] /\ UNCHANGED hit
     \/ Hit(k) /\ UNCHANGED rows
  /\ UNCHANGED <<stored, uploading, seeding>>

-----------------------------------------------------------------------------
(* scripts/seed_minio_media.py.                                            *)

Idle == [left |-> 0, step |-> "idle", todo |-> {}, key |-> None, cached |-> FALSE,
         force |-> FALSE, api |-> FALSE, backup |-> FALSE,
         targets |-> 0, uploaded |-> 0, restored |-> 0, generated |-> 0, skipped |-> 0, failed |-> 0]

Seeding(step) == seeder.step = step
Working(k, step) == seeder.key = k /\ Seeding(step)

\* load_settings and the targets: every row with an object_key, an upload's too.
StartSeeding(force, api, backup) ==
  LET targets == {k \in Keys : HasRow(k)}
  IN /\ Seeding("idle") /\ seeder.left > 0
     /\ api \/ backup
     /\ targets # {}
     /\ seeder' = [Idle EXCEPT !.left = seeder.left - 1, !.step = "next", !.todo = targets,
                               !.force = force, !.api = api, !.backup = backup,
                               !.targets = Cardinality(targets)]
     /\ forced' = (forced \/ force \/ ~backup)
     /\ UNCHANGED <<stored, rows, uploading, removal, hit, cache, drawn>>

\* Each target ends in one of these.
Skipped == [seeder EXCEPT !.step = "next", !.key = None, !.skipped = @ + 1]
Failed == [seeder EXCEPT !.step = "next", !.key = None, !.failed = @ + 1]

Take(k) ==
  /\ Seeding("next") /\ k \in seeder.todo
  /\ seeder' = [seeder EXCEPT !.step = "look", !.key = k, !.todo = @ \ {k}]
  /\ UNCHANGED <<stored, rows, uploading, removal, hit, cache, drawn, forced>>

\* The form of FromCache that counts the picture before it is uploaded.
CountedEarly(s) == [s EXCEPT !.step = "put", !.cached = TRUE, !.restored = @ + 1]

Cached(k) == ~seeder.force /\ seeder.backup /\ k \in cache
FromCache(s) == [s EXCEPT !.step = "put", !.cached = TRUE]

\* Skip what is there, prefer the cache, or draw.  A cache file that cannot
\* be read is a miss, a stat_object that fails fails the target.
Look(k) ==
  /\ Working(k, "look")
  /\ \/ ~seeder.force /\ stored[<<"public", k>>] # None /\ seeder' = Skipped /\ UNCHANGED hit
     \/ Hit(k) /\ seeder' = Failed
     \/ /\ seeder.force \/ stored[<<"public", k>>] = None
        /\ \/ Cached(k) /\ seeder' = FromCache(seeder) /\ UNCHANGED hit
           \/ /\ IF Cached(k) THEN Hit(k) ELSE UNCHANGED hit
              /\ seeder' = IF seeder.api THEN [seeder EXCEPT !.step = "draw"] ELSE Skipped
  /\ UNCHANGED <<stored, rows, uploading, removal, cache, drawn, forced>>

Draw(k) ==
  /\ Working(k, "draw")
  /\ \/ /\ seeder' = [seeder EXCEPT !.step = "keep"]
        /\ drawn' = [drawn EXCEPT ![k] = @ + 1]
        /\ UNCHANGED hit
     \/ Hit(k) /\ seeder' = Failed /\ UNCHANGED drawn
  /\ UNCHANGED <<stored, rows, uploading, removal, cache, forced>>

\* _write_cache: a sibling .tmp and a rename; a failure is swallowed.
Keep(k) ==
  /\ Working(k, "keep")
  /\ seeder' = [seeder EXCEPT !.step = "put"]
  /\ \/ cache' = (IF seeder.backup THEN cache \cup {k} ELSE cache) /\ UNCHANGED hit
     \/ Hit(k) /\ UNCHANGED cache
  /\ UNCHANGED <<stored, rows, uploading, removal, drawn, forced>>

\* Always the public bucket, whatever the row says.
PutArt(k) ==
  /\ Working(k, "put")
  /\ \/ Put("public", k, "art") /\ seeder' = [seeder EXCEPT !.step = "record"] /\ UNCHANGED hit
     \/ Hit(k) /\ seeder' = Failed
          /\ stored' \in {stored, [stored EXCEPT ![<<"public", k>>] = "art"]}
  /\ UNCHANGED <<rows, uploading, removal, cache, drawn, forced>>

\* The form of Recorded without update_size_bytes.
NotRecorded(k) == rows

\* update_size_bytes: no row, nothing to update.
Recorded(k) == IF HasRow(k) THEN [rows EXCEPT ![k].describes = "art"] ELSE rows

Record(k) ==
  /\ Working(k, "record")
  /\ \/ /\ rows' = Recorded(k)
        /\ seeder' = [seeder EXCEPT !.step = "next", !.key = None, !.cached = FALSE, !.uploaded = @ + 1,
                                    !.restored = IF seeder.cached THEN @ + 1 ELSE @,
                                    !.generated = IF seeder.cached THEN @ ELSE @ + 1]
        /\ UNCHANGED hit
     \/ Hit(k) /\ seeder' = Failed /\ UNCHANGED rows
  /\ UNCHANGED <<stored, uploading, removal, cache, drawn, forced>>

EndSeeding ==
  /\ Seeding("next") /\ seeder.todo = {}
  /\ seeder' = [seeder EXCEPT !.step = "idle"]
  /\ UNCHANGED <<stored, rows, uploading, removal, hit, cache, drawn, forced>>

\* The sidecar is stopped in the middle.
Interrupt(k) ==
  /\ seeder.key = k /\ Hit(k)
  /\ seeder' = [Idle EXCEPT !.left = seeder.left]
  /\ UNCHANGED <<stored, rows, uploading, removal, cache, drawn, forced>>

-----------------------------------------------------------------------------
\* scripts/init.sql.
InitialRows(ks) == [k \in Keys |-> IF k \in ks THEN NewRow(k, None) ELSE Unborn]
NoObjects == [o \in Buckets \X Keys |-> None]

\* docker compose down -v and up: only the host's MEDIA_BACKUP_DIR survives.
WipeVolumes ==
  /\ Seeding("idle") /\ \A k \in Uploads : pc[k] \in {"new", "unused"}
  /\ \A k \in Keys : removal[k] = None
  /\ stored' = NoObjects
  /\ rows' = InitialRows({k \in Seeded : rows[k] # Unborn})
  /\ UNCHANGED <<uploading, removal, hit, seeding>>

MediaInit ==
  /\ stored = NoObjects
  /\ flushed = {}
  /\ removal = [k \in Keys |-> None]
  /\ hit = {}
  /\ \E situation \in Situations :
       /\ rows = InitialRows(situation.seeded)
       /\ pc = [k \in Uploads |-> IF k \in situation.uploads THEN "new" ELSE "unused"]
       /\ seeder = [Idle EXCEPT !.left = situation.seedings]
  /\ cache = {} /\ drawn = [k \in Keys |-> 0] /\ forced = FALSE

Upload(k) ==
  \/ Fetch(k) \/ Reject(k) \/ Accept(k) \/ PutObject(k) \/ Flush(k) \/ Refresh(k)
  \/ RollBack(k) \/ CommitUpload(k) \/ CommitFails(k) \/ CleanUp(k)

Change(k) == UpdateMedia(k) \/ AskDeleteMedia(k) \/ RemoveObject(k) \/ DeleteRow(k)

Seed(k) == Take(k) \/ Look(k) \/ Draw(k) \/ Keep(k) \/ PutArt(k) \/ Record(k) \/ Interrupt(k)

MediaNext ==
  \/ \E k \in Uploads : Upload(k)
  \/ \E s \in Sessions : EndRequest(s)
  \/ Crash
  \/ \E k \in Keys : Change(k) \/ Seed(k)
  \/ \E force, api, backup \in BOOLEAN : StartSeeding(force, api, backup)
  \/ EndSeeding \/ WipeVolumes

MediaSpec == MediaInit /\ [][MediaNext]_mediaVars

-----------------------------------------------------------------------------
MediaTypeOK ==
  /\ stored \in [Buckets \X Keys -> {None, "upload", "art"}]
  /\ rows \in [Keys -> MediaRow \cup {Unborn, Gone}]
  /\ flushed \subseteq Uploads
  /\ pc \in [Uploads -> Fetching \cup {"unused", "new", "failed", "imported"}]
  /\ removal \in [Keys -> {None, "object", "row"}]
  /\ hit \subseteq Keys /\ cache \subseteq Keys
  /\ DOMAIN seeder = DOMAIN Idle /\ seeder.todo \subseteq Keys
  /\ IF seeder.step \in {"idle", "next"} THEN seeder.key = None ELSE seeder.key \in Keys
  /\ drawn \in [Keys -> Nat] /\ forced \in BOOLEAN

AtRest == flushed = {} /\ \A k \in Keys : /\ removal[k] = None
                                          /\ k \in Uploads => pc[k] \notin Fetching

\* Once everything is over, an upload has its object and its row or neither,
\* unless one of its own calls failed: what a sibling of the same session
\* rolls back or commits for it leaves nothing behind.  (Pictures drawn for a
\* row that was deleted meanwhile are left over without any failure.)
NoLeftovers ==
  AtRest => \A k \in Uploads \ hit :
    LET object == stored[<<BucketOf(k), k>>]
    IN (HasRow(k) => object # None) /\ (object = "upload" => HasRow(k))

\* An image counted as imported has a committed row, until that is deleted.
ImportedHasRow == \A k \in Uploads : pc[k] = "imported" => rows[k] # Unborn

\* What an import reports is what it left: neither an object without a row
\* nor a row without an object, and no image counted that never got a row
\* (MediaService.upload and its cleanup, run several times on one session).
UploadsLeaveBoth == NoLeftovers /\ ImportedHasRow

\* A public row's size and type are its object's: the script overwrites
\* objects of uploads when it is forced to, and updates their rows too.
RowDescribesObject ==
  \A k \in PublicKeys \ hit :
    (HasRow(k) /\ stored[<<"public", k>>] # None /\ seeder.key # k)
      => rows[k].describes = stored[<<"public", k>>]

\* The script's last line adds up at every moment of a run: a picture that
\* failed after it was fetched is in no other count.
CountsAddUp ==
  /\ seeder.uploaded = seeder.restored + seeder.generated
  /\ seeder.uploaded + seeder.skipped + seeder.failed + Cardinality(seeder.todo)
       + (IF seeder.key = None THEN 0 ELSE 1) = seeder.targets

\* With a backup dir and without force no picture is bought twice, however
\* often the volumes are wiped: only a failure around its first time can
\* make it so.
BoughtOnce == \A k \in Keys : drawn[k] > 1 => forced \/ k \in hit

\* The operator can trust the script: its counts are the pictures' fates, and
\* a rerun costs nothing twice (scripts/seed_minio_media.py).
SeedingAddsUp == CountsAddUp /\ BoughtOnce
=============================================================================
