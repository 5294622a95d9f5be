--------------------------- MODULE RecordsProofs ---------------------------
(***************************************************************************)
(* Proofs about MediaStorage, LorebookImport, Search and ErrorResponses as *)
(* MCRecords composes them: any number of uploads, rows, sessions and runs *)
(* of the seeding script; any file and selection; any table, query and     *)
(* limit; any exception.                                                   *)
(***************************************************************************)
EXTENDS MCRecords, LibraryProofs, ChapterPlanProofs, FiniteSetTheorems, TLAPS

-----------------------------------------------------------------------------
(* The invariant.                                                          *)

Steps == {"idle", "next", "look", "draw", "keep", "put", "record"}

Seeder ==
  [left : Nat, step : Steps, todo : SUBSET Keys, key : Keys \cup {None}, cached : BOOLEAN,
   force : BOOLEAN, api : BOOLEAN, backup : BOOLEAN, targets : Nat, uploaded : Nat,
   restored : Nat, generated : Nat, skipped : Nat, failed : Nat]

MediaTyped ==
  /\ MediaTypeOK
  /\ seeder \in Seeder
  /\ seeder.step = "idle" => seeder.todo = {}

Object(k) == stored[<<BucketOf(k), k>>]
Picture(k) == stored[<<"public", k>>]
Recording(k) == seeder.key = k /\ seeder.step = "record"

\* A row is written once, after its object; what is flushed is not written
\* yet, and only one upload of a session is at its commit.
Life ==
  /\ \A k \in Uploads :
       /\ pc[k] \in {"unused", "new", "owner", "put", "flush"} => rows[k] = Unborn /\ k \notin flushed
       /\ k \in flushed => rows[k] = Unborn
       /\ pc[k] = "commit" => k \in flushed \/ rows[k] # Unborn
       /\ pc[k] = "imported" => rows[k] # Unborn
       /\ pc[k] = "commit" => \A o \in Siblings(k) : pc[o] # "commit"
  /\ \A k \in Keys :
       /\ removal[k] # None => rows[k] # Unborn
       /\ k \in seeder.todo \/ k = seeder.key => rows[k] # Unborn
       /\ Picture(k) = "art" => rows[k] # Unborn

\* The object of an upload none of whose own calls failed.
Objects ==
  \A k \in Uploads \ hit :
    /\ pc[k] \in {"unused", "new", "owner", "put"} => Object(k) = None
    /\ pc[k] = "flush" \/ k \in flushed => Object(k) = "upload"
    /\ pc[k] \in {"cleanup", "failed"} => ~HasRow(k) /\ k \notin flushed
    /\ pc[k] = "failed" => Object(k) # "upload"
    /\ HasRow(k) /\ removal[k] # "row" => Object(k) # None
    /\ removal[k] = "row" \/ rows[k] = Gone => Object(k) # "upload"

\* A public row fits its object, but for the moment the script has put a
\* picture and not yet updated the row.
Pictures ==
  \A k \in PublicKeys \ hit :
    /\ HasRow(k) /\ Picture(k) # None /\ ~Recording(k) => rows[k].describes = Picture(k)
    /\ Recording(k) => Picture(k) \in {None, "art"}

\* A picture that was bought is in the cache, or about to be.
Purchases ==
  /\ ~forced /\ seeder.step # "idle" => ~seeder.force /\ seeder.backup
  /\ \A k \in Keys \ hit : ~forced =>
       /\ drawn[k] <= 1
       /\ drawn[k] = 1 => k \in cache \/ (seeder.key = k /\ seeder.step = "keep")
       /\ seeder.key = k /\ seeder.step = "draw" => drawn[k] = 0

\* Rows are finitely many, as the calls that write them are.
Born == {k \in Keys : HasRow(k)}
Finite == IsFiniteSet(flushed) /\ IsFiniteSet(Born) /\ IsFiniteSet(seeder.todo)

MediaInv == MediaTyped /\ Finite /\ CountsAddUp /\ Life /\ Objects /\ Pictures /\ Purchases

-----------------------------------------------------------------------------
(* The state of the script.                                                *)

\* What a target's step changes of the script's state.
SameRun(s, t) == s.force = t.force /\ s.backup = t.backup /\ s.api = t.api
SameCounts(s, t) ==
  /\ s.targets = t.targets /\ s.uploaded = t.uploaded /\ s.restored = t.restored
  /\ s.generated = t.generated /\ s.skipped = t.skipped /\ s.failed = t.failed

\* What counting a key as taken changes.
LEMMA TakenIs ==
  ASSUME seeder \in Seeder, NEW k \in Keys, Take(k)
  PROVE  /\ seeder' \in Seeder /\ seeder'.step = "look" /\ seeder'.key = k /\ seeder'.todo = seeder.todo \ {k}
         /\ SameRun(seeder', seeder) /\ SameCounts(seeder', seeder)
<1>1. PICK q : q = seeder'
  OBVIOUS
<1>2. q = [seeder EXCEPT !.step = "look", !.key = k, !.todo = @ \ {k}]
  BY <1>1 DEF Take
<1>3. /\ q \in Seeder /\ q.step = "look" /\ q.key = k /\ q.todo = seeder.todo \ {k}
      /\ SameRun(q, seeder) /\ SameCounts(q, seeder)
  BY <1>2 DEF Seeder, Steps, SameRun, SameCounts
<1> QED
  BY <1>1, <1>3

\* What moving the script to a step changes.
LEMMA MovedIs ==
  ASSUME NEW r \in Seeder, NEW step \in Steps, NEW q, q = [r EXCEPT !.step = step]
  PROVE  /\ q \in Seeder /\ q.step = step /\ q.key = r.key /\ q.todo = r.todo /\ q.cached = r.cached
         /\ SameRun(q, r) /\ SameCounts(q, r)
BY DEF Seeder, SameRun, SameCounts

\* What a hit in the cache changes.
LEMMA FromCacheIs ==
  ASSUME NEW r \in Seeder
  PROVE  /\ FromCache(r) \in Seeder /\ FromCache(r).step = "put" /\ FromCache(r).key = r.key
         /\ FromCache(r).todo = r.todo /\ SameRun(FromCache(r), r) /\ SameCounts(FromCache(r), r)
BY DEF FromCache, Seeder, Steps, SameRun, SameCounts

\* What a skipped key changes.
LEMMA SkippedIs ==
  ASSUME seeder \in Seeder
  PROVE  /\ Skipped \in Seeder /\ Skipped.step = "next" /\ Skipped.key = None /\ Skipped.todo = seeder.todo
         /\ SameRun(Skipped, seeder)
         /\ SameCounts([Skipped EXCEPT !.skipped = seeder.skipped], seeder)
         /\ Skipped.skipped = seeder.skipped + 1
<1>1. PICK n \in Nat : n = seeder.skipped + 1
  <2>1. seeder.skipped + 1 \in Nat
    BY DEF Seeder
  <2> QED
    BY <2>1
<1>2. PICK q : q = [seeder EXCEPT !.step = "next", !.key = None, !.skipped = n]
  OBVIOUS
<1>3. /\ q \in Seeder /\ q.step = "next" /\ q.key = None /\ q.todo = seeder.todo
      /\ SameRun(q, seeder) /\ q.skipped = n
      /\ SameCounts([q EXCEPT !.skipped = seeder.skipped], seeder)
  BY <1>2 DEF Seeder, Steps, SameRun, SameCounts
<1>4. Skipped = q
  BY <1>1, <1>2 DEF Skipped
<1> QED
  BY <1>1, <1>3, <1>4

\* What a failed key changes.
LEMMA FailedIs ==
  ASSUME seeder \in Seeder
  PROVE  /\ Failed \in Seeder /\ Failed.step = "next" /\ Failed.key = None /\ Failed.todo = seeder.todo
         /\ SameRun(Failed, seeder)
         /\ SameCounts([Failed EXCEPT !.failed = seeder.failed], seeder)
         /\ Failed.failed = seeder.failed + 1
<1>1. PICK n \in Nat : n = seeder.failed + 1
  <2>1. seeder.failed + 1 \in Nat
    BY DEF Seeder
  <2> QED
    BY <2>1
<1>2. PICK q : q = [seeder EXCEPT !.step = "next", !.key = None, !.failed = n]
  OBVIOUS
<1>3. /\ q \in Seeder /\ q.step = "next" /\ q.key = None /\ q.todo = seeder.todo
      /\ SameRun(q, seeder) /\ q.failed = n
      /\ SameCounts([q EXCEPT !.failed = seeder.failed], seeder)
  BY <1>2 DEF Seeder, Steps, SameRun, SameCounts
<1>4. Failed = q
  BY <1>1, <1>2 DEF Failed
<1> QED
  BY <1>1, <1>3, <1>4

\* A picture that was put and recorded counts in uploaded, and in restored
\* or generated.
LEMMA DoneIs ==
  ASSUME seeder \in Seeder, NEW q,
         q = [seeder EXCEPT !.step = "next", !.key = None, !.cached = FALSE, !.uploaded = @ + 1,
                            !.restored = IF seeder.cached THEN @ + 1 ELSE @,
                            !.generated = IF seeder.cached THEN @ ELSE @ + 1]
  PROVE  /\ q \in Seeder /\ q.step = "next" /\ q.key = None /\ q.todo = seeder.todo /\ SameRun(q, seeder)
         /\ q.targets = seeder.targets /\ q.skipped = seeder.skipped /\ q.failed = seeder.failed
         /\ q.uploaded = seeder.uploaded + 1
         /\ q.restored + q.generated = seeder.restored + seeder.generated + 1
<1>1. PICK x \in Nat : x = seeder.uploaded + 1
  <2>1. seeder.uploaded + 1 \in Nat
    BY DEF Seeder
  <2> QED
    BY <2>1
<1>2. PICK y \in Nat, z \in Nat : /\ y = (IF seeder.cached THEN seeder.restored + 1 ELSE seeder.restored)
                                  /\ z = (IF seeder.cached THEN seeder.generated ELSE seeder.generated + 1)
  <2>1. /\ (IF seeder.cached THEN seeder.restored + 1 ELSE seeder.restored) \in Nat
        /\ (IF seeder.cached THEN seeder.generated ELSE seeder.generated + 1) \in Nat
    BY DEF Seeder
  <2> QED
    BY <2>1
<1>3. q = [seeder EXCEPT !.step = "next", !.key = None, !.cached = FALSE, !.uploaded = x,
                         !.restored = y, !.generated = z]
  BY <1>1, <1>2
<1>4. /\ q.step = "next" /\ q.key = None /\ q.todo = seeder.todo /\ SameRun(q, seeder)
      /\ q.targets = seeder.targets /\ q.skipped = seeder.skipped /\ q.failed = seeder.failed
      /\ q.uploaded = x /\ q.restored = y /\ q.generated = z
  BY <1>3 DEF Seeder, SameRun
<1>6. q \in Seeder
  BY <1>1, <1>2, <1>3 DEF Seeder, Steps
<1>5. y + z = seeder.restored + seeder.generated + 1
  BY <1>2 DEF Seeder
<1> QED
  BY <1>1, <1>4, <1>5, <1>6

\* What the end of a run changes.
LEMMA StoppedIs ==
  ASSUME seeder \in Seeder, NEW q, q = [Idle EXCEPT !.left = seeder.left]
  PROVE  /\ q \in Seeder /\ q.step = "idle" /\ q.key = None /\ q.todo = {} /\ q.targets = 0
         /\ q.uploaded = 0 /\ q.restored = 0 /\ q.generated = 0 /\ q.skipped = 0 /\ q.failed = 0
BY DEF Idle, Seeder, Steps

-----------------------------------------------------------------------------
(* Types.                                                                  *)

\* The steps of an upload keep the types.
LEMMA TypedUploads ==
  ASSUME MediaTyped, NEW k \in Uploads, Upload(k)
  PROVE  MediaTyped'
<1>1. k \in Keys /\ BucketOf(k) \in Buckets
  BY DEF Keys, BucketOf, Buckets
<1>2. UNCHANGED seeding
  BY DEF Upload, Fetch, Reject, Accept, PutObject, Flush, Refresh, RollBack, CommitUpload, CommitFails, CleanUp
<1>3. UNCHANGED removal
  BY DEF Upload, Fetch, Reject, Accept, PutObject, Flush, Refresh, RollBack, CommitUpload, CommitFails, CleanUp
<1>4. stored' \in [Buckets \X Keys -> {None, "upload", "art"}]
  BY <1>1 DEF Upload, Fetch, Reject, Accept, PutObject, Flush, Refresh, RollBack, CommitUpload, CommitFails, CleanUp,
     Put, MediaTyped, MediaTypeOK
<1>5. rows' \in [Keys -> MediaRow \cup {Unborn, Gone}]
  <2>1. \A ks : Landed(ks) \in [Keys -> MediaRow \cup {Unborn, Gone}]
    BY DEF Landed, NewRow, MediaRow, MediaTyped, MediaTypeOK
  <2> QED
    BY <2>1 DEF Upload, Fetch, Reject, Accept, PutObject, Flush, Refresh, RollBack, CommitUpload, CommitFails, CleanUp,
       MediaTyped, MediaTypeOK
<1>6. pc' \in [Uploads -> Fetching \cup {"unused", "new", "failed", "imported"}]
  BY DEF Upload, Fetch, Reject, Accept, PutObject, Flush, Refresh, RollBack, CommitUpload, CommitFails, CleanUp,
     Goto, Fetching, MediaTyped, MediaTypeOK
<1>7. hit' \subseteq Keys /\ flushed' \subseteq Uploads
  BY <1>1 DEF Upload, Fetch, Reject, Accept, PutObject, Flush, Refresh, RollBack, CommitUpload, CommitFails, CleanUp,
     Hit, MediaTyped, MediaTypeOK
<1> QED
  BY <1>2, <1>3, <1>4, <1>5, <1>6, <1>7 DEF seeding, MediaTyped, MediaTypeOK

\* A crash keeps the types.
LEMMA TypedCrash ==
  ASSUME MediaTyped, Crash
  PROVE  MediaTyped'
<1>1. removal' \in [Keys -> {None, "object", "row"}] /\ hit' \subseteq Keys /\ flushed' \subseteq Uploads
  BY DEF Crash, Keys, MediaTyped, MediaTypeOK
<1>2. pc' \in [Uploads -> Fetching \cup {"unused", "new", "failed", "imported"}]
  BY DEF Crash, MediaTyped, MediaTypeOK
<1> QED
  BY <1>1, <1>2 DEF Crash, seeding, MediaTyped, MediaTypeOK

\* What a commit may write.
LEMMA LandedType ==
  ASSUME rows \in [Keys -> MediaRow \cup {Unborn, Gone}], NEW ks
  PROVE  Landed(ks) \in [Keys -> MediaRow \cup {Unborn, Gone}]
BY DEF Landed, NewRow, MediaRow

\* The end of a request keeps the types.
LEMMA TypedEndRequest ==
  ASSUME MediaTyped, NEW s, EndRequest(s)
  PROVE  MediaTyped'
<1>1. rows' \in [Keys -> MediaRow \cup {Unborn, Gone}]
  BY LandedType DEF EndRequest, MediaTyped, MediaTypeOK
<1> QED
  BY <1>1 DEF EndRequest, seeding, MediaTyped, MediaTypeOK

\* Edits and deletes keep the types.
LEMMA TypedChanges ==
  ASSUME MediaTyped, NEW k \in Keys, Change(k)
  PROVE  MediaTyped'
<1>1. BucketOf(k) \in Buckets
  BY DEF BucketOf, Buckets
<1>2. UNCHANGED seeding
  BY DEF Change, UpdateMedia, AskDeleteMedia, RemoveObject, DeleteRow
<1>3. removal' \in [Keys -> {None, "object", "row"}]
  BY DEF Change, UpdateMedia, AskDeleteMedia, RemoveObject, DeleteRow, MediaTyped, MediaTypeOK
<1>4. stored' \in [Buckets \X Keys -> {None, "upload", "art"}]
  BY <1>1 DEF Change, UpdateMedia, AskDeleteMedia, RemoveObject, DeleteRow, Put, MediaTyped, MediaTypeOK
<1>5. rows' \in [Keys -> MediaRow \cup {Unborn, Gone}]
  <2>2. HasRow(k) => [rows EXCEPT ![k].edited = TRUE] \in [Keys -> MediaRow \cup {Unborn, Gone}]
    BY DEF HasRow, MediaRow, MediaTyped, MediaTypeOK
  <2>3. [rows EXCEPT ![k] = Gone] \in [Keys -> MediaRow \cup {Unborn, Gone}]
    BY DEF MediaTyped, MediaTypeOK
  <2> QED
    <3>1. rows' = rows \/ rows' = [rows EXCEPT ![k] = Gone]
            \/ (HasRow(k) /\ rows' = [rows EXCEPT ![k].edited = TRUE])
      BY DEF Change, UpdateMedia, AskDeleteMedia, RemoveObject, DeleteRow
    <3>2. rows \in [Keys -> MediaRow \cup {Unborn, Gone}]
      BY DEF MediaTyped, MediaTypeOK
    <3> QED
      BY <2>2, <2>3, <3>1, <3>2
<1>6. pc' \in [Uploads -> Fetching \cup {"unused", "new", "failed", "imported"}]
  BY DEF Change, UpdateMedia, AskDeleteMedia, RemoveObject, DeleteRow, uploading, MediaTyped, MediaTypeOK
<1>7. hit' \subseteq Keys /\ flushed' \subseteq Uploads
  BY DEF Change, UpdateMedia, AskDeleteMedia, RemoveObject, DeleteRow, uploading, Hit, Keys,
     MediaTyped, MediaTypeOK
<1> QED
  BY <1>2, <1>3, <1>4, <1>5, <1>6, <1>7 DEF seeding, MediaTyped, MediaTypeOK

\* The steps of the script keep the types.
LEMMA TypedSeeding ==
  ASSUME MediaTyped, NEW k \in Keys, Seed(k)
  PROVE  MediaTyped'
<1>1. <<"public", k>> \in Buckets \X Keys
  BY DEF Buckets
<1>2. UNCHANGED <<uploading, removal>>
  BY DEF Seed, Take, Look, Draw, Keep, PutArt, Record, Interrupt
<1>4. stored' \in [Buckets \X Keys -> {None, "upload", "art"}]
  BY <1>1 DEF Seed, Take, Look, Draw, Keep, PutArt, Record, Interrupt, Put, MediaTyped, MediaTypeOK
<1>5. rows' \in [Keys -> MediaRow \cup {Unborn, Gone}]
  <2>1. Recorded(k) \in [Keys -> MediaRow \cup {Unborn, Gone}]
    BY DEF Recorded, HasRow, MediaRow, MediaTyped, MediaTypeOK
  <2> QED
    BY <2>1 DEF Seed, Take, Look, Draw, Keep, PutArt, Record, Interrupt, MediaTyped, MediaTypeOK
<1>6. /\ seeder' \in Seeder /\ (seeder'.step = "idle" => seeder'.todo = {})
      /\ IF seeder'.step \in {"idle", "next"} THEN seeder'.key = None ELSE seeder'.key \in Keys
  <2>0. seeder \in Seeder
    BY DEF MediaTyped
  <2>1. CASE Take(k)
    BY <2>0, <2>1, TakenIs
  <2>2. CASE Look(k)
    <3>1. PICK q : q = [seeder EXCEPT !.step = "draw"]
      OBVIOUS
    <3>2. q \in Seeder /\ q.step = "draw" /\ q.key = seeder.key /\ q.todo = seeder.todo
      BY <2>0, <3>1, MovedIs DEF Steps
    <3>3. seeder.key = k /\ seeder' \in {Skipped, Failed, FromCache(seeder), q}
      BY <2>2, <3>1 DEF Look, Working
    <3> QED
      BY <2>0, <3>2, <3>3, SkippedIs, FailedIs, FromCacheIs
  <2>3. CASE Draw(k) \/ Keep(k)
    BY <2>0, <2>3, MovedIs, FailedIs DEF Draw, Keep, Working, Steps
  <2>4. CASE PutArt(k)
    BY <2>0, <2>4, MovedIs, FailedIs DEF PutArt, Working, Steps
  <2>5. CASE Record(k)
    BY <2>0, <2>5, DoneIs, FailedIs DEF Record, Working
  <2>6. CASE Interrupt(k)
    BY <2>0, <2>6, StoppedIs DEF Interrupt
  <2> QED
    BY <2>1, <2>2, <2>3, <2>4, <2>5, <2>6 DEF Seed
<1>7. hit' \subseteq Keys /\ cache' \subseteq Keys /\ drawn' \in [Keys -> Nat] /\ forced' \in BOOLEAN
  BY DEF Seed, Take, Look, Draw, Keep, PutArt, Record, Interrupt, Hit, MediaTyped, MediaTypeOK
<1>8. DOMAIN seeder' = DOMAIN Idle /\ seeder'.todo \subseteq Keys
  BY <1>6 DEF Seeder, Idle
<1> QED
  BY <1>2, <1>4, <1>5, <1>6, <1>7, <1>8 DEF uploading, MediaTyped, MediaTypeOK

\* What a run starts with.
LEMMA StartIs ==
  ASSUME MediaTyped, Finite, NEW force \in BOOLEAN, NEW api \in BOOLEAN, NEW backup \in BOOLEAN,
         StartSeeding(force, api, backup)
  PROVE  /\ seeder' \in Seeder /\ seeder'.step = "next" /\ seeder'.key = None /\ seeder'.todo = Born
         /\ seeder'.targets = Cardinality(Born) /\ seeder'.force = force /\ seeder'.backup = backup
         /\ seeder'.uploaded = 0 /\ seeder'.restored = 0 /\ seeder'.generated = 0
         /\ seeder'.skipped = 0 /\ seeder'.failed = 0
<1>1. PICK q : q = seeder'
  OBVIOUS
<1>2. q = [Idle EXCEPT !.left = seeder.left - 1, !.step = "next", !.todo = Born,
                       !.force = force, !.api = api, !.backup = backup, !.targets = Cardinality(Born)]
  BY <1>1 DEF StartSeeding, Born
<1>3. seeder.left \in Nat /\ seeder.left > 0 /\ Born \in SUBSET Keys
  BY DEF StartSeeding, MediaTyped, Seeder, Born
<1>4. Cardinality(Born) \in Nat
  BY FS_CardinalityType DEF Finite
<1>5. PICK left \in Nat, targets \in Nat, todo \in SUBSET Keys :
        left = seeder.left - 1 /\ targets = Cardinality(Born) /\ todo = Born
  BY <1>3, <1>4
<1>6. q = [left |-> left, step |-> "next", todo |-> todo, key |-> None, cached |-> FALSE,
           force |-> force, api |-> api, backup |-> backup, targets |-> targets,
           uploaded |-> 0, restored |-> 0, generated |-> 0, skipped |-> 0, failed |-> 0]
  BY <1>2, <1>5 DEF Idle
<1>7. q \in Seeder
  <2>1. [left |-> left, step |-> "next", todo |-> todo, key |-> None, cached |-> FALSE,
         force |-> force, api |-> api, backup |-> backup, targets |-> targets,
         uploaded |-> 0, restored |-> 0, generated |-> 0, skipped |-> 0, failed |-> 0] \in Seeder
    BY DEF Seeder, Steps
  <2> QED
    BY <1>6, <2>1, Zenon
<1>8. /\ q.step = "next" /\ q.key = None /\ q.todo = todo /\ q.targets = targets
      /\ q.force = force /\ q.backup = backup
      /\ q.uploaded = 0 /\ q.restored = 0 /\ q.generated = 0 /\ q.skipped = 0 /\ q.failed = 0
  BY <1>6
<1> QED
  BY <1>1, <1>5, <1>7, <1>8

\* The start and the end of a run keep the types.
LEMMA TypedRuns ==
  ASSUME MediaTyped, Finite, NEW force \in BOOLEAN, NEW api \in BOOLEAN, NEW backup \in BOOLEAN,
         StartSeeding(force, api, backup) \/ EndSeeding \/ WipeVolumes
  PROVE  MediaTyped'
<1>1. CASE StartSeeding(force, api, backup)
  <2>1. seeder' \in Seeder /\ seeder'.step = "next" /\ seeder'.key = None
    BY <1>1, StartIs
  <2>2. DOMAIN seeder' = DOMAIN Idle /\ seeder'.todo \subseteq Keys
    BY <2>1 DEF Seeder, Idle
  <2>3. forced' \in BOOLEAN
    BY <1>1 DEF StartSeeding, MediaTyped, MediaTypeOK
  <2> QED
    BY <1>1, <2>1, <2>2, <2>3 DEF StartSeeding, uploading, MediaTyped, MediaTypeOK
<1>2. CASE EndSeeding
  <2>1. PICK q : q = [seeder EXCEPT !.step = "idle"]
    OBVIOUS
  <2>2. q \in Seeder /\ q.step = "idle" /\ q.key = seeder.key /\ q.todo = seeder.todo
    BY <2>1, MovedIs DEF Steps, MediaTyped
  <2>3. seeder' = q /\ seeder.key = None /\ seeder.todo = {}
    BY <1>2, <2>1 DEF EndSeeding, Seeding, MediaTyped, MediaTypeOK
  <2>4. DOMAIN seeder' = DOMAIN Idle
    BY <2>2, <2>3 DEF Seeder, Idle
  <2> QED
    BY <1>2, <2>2, <2>3, <2>4 DEF EndSeeding, uploading, MediaTyped, MediaTypeOK
<1>3. CASE WipeVolumes
  <2>1. stored' \in [Buckets \X Keys -> {None, "upload", "art"}]
    BY <1>3 DEF WipeVolumes, NoObjects
  <2>2. rows' \in [Keys -> MediaRow \cup {Unborn, Gone}]
    BY <1>3 DEF WipeVolumes, InitialRows, NewRow, MediaRow
  <2> QED
    BY <1>3, <2>1, <2>2 DEF WipeVolumes, uploading, seeding, MediaTyped, MediaTypeOK
<1> QED
  BY <1>1, <1>2, <1>3

\* Every step keeps the types.
LEMMA StepTyped ==
  ASSUME MediaTyped, Finite, [MediaNext]_mediaVars
  PROVE  MediaTyped'
<1>1. CASE UNCHANGED mediaVars
  BY <1>1 DEF mediaVars, uploading, seeding, MediaTyped, MediaTypeOK
<1>2. ASSUME NEW k \in Uploads, Upload(k)
      PROVE  MediaTyped'
  BY <1>2, TypedUploads
<1>3. CASE Crash
  BY <1>3, TypedCrash
<1>4. ASSUME NEW s \in Sessions, EndRequest(s)
      PROVE  MediaTyped'
  BY <1>4, TypedEndRequest
<1>5. ASSUME NEW k \in Keys, Change(k)
      PROVE  MediaTyped'
  BY <1>5, TypedChanges
<1>6. ASSUME NEW k \in Keys, Seed(k)
      PROVE  MediaTyped'
  BY <1>6, TypedSeeding
<1> QED
  BY <1>1, <1>2, <1>3, <1>4, <1>5, <1>6, TypedRuns DEF MediaNext

-----------------------------------------------------------------------------
(* What a step of an upload touches.                                       *)

\* The other uploads keep their place and their objects; what is no longer
\* flushed is of k's session, and a row appears only from there.
UploadTouches(k) ==
  /\ \A o \in Uploads \ {k} : pc'[o] = pc[o]
  /\ \A o \in Keys \ {k}, b \in Buckets : stored'[<<b, o>>] = stored[<<b, o>>]
  /\ \A b \in Buckets : stored'[<<b, k>>] \in {stored[<<b, k>>], "upload", None}
  /\ BucketOf(k) = "private" => stored'[<<"public", k>>] = stored[<<"public", k>>]
  /\ hit \subseteq hit' /\ hit' \subseteq hit \cup {k}
  /\ flushed' \subseteq flushed \cup {k}
  /\ \A o \in Keys :
       \/ rows'[o] = rows[o]
       \/ o \in FlushedWith(k) /\ o \notin flushed' /\ rows'[o] = NewRow(o, "upload")
  /\ \A o \in flushed \ flushed' : o \in FlushedWith(k) /\ (pc[k] = "commit" \/ ~Committing(k))
  /\ UNCHANGED <<removal, seeding>>

\* An upload touches its own row, object and place in the request only.
LEMMA UploadFrame ==
  ASSUME MediaTyped, NEW k \in Uploads, Upload(k)
  PROVE  UploadTouches(k)
<1>1. k \in Keys /\ BucketOf(k) \in Buckets /\ Buckets = {"public", "private"}
  BY DEF Keys, BucketOf, Buckets
<1>2. /\ pc \in [Uploads -> Fetching \cup {"unused", "new", "failed", "imported"}]
      /\ stored \in [Buckets \X Keys -> {None, "upload", "art"}]
      /\ rows \in [Keys -> MediaRow \cup {Unborn, Gone}]
  BY DEF MediaTyped, MediaTypeOK
<1>3. \A o \in Uploads \ {k} : pc'[o] = pc[o]
  BY <1>2 DEF Upload, Fetch, Reject, Accept, PutObject, Flush, Refresh, RollBack, CommitUpload, CommitFails, CleanUp,
     Goto
<1>4. UNCHANGED stored \/ \E w \in {"upload", None} : stored' = [stored EXCEPT ![<<BucketOf(k), k>>] = w]
  BY DEF Upload, Fetch, Reject, Accept, PutObject, Flush, Refresh, RollBack, CommitUpload, CommitFails, CleanUp, Put
<1>5. /\ \A o \in Keys \ {k}, b \in Buckets : stored'[<<b, o>>] = stored[<<b, o>>]
      /\ \A b \in Buckets : stored'[<<b, k>>] \in {stored[<<b, k>>], "upload", None}
      /\ BucketOf(k) = "private" => stored'[<<"public", k>>] = stored[<<"public", k>>]
  <2>1. CASE UNCHANGED stored
    BY <2>1
  <2>2. ASSUME NEW w \in {"upload", None}, stored' = [stored EXCEPT ![<<BucketOf(k), k>>] = w]
        PROVE  /\ \A o \in Keys \ {k}, b \in Buckets : stored'[<<b, o>>] = stored[<<b, o>>]
               /\ \A b \in Buckets : stored'[<<b, k>>] \in {stored[<<b, k>>], w}
               /\ BucketOf(k) = "private" => stored'[<<"public", k>>] = stored[<<"public", k>>]
    <3>1. \A c \in Buckets \X Keys : stored'[c] = IF c = <<BucketOf(k), k>> THEN w ELSE stored[c]
      BY <1>2, <2>2
    <3> QED
      BY <1>1, <3>1
  <2> QED
    BY <1>4, <2>1, <2>2
<1>6. hit \subseteq hit' /\ hit' \subseteq hit \cup {k}
  BY DEF Upload, Fetch, Reject, Accept, PutObject, Flush, Refresh, RollBack, CommitUpload, CommitFails, CleanUp, Hit
<1>7. flushed' \subseteq flushed \cup {k}
  BY DEF Upload, Fetch, Reject, Accept, PutObject, Flush, Refresh, RollBack, CommitUpload, CommitFails, CleanUp
<1>8. UNCHANGED rows \/ (rows' = Landed(FlushedWith(k)) /\ flushed' = flushed \ FlushedWith(k))
  BY DEF Upload, Fetch, Reject, Accept, PutObject, Flush, Refresh, RollBack, CommitUpload, CommitFails, CleanUp
<1>9. \A o \in Keys :
        \/ rows'[o] = rows[o]
        \/ o \in FlushedWith(k) /\ o \notin flushed' /\ rows'[o] = NewRow(o, "upload")
  BY <1>8 DEF Landed
<1>10. \A o \in flushed \ flushed' : o \in FlushedWith(k) /\ (pc[k] = "commit" \/ ~Committing(k))
  BY DEF Upload, Fetch, Reject, Accept, PutObject, Flush, Refresh, RollBack, CommitUpload, CommitFails, CleanUp, At
<1>11. UNCHANGED <<removal, seeding>>
  BY DEF Upload, Fetch, Reject, Accept, PutObject, Flush, Refresh, RollBack, CommitUpload, CommitFails, CleanUp
<1> QED
  BY <1>3, <1>5, <1>6, <1>7, <1>9, <1>10, <1>11 DEF UploadTouches

\* A row, once there, is neither of the two ways to be absent.
LEMMA MediaRowIs ==
  ASSUME NEW k, NEW d \in {None, "upload", "art"}
  PROVE  NewRow(k, d) \notin {Unborn, Gone} /\ NewRow(k, d).describes = d
<1>1. NewRow(k, d) \in MediaRow
  BY DEF NewRow, MediaRow
<1>2. {Unborn, Gone} \cap MediaRow = {}
  BY AbsentMediaAssumption
<1>3. NewRow(k, d) \notin {Unborn, Gone}
  BY <1>1, <1>2, Zenon
<1> QED
  BY <1>3 DEF NewRow

-----------------------------------------------------------------------------
(* Rows and their writers.                                                 *)

\* The steps of an upload keep what a row was, is and may become.
LEMMA LifeUploads ==
  ASSUME MediaTyped, Life, NEW k \in Uploads, Upload(k)
  PROVE  Life'
<1>1. UploadTouches(k)
  BY UploadFrame
<1>2. k \in Keys /\ Uploads \subseteq Keys
  BY DEF Keys
<1>3. pc \in [Uploads -> Fetching \cup {"unused", "new", "failed", "imported"}]
  BY DEF MediaTyped, MediaTypeOK
<1>4. \A o \in Keys : rows[o] # Unborn => rows'[o] # Unborn
  BY <1>1, MediaRowIs DEF UploadTouches
<1>5. ASSUME NEW o \in Uploads
      PROVE  /\ pc'[o] \in {"unused", "new", "owner", "put", "flush"} => rows'[o] = Unborn /\ o \notin flushed'
             /\ o \in flushed' => rows'[o] = Unborn
             /\ pc'[o] = "commit" => o \in flushed' \/ rows'[o] # Unborn
             /\ pc'[o] = "imported" => rows'[o] # Unborn
             /\ pc'[o] = "commit" => \A u \in Siblings(o) : pc'[u] # "commit"
  <2>0. /\ pc[o] \in {"unused", "new", "owner", "put", "flush"} => rows[o] = Unborn /\ o \notin flushed
        /\ o \in flushed => rows[o] = Unborn
        /\ pc[o] = "commit" => o \in flushed \/ rows[o] # Unborn
        /\ pc[o] = "imported" => rows[o] # Unborn
        /\ pc[o] = "commit" => \A u \in Siblings(o) : pc[u] # "commit"
    BY DEF Life
  <2>1. CASE o # k
    <3>1. pc'[o] = pc[o] /\ (o \in flushed' => o \in flushed)
      BY <1>1, <2>1 DEF UploadTouches
    <3>2. o \notin flushed => rows'[o] = rows[o]
      BY <1>1, <1>2 DEF UploadTouches, FlushedWith
    <3>3. o \in flushed' => rows'[o] = rows[o]
      BY <1>1, <1>2 DEF UploadTouches
    <3>4. pc[o] = "commit" /\ o \in flushed => o \in flushed'
      <4>1. SUFFICES ASSUME pc[o] = "commit", o \in flushed, o \notin flushed'
                     PROVE  FALSE
        OBVIOUS
      <4>2. o \in Siblings(k) /\ k \in Siblings(o) /\ (pc[k] = "commit" \/ ~Committing(k))
        BY <1>1, <2>1, <4>1 DEF UploadTouches, FlushedWith, Siblings
      <4> QED
        BY <2>0, <4>1, <4>2 DEF Committing
    <3>5. pc[o] = "commit" => \A u \in Siblings(o) : pc'[u] # "commit"
      <4>1. SUFFICES ASSUME pc[o] = "commit", NEW u \in Siblings(o), pc'[u] = "commit"
                     PROVE  FALSE
        OBVIOUS
      <4>2. u = k /\ pc[k] # "commit" /\ u \in Uploads
        BY <1>1, <2>0, <4>1 DEF UploadTouches, Siblings
      <4>3. ~Committing(k)
        BY <1>3, <4>1, <4>2 DEF Upload, Fetch, Reject, Accept, PutObject, Flush, Refresh, RollBack, CommitUpload,
           CommitFails, CleanUp, Goto
      <4>4. o \in Siblings(k)
        BY <4>1, <4>2, <2>1 DEF Siblings
      <4> QED
        BY <4>1, <4>3, <4>4 DEF Committing
    <3> QED
      BY <1>2, <1>4, <2>0, <3>1, <3>2, <3>3, <3>4, <3>5
  <2>2. CASE o = k
    <3>1. CASE pc'[k] \in {"unused", "new", "owner", "put", "flush"}
      <4>1. UNCHANGED <<rows, flushed>> /\ pc[k] \in {"new", "owner", "put"}
        BY <1>3, <3>1 DEF Upload, Fetch, Reject, Accept, PutObject, Flush, Refresh, RollBack, CommitUpload,
           CommitFails, CleanUp, Goto, At
      <4> QED
        BY <2>0, <2>2, <3>1, <4>1
    <3>2. k \in flushed' => rows'[k] = Unborn
      <4>1. k \in flushed' => rows'[k] = rows[k]
        BY <1>1, <1>2 DEF UploadTouches
      <4>2. k \in flushed' => k \in flushed \/ pc[k] = "flush"
        BY DEF Upload, Fetch, Reject, Accept, PutObject, Flush, Refresh, RollBack, CommitUpload,
           CommitFails, CleanUp, At
      <4> QED
        BY <2>0, <2>2, <4>1, <4>2
    <3>3. CASE pc'[k] = "commit"
      <4>1. Visible(k) /\ ~Committing(k) /\ UNCHANGED <<rows, flushed>>
        BY <1>3, <3>3 DEF Upload, Fetch, Reject, Accept, PutObject, Flush, Refresh, RollBack, CommitUpload,
           CommitFails, CleanUp, Goto
      <4>2. \A u \in Siblings(k) : pc'[u] = pc[u]
        BY <1>1 DEF UploadTouches, Siblings
      <4> QED
        BY <2>2, <3>2, <3>3, <4>1, <4>2 DEF Visible, HasRow, Committing
    <3>4. CASE pc'[k] = "imported"
      <4>1. CommitUpload(k)
        BY <1>3, <3>4 DEF Upload, Fetch, Reject, Accept, PutObject, Flush, Refresh, RollBack,
           CommitFails, CleanUp, Goto
      <4>2. CASE k \in flushed
        <5>1. rows'[k] = NewRow(k, "upload")
          BY <1>2, <4>1, <4>2 DEF CommitUpload, Landed, FlushedWith
        <5> QED
          BY <2>2, <3>2, <3>4, <5>1, MediaRowIs
      <4>3. CASE k \notin flushed
        BY <1>2, <1>4, <2>0, <2>2, <3>2, <3>4, <4>1, <4>3 DEF CommitUpload, At
      <4> QED
        BY <4>2, <4>3
    <3> QED
      BY <2>2, <3>1, <3>2, <3>3, <3>4
  <2> QED
    BY <2>1, <2>2
<1>6. ASSUME NEW o \in Keys
      PROVE  /\ removal'[o] # None => rows'[o] # Unborn
             /\ o \in seeder'.todo \/ o = seeder'.key => rows'[o] # Unborn
             /\ stored'[<<"public", o>>] = "art" => rows'[o] # Unborn
  <2>1. UNCHANGED <<removal, seeder>>
    BY <1>1 DEF UploadTouches, seeding
  <2>2. stored'[<<"public", o>>] = "art" => stored[<<"public", o>>] = "art"
    BY <1>1, AbsentMediaAssumption DEF UploadTouches, Buckets
  <2> QED
    BY <1>4, <2>1, <2>2 DEF Life, Picture
<1> QED
  BY <1>5, <1>6 DEF Life, Siblings, Picture

\* The end of a request keeps what a row was, is and may become.
LEMMA LifeEndRequest ==
  ASSUME MediaTyped, Life, NEW s, EndRequest(s)
  PROVE  Life'
<1>1. PICK left : /\ left = {k \in flushed : SessionOf[k] = s}
                  /\ flushed' = flushed \ left
                  /\ rows' = rows \/ rows' = Landed(left)
                  /\ \A k \in Uploads : SessionOf[k] = s => pc[k] \in {"unused", "failed", "imported"}
                  /\ UNCHANGED <<stored, pc, removal, hit, seeding>>
  BY DEF EndRequest
<1>2. \A o \in Keys : rows'[o] = rows[o] \/ (o \in left /\ rows'[o] = NewRow(o, "upload"))
  BY <1>1 DEF Landed
<1>3. \A o \in Keys : rows[o] # Unborn => rows'[o] # Unborn
  BY <1>2, MediaRowIs
<1>4. ASSUME NEW o \in Uploads
      PROVE  /\ pc'[o] \in {"unused", "new", "owner", "put", "flush"} => rows'[o] = Unborn /\ o \notin flushed'
             /\ o \in flushed' => rows'[o] = Unborn
             /\ pc'[o] = "commit" => o \in flushed' \/ rows'[o] # Unborn
             /\ pc'[o] = "imported" => rows'[o] # Unborn
             /\ pc'[o] = "commit" => \A u \in Siblings(o) : pc'[u] # "commit"
  BY <1>1, <1>2, <1>3 DEF Life, Keys
<1>5. ASSUME NEW o \in Keys
      PROVE  /\ removal'[o] # None => rows'[o] # Unborn
             /\ o \in seeder'.todo \/ o = seeder'.key => rows'[o] # Unborn
             /\ stored'[<<"public", o>>] = "art" => rows'[o] # Unborn
  BY <1>1, <1>3 DEF Life, Picture, seeding
<1> QED
  BY <1>4, <1>5 DEF Life, Siblings, Picture

\* A crash keeps what a row was, is and may become.
LEMMA LifeCrash ==
  ASSUME MediaTyped, Life, Crash
  PROVE  Life'
<1>1. /\ pc' = [k \in Uploads |-> IF pc[k] \in Fetching THEN "failed" ELSE pc[k]]
      /\ flushed' = {} /\ removal' = [k \in Keys |-> None]
      /\ UNCHANGED <<stored, rows, seeder>>
  BY DEF Crash, seeding
<1>2. ASSUME NEW o \in Uploads
      PROVE  /\ pc'[o] \in {"unused", "new", "owner", "put", "flush"} => rows'[o] = Unborn /\ o \notin flushed'
             /\ pc'[o] # "commit"
             /\ pc'[o] = "imported" => rows'[o] # Unborn
  BY <1>1 DEF Life, Fetching
<1> QED
  BY <1>1, <1>2 DEF Life, Siblings, Picture

-----------------------------------------------------------------------------
(* What an update or a delete touches.                                     *)

ChangeTouches(k) ==
  /\ \A o \in Keys \ {k} : rows'[o] = rows[o] /\ removal'[o] = removal[o]
  /\ \A o \in Keys \ {k}, b \in Buckets : stored'[<<b, o>>] = stored[<<b, o>>]
  /\ \A b \in Buckets : stored'[<<b, k>>] \in {stored[<<b, k>>], None}
  /\ BucketOf(k) = "private" => stored'[<<"public", k>>] = stored[<<"public", k>>]
  /\ rows'[k] = rows[k] \/ HasRow(k) \/ removal[k] = "row"
  /\ \/ rows'[k] = rows[k]
     \/ rows'[k] = Gone
     \/ HasRow(k) /\ rows'[k] \notin {Unborn, Gone} /\ rows'[k].describes = rows[k].describes
  /\ hit \subseteq hit' /\ hit' \subseteq hit \cup {k}
  /\ UNCHANGED <<uploading, seeding>>

\* What an edit of a row changes.
LEMMA EditIs ==
  ASSUME rows \in [Keys -> MediaRow \cup {Unborn, Gone}], NEW k \in Keys, HasRow(k), NEW r,
         r = [rows EXCEPT ![k].edited = TRUE]
  PROVE  r[k] \notin {Unborn, Gone} /\ r[k].describes = rows[k].describes
<1>1. rows[k] \in MediaRow
  BY DEF HasRow
<1>2. r[k] = [rows[k] EXCEPT !.edited = TRUE]
  OBVIOUS
<1>3. [rows[k] EXCEPT !.edited = TRUE] \in MediaRow
  BY <1>1 DEF MediaRow
<1>4. r[k] \notin {Unborn, Gone}
  BY <1>2, <1>3, AbsentMediaAssumption, Zenon
<1>5. r[k].describes = rows[k].describes
  BY <1>1, <1>2 DEF MediaRow
<1> QED
  BY <1>4, <1>5

\* An edit or a delete touches one row and its object only.
LEMMA ChangeFrame ==
  ASSUME MediaTyped, NEW k \in Keys, Change(k)
  PROVE  ChangeTouches(k)
<1>1. BucketOf(k) \in Buckets /\ Buckets = {"public", "private"}
  BY DEF BucketOf, Buckets
<1>2. /\ stored \in [Buckets \X Keys -> {None, "upload", "art"}]
      /\ rows \in [Keys -> MediaRow \cup {Unborn, Gone}]
      /\ removal \in [Keys -> {None, "object", "row"}]
  BY DEF MediaTyped, MediaTypeOK
<1>3. UNCHANGED stored \/ stored' = [stored EXCEPT ![<<BucketOf(k), k>>] = None]
  BY DEF Change, UpdateMedia, AskDeleteMedia, RemoveObject, DeleteRow, Put
<1>4. /\ \A o \in Keys \ {k}, b \in Buckets : stored'[<<b, o>>] = stored[<<b, o>>]
      /\ \A b \in Buckets : stored'[<<b, k>>] \in {stored[<<b, k>>], None}
      /\ BucketOf(k) = "private" => stored'[<<"public", k>>] = stored[<<"public", k>>]
  <2>1. CASE UNCHANGED stored
    BY <2>1
  <2>2. CASE stored' = [stored EXCEPT ![<<BucketOf(k), k>>] = None]
    <3>1. \A c \in Buckets \X Keys : stored'[c] = IF c = <<BucketOf(k), k>> THEN None ELSE stored[c]
      BY <1>2, <2>2
    <3> QED
      BY <1>1, <3>1
  <2> QED
    BY <1>3, <2>1, <2>2
<1>5. \A o \in Keys \ {k} : rows'[o] = rows[o] /\ removal'[o] = removal[o]
  BY <1>2 DEF Change, UpdateMedia, AskDeleteMedia, RemoveObject, DeleteRow
<1>6. /\ rows'[k] = rows[k] \/ HasRow(k) \/ removal[k] = "row"
      /\ \/ rows'[k] = rows[k]
         \/ rows'[k] = Gone
         \/ HasRow(k) /\ rows'[k] \notin {Unborn, Gone} /\ rows'[k].describes = rows[k].describes
  <2>1. CASE UpdateMedia(k)
    BY <1>2, <2>1, EditIs DEF UpdateMedia
  <2>2. CASE AskDeleteMedia(k) \/ RemoveObject(k) \/ DeleteRow(k)
    BY <1>2, <2>2 DEF AskDeleteMedia, RemoveObject, DeleteRow
  <2> QED
    BY <2>1, <2>2 DEF Change
<1>7. hit \subseteq hit' /\ hit' \subseteq hit \cup {k}
  BY DEF Change, UpdateMedia, AskDeleteMedia, RemoveObject, DeleteRow, Hit
<1>8. UNCHANGED <<uploading, seeding>>
  BY DEF Change, UpdateMedia, AskDeleteMedia, RemoveObject, DeleteRow
<1> QED
  BY <1>4, <1>5, <1>6, <1>7, <1>8 DEF ChangeTouches

\* Edits and deletes keep what a row was, is and may become.
LEMMA LifeChanges ==
  ASSUME MediaTyped, Life, NEW k \in Keys, Change(k)
  PROVE  Life'
<1>1. ChangeTouches(k)
  BY ChangeFrame
<1>2. removal[k] = "row" => rows[k] # Unborn
  BY AbsentMediaAssumption DEF Life
<1>3. \A o \in Keys : (rows'[o] = Unborn) <=> (rows[o] = Unborn)
  BY <1>1, <1>2, AbsentAssumption DEF ChangeTouches, HasRow
<1>4. UNCHANGED <<pc, flushed, seeder>> /\ Uploads \subseteq Keys
  BY <1>1 DEF ChangeTouches, uploading, seeding, Keys
<1>5. ASSUME NEW o \in Keys
      PROVE  /\ removal'[o] # None => rows'[o] # Unborn
             /\ stored'[<<"public", o>>] = "art" => rows'[o] # Unborn
  <2>1. removal'[o] # None => rows[o] # Unborn
    <3>1. CASE o # k
      BY <1>1, <3>1 DEF ChangeTouches, Life
    <3>2. CASE o = k
      <4>1. UNCHANGED removal \/ HasRow(k) \/ removal[k] # None
        BY AbsentMediaAssumption DEF Change, UpdateMedia, AskDeleteMedia, RemoveObject, DeleteRow
      <4> QED
        BY <3>2, <4>1 DEF Life, HasRow
    <3> QED
      BY <3>1, <3>2
  <2>2. stored'[<<"public", o>>] = "art" => stored[<<"public", o>>] = "art"
    BY <1>1, AbsentMediaAssumption DEF ChangeTouches, Buckets
  <2> QED
    BY <1>3, <2>1, <2>2 DEF Life, Picture
<1> QED
  BY <1>3, <1>4, <1>5 DEF Life, Siblings, Picture

-----------------------------------------------------------------------------
(* What a step of the script touches.                                      *)

SeedTouches(k) ==
  /\ \A o \in Keys \ {k} : rows'[o] = rows[o]
  /\ \A o \in Keys \ {k}, b \in Buckets : stored'[<<b, o>>] = stored[<<b, o>>]
  /\ stored'[<<"private", k>>] = stored[<<"private", k>>]
  /\ stored'[<<"public", k>>] \in {stored[<<"public", k>>], "art"}
  /\ \/ rows'[k] = rows[k]
     \/ HasRow(k) /\ rows'[k] \notin {Unborn, Gone} /\ rows'[k].describes = "art"
  /\ hit \subseteq hit' /\ hit' \subseteq hit \cup {k}
  /\ seeder'.todo \subseteq seeder.todo /\ seeder'.key \in {k, None}
  /\ k \in seeder.todo \/ k = seeder.key
  /\ UNCHANGED <<uploading, removal, forced>>

\* What the script leaves when it has recorded a key.
LEMMA RecordedIs ==
  ASSUME rows \in [Keys -> MediaRow \cup {Unborn, Gone}], NEW k \in Keys, HasRow(k)
  PROVE  Recorded(k)[k] \notin {Unborn, Gone} /\ Recorded(k)[k].describes = "art"
<1>1. rows[k] \in MediaRow
  BY DEF HasRow
<1>2. Recorded(k)[k] = [rows[k] EXCEPT !.describes = "art"]
  BY DEF Recorded
<1>3. [rows[k] EXCEPT !.describes = "art"] \in MediaRow
  BY <1>1 DEF MediaRow
<1>4. Recorded(k)[k] \notin {Unborn, Gone}
  BY <1>2, <1>3, AbsentMediaAssumption, Zenon
<1>5. Recorded(k)[k].describes = "art"
  BY <1>1, <1>2 DEF MediaRow
<1> QED
  BY <1>4, <1>5

\* A step of the script touches the row and the objects of its key only.
LEMMA SeedFrame ==
  ASSUME MediaTyped, NEW k \in Keys, Seed(k)
  PROVE  SeedTouches(k)
<1>1. Buckets = {"public", "private"}
  BY DEF Buckets
<1>2. /\ stored \in [Buckets \X Keys -> {None, "upload", "art"}]
      /\ rows \in [Keys -> MediaRow \cup {Unborn, Gone}]
      /\ seeder \in Seeder
  BY DEF MediaTyped, MediaTypeOK
<1>3. UNCHANGED stored \/ stored' = [stored EXCEPT ![<<"public", k>>] = "art"]
  BY DEF Seed, Take, Look, Draw, Keep, PutArt, Record, Interrupt, Put
<1>4. /\ \A o \in Keys \ {k}, b \in Buckets : stored'[<<b, o>>] = stored[<<b, o>>]
      /\ stored'[<<"private", k>>] = stored[<<"private", k>>]
      /\ stored'[<<"public", k>>] \in {stored[<<"public", k>>], "art"}
  <2>1. CASE UNCHANGED stored
    BY <2>1
  <2>2. CASE stored' = [stored EXCEPT ![<<"public", k>>] = "art"]
    <3>1. \A c \in Buckets \X Keys : stored'[c] = IF c = <<"public", k>> THEN "art" ELSE stored[c]
      BY <1>2, <2>2
    <3> QED
      BY <1>1, <3>1
  <2> QED
    BY <1>3, <2>1, <2>2
<1>5. UNCHANGED rows \/ rows' = Recorded(k)
  BY DEF Seed, Take, Look, Draw, Keep, PutArt, Record, Interrupt
<1>6. /\ \A o \in Keys \ {k} : rows'[o] = rows[o]
      /\ \/ rows'[k] = rows[k]
         \/ HasRow(k) /\ rows'[k] \notin {Unborn, Gone} /\ rows'[k].describes = "art"
  <2>1. CASE UNCHANGED rows
    BY <2>1
  <2>2. CASE rows' = Recorded(k)
    <3>1. \A o \in Keys \ {k} : rows'[o] = rows[o]
      BY <1>2, <2>2 DEF Recorded
    <3>2. HasRow(k) \/ rows' = rows
      BY <2>2 DEF Recorded
    <3> QED
      BY <1>2, <2>2, <3>1, <3>2, RecordedIs
  <2> QED
    BY <1>5, <2>1, <2>2
<1>7. hit \subseteq hit' /\ hit' \subseteq hit \cup {k}
  BY DEF Seed, Take, Look, Draw, Keep, PutArt, Record, Interrupt, Hit
<1>8. /\ seeder'.todo \subseteq seeder.todo /\ seeder'.key \in {k, None}
      /\ k \in seeder.todo \/ k = seeder.key
  <2>1. CASE Take(k)
    BY <1>2, <2>1, TakenIs DEF Take
  <2>2. CASE Look(k)
    <3>1. PICK q : q = [seeder EXCEPT !.step = "draw"]
      OBVIOUS
    <3>2. q.key = seeder.key /\ q.todo = seeder.todo
      BY <1>2, <3>1, MovedIs DEF Steps
    <3>3. seeder.key = k /\ seeder' \in {Skipped, Failed, FromCache(seeder), q}
      BY <2>2, <3>1 DEF Look, Working
    <3> QED
      BY <1>2, <3>2, <3>3, SkippedIs, FailedIs, FromCacheIs
  <2>3. CASE Draw(k) \/ Keep(k)
    BY <1>2, <2>3, MovedIs, FailedIs DEF Draw, Keep, Working, Steps
  <2>4. CASE PutArt(k)
    BY <1>2, <2>4, MovedIs, FailedIs DEF PutArt, Working, Steps
  <2>5. CASE Record(k)
    BY <1>2, <2>5, DoneIs, FailedIs DEF Record, Working
  <2>6. CASE Interrupt(k)
    BY <1>2, <2>6, StoppedIs DEF Interrupt
  <2> QED
    BY <2>1, <2>2, <2>3, <2>4, <2>5, <2>6 DEF Seed
<1>9. UNCHANGED <<uploading, removal, forced>>
  BY DEF Seed, Take, Look, Draw, Keep, PutArt, Record, Interrupt
<1> QED
  BY <1>4, <1>6, <1>7, <1>8, <1>9 DEF SeedTouches

\* The steps of the script keep what a row was, is and may become.
LEMMA LifeSeeding ==
  ASSUME MediaTyped, Life, NEW k \in Keys, Seed(k)
  PROVE  Life'
<1>1. SeedTouches(k)
  BY SeedFrame
<1>2. rows[k] # Unborn
  BY <1>1 DEF SeedTouches, Life
<1>3. \A o \in Keys : (rows'[o] = Unborn) <=> (rows[o] = Unborn)
  BY <1>1, <1>2 DEF SeedTouches
<1>4. UNCHANGED <<pc, flushed, removal>> /\ Uploads \subseteq Keys /\ None \notin Keys
  BY <1>1, AbsentMediaAssumption DEF SeedTouches, uploading, Keys
<1>5. ASSUME NEW o \in Keys
      PROVE  /\ o \in seeder'.todo \/ o = seeder'.key => rows'[o] # Unborn
             /\ stored'[<<"public", o>>] = "art" => rows'[o] # Unborn
  BY <1>1, <1>2, <1>3, <1>4 DEF SeedTouches, Life, Picture, Buckets
<1> QED
  BY <1>3, <1>4, <1>5 DEF Life, Siblings, Picture

\* An idle script has nothing to do.
LEMMA IdleIs ==
  ASSUME MediaTyped, seeder.step = "idle"
  PROVE  seeder.key = None /\ seeder.todo = {}
BY DEF MediaTyped, MediaTypeOK

\* The start and the end of a run keep what a row was, is and may become.
LEMMA LifeRuns ==
  ASSUME MediaTyped, Finite, Life, NEW force \in BOOLEAN, NEW api \in BOOLEAN, NEW backup \in BOOLEAN,
         StartSeeding(force, api, backup) \/ EndSeeding \/ WipeVolumes
  PROVE  Life'
<1>0. None \notin Keys /\ None # "art"
  BY AbsentMediaAssumption
<1>1. CASE StartSeeding(force, api, backup)
  <2>1. seeder'.key = None /\ seeder'.todo = Born
    BY <1>1, StartIs
  <2>2. UNCHANGED <<stored, rows, flushed, pc, removal>>
    BY <1>1 DEF StartSeeding, uploading
  <2> QED
    BY <1>0, <2>1, <2>2 DEF Life, Siblings, Picture, Born, HasRow
<1>2. CASE EndSeeding
  <2>1. PICK q : q = [seeder EXCEPT !.step = "idle"]
    OBVIOUS
  <2>2. q.key = seeder.key /\ q.todo = seeder.todo
    BY <2>1, MovedIs DEF Steps, MediaTyped
  <2>3. seeder' = q /\ UNCHANGED <<stored, rows, flushed, pc, removal>>
    BY <1>2, <2>1 DEF EndSeeding, uploading
  <2> QED
    BY <2>2, <2>3 DEF Life, Siblings, Picture
<1>3. CASE WipeVolumes
  <2>1. /\ \A k \in Uploads : pc[k] \in {"new", "unused"}
        /\ \A k \in Keys : removal[k] = None
        /\ seeder.key = None /\ seeder.todo = {}
        /\ UNCHANGED <<flushed, pc, removal, seeder>>
    BY <1>3, IdleIs DEF WipeVolumes, uploading, seeding, Seeding
  <2>2. \A k \in Keys : stored'[<<"public", k>>] = None
    BY <1>3 DEF WipeVolumes, NoObjects, Buckets
  <2>3. \A k \in Uploads : rows'[k] = Unborn
    BY <1>3, KeysAssumption DEF WipeVolumes, InitialRows, Keys
  <2> QED
    BY <1>0, <2>1, <2>2, <2>3 DEF Life, Siblings, Picture
<1> QED
  BY <1>1, <1>2, <1>3

-----------------------------------------------------------------------------
(* Objects and their uploads.                                              *)

ObjectRight(k) ==
  /\ pc[k] \in {"unused", "new", "owner", "put"} => Object(k) = None
  /\ pc[k] = "flush" \/ k \in flushed => Object(k) = "upload"
  /\ pc[k] \in {"cleanup", "failed"} => ~HasRow(k) /\ k \notin flushed
  /\ pc[k] = "failed" => Object(k) # "upload"
  /\ HasRow(k) /\ removal[k] # "row" => Object(k) # None
  /\ removal[k] = "row" \/ rows[k] = Gone => Object(k) # "upload"

\* The objects are right if that of each upload is.
LEMMA ObjectsByUpload == Objects <=> \A k \in Uploads \ hit : ObjectRight(k)
BY DEF Objects, ObjectRight

\* The steps of an upload keep the objects of the uploads.
LEMMA ObjectsUploads ==
  ASSUME MediaTyped, Life, Objects, NEW k \in Uploads, Upload(k)
  PROVE  Objects'
<1>1. UploadTouches(k)
  BY UploadFrame
<1>2. /\ pc \in [Uploads -> Fetching \cup {"unused", "new", "failed", "imported"}]
      /\ stored \in [Buckets \X Keys -> {None, "upload", "art"}]
      /\ rows \in [Keys -> MediaRow \cup {Unborn, Gone}]
      /\ k \in Keys /\ Uploads \subseteq Keys
  BY DEF MediaTyped, MediaTypeOK, Keys
<1>3. None \notin {"upload", "art", "object", "row"}
  BY AbsentMediaAssumption
<1>4. \A o : BucketOf(o) \in Buckets
  BY DEF BucketOf, Buckets
<1>5. ASSUME NEW o \in Uploads \ hit', o # k
      PROVE  ObjectRight(o)'
  <2>1. ObjectRight(o) /\ (o \in flushed => rows[o] = Unborn)
    BY <1>1, <1>5 DEF UploadTouches, Objects, ObjectRight, Life
  <2>2. /\ pc'[o] = pc[o] /\ Object(o)' = Object(o) /\ removal'[o] = removal[o]
        /\ o \in flushed' => o \in flushed
    BY <1>1, <1>2, <1>4, <1>5 DEF UploadTouches, Object
  <2>3. rows'[o] = rows[o] \/ (o \in flushed /\ o \notin flushed' /\ rows'[o] \notin {Unborn, Gone})
    BY <1>1, <1>2, <1>5, MediaRowIs DEF UploadTouches, FlushedWith
  <2> QED
    BY <1>3, <2>1, <2>2, <2>3 DEF ObjectRight, HasRow
<1>6. ASSUME k \notin hit'
      PROVE  ObjectRight(k)'
  <2>1. /\ ObjectRight(k) /\ (k \in flushed => rows[k] = Unborn)
        /\ pc[k] \in {"unused", "new", "owner", "put", "flush"} => rows[k] = Unborn /\ k \notin flushed
        /\ removal[k] # None => rows[k] # Unborn
    BY <1>1, <1>2, <1>6 DEF UploadTouches, Objects, ObjectRight, Life
  <2>2. ~Hit(k) /\ removal' = removal
    BY <1>1, <1>6 DEF Hit, UploadTouches
  <2>3. CASE Fetch(k) \/ Reject(k) \/ Accept(k)
    <3>1. UNCHANGED <<stored, rows, flushed>> /\ pc[k] \in {"new", "owner"} /\ pc'[k] \in {"owner", "put", "failed"}
      BY <1>2, <2>3 DEF Fetch, Reject, Accept, At, Goto
    <3> QED
      BY <1>3, <2>1, <2>2, <3>1 DEF ObjectRight, Object, HasRow
  <2>4. CASE PutObject(k)
    <3>1. UNCHANGED <<rows, flushed>> /\ pc[k] = "put" /\ pc'[k] = "flush" /\ Object(k)' = "upload"
      BY <1>2, <1>4, <2>2, <2>4 DEF PutObject, At, Goto, Put, Object
    <3> QED
      BY <1>3, <2>1, <2>2, <3>1, AbsentAssumption DEF ObjectRight, HasRow
  <2>5. CASE Flush(k) \/ Refresh(k)
    <3>1. /\ UNCHANGED <<stored, rows>> /\ pc[k] \in {"flush", "refresh"} /\ pc'[k] \in {"refresh", "commit"}
          /\ flushed' = flushed \/ (flushed' = flushed \cup {k} /\ pc[k] = "flush")
      BY <1>2, <2>5 DEF Flush, Refresh, At, Goto
    <3> QED
      BY <2>1, <2>2, <3>1 DEF ObjectRight, Object, HasRow
  <2>6. CASE RollBack(k)
    <3>1. /\ UNCHANGED <<stored, rows>> /\ pc'[k] = "cleanup" /\ ~Visible(k)
          /\ flushed' \subseteq flushed
      BY <1>2, <2>2, <2>6 DEF RollBack, At, Goto
    <3> QED
      BY <1>3, <2>1, <2>2, <3>1 DEF ObjectRight, Object, HasRow, Visible
  <2>7. CASE CommitUpload(k)
    <3>1. /\ UNCHANGED stored /\ pc'[k] = "imported" /\ k \notin flushed'
          /\ rows'[k] = rows[k] \/ (k \in flushed /\ rows'[k] \notin {Unborn, Gone})
      BY <1>2, <2>7, MediaRowIs DEF CommitUpload, At, Goto, Landed, FlushedWith
    <3> QED
      BY <1>3, <2>1, <2>2, <3>1 DEF ObjectRight, Object, HasRow
  <2>8. CASE CommitFails(k)
    BY <2>2, <2>8 DEF CommitFails
  <2>9. CASE CleanUp(k)
    <3>1. /\ UNCHANGED <<rows, flushed>> /\ pc[k] = "cleanup" /\ pc'[k] = "failed" /\ Object(k)' = None
      BY <1>2, <1>4, <2>2, <2>9 DEF CleanUp, At, Goto, Put, Object
    <3> QED
      BY <1>3, <2>1, <2>2, <3>1 DEF ObjectRight, HasRow
  <2> QED
    BY <2>3, <2>4, <2>5, <2>6, <2>7, <2>8, <2>9 DEF Upload
<1>7. \A o \in Uploads \ hit' : ObjectRight(o)'
  BY <1>5, <1>6
<1> QED
  BY <1>7 DEF Objects, ObjectRight, Object, HasRow, BucketOf

\* The end of a request keeps the objects of the uploads.
LEMMA ObjectsEndRequest ==
  ASSUME MediaTyped, Life, Objects, NEW s, EndRequest(s)
  PROVE  Objects'
<1>1. PICK left : /\ left = {k \in flushed : SessionOf[k] = s}
                  /\ flushed' = flushed \ left
                  /\ rows' = rows \/ rows' = Landed(left)
                  /\ \A k \in Uploads : SessionOf[k] = s => pc[k] \in {"unused", "failed", "imported"}
                  /\ UNCHANGED <<stored, pc, removal, hit, seeding>>
  BY DEF EndRequest
<1>2. rows \in [Keys -> MediaRow \cup {Unborn, Gone}] /\ flushed \subseteq Uploads /\ Uploads \subseteq Keys
  BY DEF MediaTyped, MediaTypeOK, Keys
<1>3. ASSUME NEW o \in Uploads \ hit
      PROVE  ObjectRight(o)'
  <2>1. ObjectRight(o)
    BY DEF Objects, ObjectRight
  <2>2. o \notin left
    BY <1>1, <2>1 DEF ObjectRight, Life
  <2>3. rows'[o] = rows[o]
    BY <1>1, <1>2, <2>2 DEF Landed
  <2> QED
    BY <1>1, <2>1, <2>3 DEF ObjectRight, Object, HasRow
<1>4. \A o \in Uploads \ hit' : ObjectRight(o)'
  BY <1>1, <1>3
<1> QED
  BY <1>4 DEF Objects, ObjectRight, Object, HasRow, BucketOf

\* A crash keeps the objects of the uploads.
LEMMA ObjectsCrash ==
  ASSUME MediaTyped, Objects, Crash
  PROVE  Objects'
<1>1. PICK busy : /\ busy = {k \in Uploads : pc[k] \in Fetching} \cup {k \in Keys : removal[k] # None}
                  /\ hit' = hit \cup busy
                  /\ pc' = [k \in Uploads |-> IF pc[k] \in Fetching THEN "failed" ELSE pc[k]]
                  /\ flushed' = {} /\ removal' = [k \in Keys |-> None]
                  /\ UNCHANGED <<stored, rows>>
  BY DEF Crash
<1>2. ASSUME NEW o \in Uploads \ hit'
      PROVE  ObjectRight(o)'
  <2>1. /\ ObjectRight(o) /\ pc[o] \notin Fetching /\ pc'[o] = pc[o] /\ removal[o] = None /\ removal'[o] = None
        /\ o \notin flushed'
    BY <1>1 DEF Objects, ObjectRight, Keys
  <2> QED
    BY <1>1, <2>1 DEF ObjectRight, Object, HasRow, Fetching
<1> QED
  BY <1>2 DEF Objects, ObjectRight, Object, HasRow, BucketOf

\* Edits and deletes keep the objects of the uploads.
LEMMA ObjectsChanges ==
  ASSUME MediaTyped, Life, Objects, NEW k \in Keys, Change(k)
  PROVE  Objects'
<1>1. ChangeTouches(k)
  BY ChangeFrame
<1>2. /\ stored \in [Buckets \X Keys -> {None, "upload", "art"}]
      /\ rows \in [Keys -> MediaRow \cup {Unborn, Gone}]
      /\ removal \in [Keys -> {None, "object", "row"}] /\ Uploads \subseteq Keys
  BY DEF MediaTyped, MediaTypeOK, Keys
<1>3. None \notin {"upload", "art", "object", "row"}
  BY AbsentMediaAssumption
<1>4. \A o : BucketOf(o) \in Buckets
  BY DEF BucketOf, Buckets
<1>5. UNCHANGED <<pc, flushed>>
  BY <1>1 DEF ChangeTouches, uploading
<1>6. ASSUME NEW o \in Uploads \ hit', o # k
      PROVE  ObjectRight(o)'
  BY <1>1, <1>2, <1>4, <1>5, <1>6 DEF ChangeTouches, Objects, ObjectRight, Object, HasRow
<1>7. ASSUME k \in Uploads \ hit'
      PROVE  ObjectRight(k)'
  <2>1. /\ ObjectRight(k) /\ (k \in flushed => rows[k] = Unborn)
        /\ pc[k] \in {"unused", "new", "owner", "put", "flush"} => rows[k] = Unborn /\ k \notin flushed
        /\ removal[k] # None => rows[k] # Unborn
    BY <1>1, <1>7 DEF ChangeTouches, Objects, ObjectRight, Life
  <2>2. ~Hit(k)
    BY <1>7 DEF Hit
  <2>3. CASE UpdateMedia(k)
    <3>1. HasRow(k) /\ HasRow(k)' /\ UNCHANGED <<stored, removal>>
      BY <1>2, <2>3, EditIs DEF UpdateMedia, HasRow
    <3> QED
      BY <1>5, <2>1, <3>1 DEF ObjectRight, Object, HasRow
  <2>4. CASE AskDeleteMedia(k)
    <3>1. HasRow(k) /\ UNCHANGED <<stored, rows>> /\ removal[k] = None /\ removal'[k] = "object"
      BY <1>2, <2>4 DEF AskDeleteMedia
    <3> QED
      BY <1>3, <1>5, <2>1, <3>1 DEF ObjectRight, Object, HasRow
  <2>5. CASE RemoveObject(k)
    <3>1. UNCHANGED rows /\ removal[k] = "object" /\ removal'[k] = "row" /\ Object(k)' = None
      BY <1>2, <1>4, <2>2, <2>5 DEF RemoveObject, Put, Object
    <3> QED
      BY <1>3, <1>5, <2>1, <3>1 DEF ObjectRight, HasRow
  <2>6. CASE DeleteRow(k)
    <3>1. UNCHANGED stored /\ removal[k] = "row" /\ rows'[k] = Gone /\ removal'[k] = None
      BY <1>2, <2>2, <2>6 DEF DeleteRow
    <3> QED
      BY <1>3, <1>5, <2>1, <3>1 DEF ObjectRight, Object, HasRow
  <2> QED
    BY <2>3, <2>4, <2>5, <2>6 DEF Change
<1>8. \A o \in Uploads \ hit' : ObjectRight(o)'
  BY <1>6, <1>7
<1> QED
  BY <1>8 DEF Objects, ObjectRight, Object, HasRow, BucketOf

\* The steps of the script keep the objects of the uploads.
LEMMA ObjectsSeeding ==
  ASSUME MediaTyped, Life, Objects, NEW k \in Keys, Seed(k)
  PROVE  Objects'
<1>1. SeedTouches(k)
  BY SeedFrame
<1>2. Uploads \subseteq Keys /\ \A o : BucketOf(o) \in Buckets /\ BucketOf(o) \in {"public", "private"}
  BY DEF Keys, BucketOf, Buckets
<1>3. "art" # None /\ UNCHANGED <<pc, flushed, removal>>
  BY <1>1, AbsentMediaAssumption DEF SeedTouches, uploading
<1>4. ASSUME NEW o \in Uploads \ hit'
      PROVE  ObjectRight(o)'
  <2>1. ObjectRight(o)
    BY <1>1 DEF SeedTouches, Objects, ObjectRight
  <2>2. CASE o # k
    BY <1>1, <1>2, <1>3, <2>1, <2>2 DEF SeedTouches, ObjectRight, Object, HasRow
  <2>3. CASE o = k
    <3>1. /\ rows[k] # Unborn /\ k \notin flushed
          /\ pc[k] \notin {"unused", "new", "owner", "put", "flush"}
      BY <1>1, <2>3 DEF SeedTouches, Life
    <3>2. Object(k)' = Object(k) \/ Object(k)' = "art"
      BY <1>1, <1>2 DEF SeedTouches, Object
    <3>3. HasRow(k)' = HasRow(k) /\ (rows'[k] = Gone => rows[k] = Gone)
      BY <1>1 DEF SeedTouches, HasRow
    <3> QED
      BY <1>3, <2>1, <2>3, <3>1, <3>2, <3>3 DEF ObjectRight, HasRow
  <2> QED
    BY <2>2, <2>3
<1> QED
  BY <1>4 DEF Objects, ObjectRight, Object, HasRow, BucketOf

\* The start and the end of a run keep the objects of the uploads.
LEMMA ObjectsRuns ==
  ASSUME MediaTyped, Life, Objects, NEW force \in BOOLEAN, NEW api \in BOOLEAN, NEW backup \in BOOLEAN,
         StartSeeding(force, api, backup) \/ EndSeeding \/ WipeVolumes
  PROVE  Objects'
<1>1. CASE StartSeeding(force, api, backup) \/ EndSeeding
  BY <1>1 DEF StartSeeding, EndSeeding, uploading, Objects, Object, HasRow
<1>2. CASE WipeVolumes
  <2>1. /\ \A k \in Uploads : pc[k] \in {"new", "unused"}
        /\ \A k \in Keys : removal[k] = None
        /\ UNCHANGED <<flushed, pc, removal, hit>>
    BY <1>2 DEF WipeVolumes, uploading
  <2>2. \A k \in Keys, b \in Buckets : stored'[<<b, k>>] = None
    BY <1>2 DEF WipeVolumes, NoObjects
  <2>3. \A k \in Uploads : rows'[k] = Unborn
    BY <1>2, KeysAssumption DEF WipeVolumes, InitialRows, Keys
  <2>4. \A k \in Uploads : Object(k)' = None /\ k \notin flushed
    BY <2>1, <2>2 DEF Object, BucketOf, Buckets, Keys, Life
  <2> QED
    BY <2>1, <2>3, <2>4, AbsentMediaAssumption, AbsentAssumption DEF Objects, HasRow, Keys
<1> QED
  BY <1>1, <1>2

-----------------------------------------------------------------------------
(* Rows that describe their pictures.                                      *)

PictureRight(k) ==
  /\ HasRow(k) /\ Picture(k) # None /\ ~Recording(k) => rows[k].describes = Picture(k)
  /\ Recording(k) => Picture(k) \in {None, "art"}

\* The pictures are right if that of each public key is.
LEMMA PicturesByRow == Pictures <=> \A k \in PublicKeys \ hit : PictureRight(k)
BY DEF Pictures, PictureRight

\* The steps of an upload keep the pictures of the rows.
LEMMA PicturesUploads ==
  ASSUME MediaTyped, Life, Objects, Pictures, NEW k \in Uploads, Upload(k)
  PROVE  Pictures'
<1>1. UploadTouches(k)
  BY UploadFrame
<1>2. /\ pc \in [Uploads -> Fetching \cup {"unused", "new", "failed", "imported"}]
      /\ PublicKeys \subseteq Keys /\ flushed \subseteq Uploads /\ "public" \in Buckets
  BY KeysAssumption DEF MediaTyped, MediaTypeOK, Buckets
<1>3. ASSUME NEW o \in PublicKeys \ hit'
      PROVE  PictureRight(o)'
  <2>1. PictureRight(o) /\ BucketOf(o) = "public"
    BY <1>1, <1>3 DEF UploadTouches, Pictures, PictureRight, BucketOf
  <2>2. Recording(o)' = Recording(o) /\ (Recording(o) => rows[o] # Unborn)
    BY <1>1, <1>2 DEF UploadTouches, Recording, seeding, Life
  <2>3. Picture(o)' = Picture(o) \/ Picture(o)' = None \/ (rows[o] = Unborn /\ rows'[o] = Unborn)
    <3>1. CASE o # k
      BY <1>1, <1>2, <3>1 DEF UploadTouches, Picture
    <3>2. CASE o = k
      <4>1. UNCHANGED stored \/ PutObject(k) \/ CleanUp(k)
        BY DEF Upload, Fetch, Reject, Accept, Flush, Refresh, RollBack, CommitUpload, CommitFails
      <4>2. CASE PutObject(k)
        BY <3>2, <4>2 DEF PutObject, At, Life
      <4>3. CASE CleanUp(k)
        <5>1. Object(k)' = Object(k) \/ Object(k)' = None
          BY <1>2, <3>2, <4>3 DEF CleanUp, Put, Object, BucketOf, Buckets, MediaTyped, MediaTypeOK
        <5> QED
          BY <2>1, <3>2, <5>1 DEF Object, Picture, BucketOf
      <4> QED
        BY <3>2, <4>1, <4>2, <4>3 DEF Picture
    <3> QED
      BY <3>1, <3>2
  <2>4. \/ rows'[o] = rows[o]
        \/ rows'[o].describes = "upload" /\ Picture(o) = "upload" /\ rows[o] = Unborn /\ rows'[o] # Unborn
    <3>1. SUFFICES ASSUME rows'[o] # rows[o]
                   PROVE  /\ rows'[o].describes = "upload" /\ Picture(o) = "upload"
                          /\ rows[o] = Unborn /\ rows'[o] # Unborn
      OBVIOUS
    <3>2. o \in flushed /\ rows'[o] = NewRow(o, "upload")
      BY <1>1, <1>2, <3>1 DEF UploadTouches, FlushedWith
    <3>3. Picture(o) = "upload" /\ rows[o] = Unborn
      BY <1>1, <1>2, <1>3, <2>1, <3>2 DEF UploadTouches, Objects, Object, Picture, Life
    <3> QED
      BY <3>2, <3>3, MediaRowIs
  <2> QED
    BY <2>1, <2>2, <2>3, <2>4, AbsentMediaAssumption DEF PictureRight, HasRow
<1> QED
  BY <1>3 DEF Pictures, PictureRight, Picture, Recording, HasRow

\* The end of a request and a crash keep the pictures of the rows.
LEMMA PicturesRequests ==
  ASSUME MediaTyped, Life, Objects, Pictures, NEW s, EndRequest(s) \/ Crash
  PROVE  Pictures'
<1>1. CASE EndRequest(s)
  <2>1. PICK left : /\ left = {k \in flushed : SessionOf[k] = s}
                    /\ flushed' = flushed \ left
                    /\ rows' = rows \/ rows' = Landed(left)
                    /\ \A k \in Uploads : SessionOf[k] = s => pc[k] \in {"unused", "failed", "imported"}
                    /\ UNCHANGED <<stored, pc, removal, hit, seeding>>
    BY <1>1 DEF EndRequest
  <2>2. rows \in [Keys -> MediaRow \cup {Unborn, Gone}] /\ flushed \subseteq Uploads /\ PublicKeys \subseteq Keys
    BY KeysAssumption DEF MediaTyped, MediaTypeOK
  <2>3. left \subseteq hit
    BY <2>1, <2>2 DEF Life, Objects
  <2>4. \A o \in PublicKeys \ hit : rows'[o] = rows[o]
    BY <2>1, <2>2, <2>3 DEF Landed
  <2> QED
    BY <2>1, <2>4 DEF seeding, Pictures, Picture, Recording, HasRow
<1>2. CASE Crash
  BY <1>2 DEF Crash, seeding, Pictures, Picture, Recording, HasRow
<1> QED
  BY <1>1, <1>2

\* Edits and deletes keep the pictures of the rows.
LEMMA PicturesChanges ==
  ASSUME MediaTyped, Life, Pictures, NEW k \in Keys, Change(k)
  PROVE  Pictures'
<1>1. ChangeTouches(k)
  BY ChangeFrame
<1>2. PublicKeys \subseteq Keys /\ "public" \in Buckets
  BY KeysAssumption DEF Buckets
<1>3. ASSUME NEW o \in PublicKeys \ hit'
      PROVE  PictureRight(o)'
  <2>1. PictureRight(o)
    BY <1>1, <1>3 DEF ChangeTouches, Pictures, PictureRight
  <2>2. Recording(o)' = Recording(o)
    BY <1>1 DEF ChangeTouches, Recording, seeding
  <2>3. Picture(o)' = Picture(o) \/ Picture(o)' = None
    BY <1>1, <1>2 DEF ChangeTouches, Picture
  <2>4. HasRow(o)' => HasRow(o) /\ rows'[o].describes = rows[o].describes
    BY <1>1, <1>2 DEF ChangeTouches, HasRow
  <2> QED
    BY <2>1, <2>2, <2>3, <2>4 DEF PictureRight
<1> QED
  BY <1>3 DEF Pictures, PictureRight, Picture, Recording, HasRow

\* The steps of the script keep the pictures of the rows.
LEMMA PicturesSeeding ==
  ASSUME MediaTyped, Life, Pictures, NEW k \in Keys, Seed(k)
  PROVE  Pictures'
<1>1. SeedTouches(k)
  BY SeedFrame
<1>2. PublicKeys \subseteq Keys /\ "public" \in Buckets /\ None \notin Keys /\ None # "art"
  BY KeysAssumption, AbsentMediaAssumption DEF Buckets
<1>3. seeder \in Seeder /\ (seeder.step \in {"idle", "next"} => seeder.key = None)
  BY DEF MediaTyped, MediaTypeOK
<1>4. ASSUME NEW o \in PublicKeys \ hit'
      PROVE  PictureRight(o)'
  <2>1. PictureRight(o)
    BY <1>1, <1>4 DEF SeedTouches, Pictures, PictureRight
  <2>2. CASE o # k
    <3>1. Picture(o)' = Picture(o) /\ rows'[o] = rows[o] /\ ~Recording(o)'
      BY <1>1, <1>2, <2>2 DEF SeedTouches, Picture, Recording
    <3>2. ~Recording(o)
      <4>1. CASE Take(k)
        BY <1>3, <4>1 DEF Take, Seeding, Recording
      <4>2. CASE Look(k) \/ Draw(k) \/ Keep(k) \/ PutArt(k) \/ Record(k) \/ Interrupt(k)
        BY <2>2, <4>2 DEF Look, Draw, Keep, PutArt, Record, Interrupt, Working, Recording
      <4> QED
        BY <4>1, <4>2 DEF Seed
    <3> QED
      BY <2>1, <3>1, <3>2 DEF PictureRight, HasRow
  <2>3. CASE o = k
    <3>0. ~Hit(k)
      BY <1>4, <2>3 DEF Hit
    <3>1. CASE Take(k) \/ Look(k) \/ Draw(k) \/ Keep(k)
      <4>1. UNCHANGED <<stored, rows>> /\ ~Recording(k)
        BY <3>1 DEF Take, Look, Draw, Keep, Working, Seeding, Recording
      <4>2. ~Recording(k)'
        <5>1. CASE Take(k)
          BY <1>3, <5>1, TakenIs DEF Recording
        <5>2. CASE Look(k)
          <6>1. PICK q : q = [seeder EXCEPT !.step = "draw"]
            OBVIOUS
          <6>2. q.step = "draw"
            BY <1>3, <6>1, MovedIs DEF Steps
          <6>3. seeder' \in {Skipped, Failed, FromCache(seeder), q}
            BY <5>2, <6>1 DEF Look
          <6> QED
            BY <1>3, <6>2, <6>3, SkippedIs, FailedIs, FromCacheIs DEF Recording
        <5>3. CASE Draw(k) \/ Keep(k)
          BY <1>3, <5>3, MovedIs, FailedIs DEF Draw, Keep, Steps, Recording
        <5> QED
          BY <3>1, <5>1, <5>2, <5>3
      <4> QED
        BY <2>1, <2>3, <4>1, <4>2 DEF PictureRight, Picture, HasRow
    <3>2. CASE PutArt(k)
      <4>1. Picture(k)' = "art" /\ seeder' = [seeder EXCEPT !.step = "record"] /\ seeder.key = k
        BY <1>2, <3>0, <3>2 DEF PutArt, Put, Working, Picture, MediaTyped, MediaTypeOK
      <4>2. seeder'.step = "record" /\ seeder'.key = k
        BY <1>3, <4>1, MovedIs DEF Steps
      <4> QED
        BY <2>3, <4>1, <4>2 DEF PictureRight, Recording
    <3>3. CASE Record(k)
      <4>1. UNCHANGED stored /\ rows' = Recorded(k) /\ Recording(k)
        BY <3>0, <3>3 DEF Record, Working, Seeding, Recording
      <4>2. seeder'.step = "next"
        BY <1>3, <3>0, <3>3, DoneIs DEF Record
      <4>3. HasRow(k)' => rows'[k].describes = "art"
        <5>1. HasRow(k)' => HasRow(k)
          BY <1>1 DEF SeedTouches, HasRow
        <5> QED
          BY <4>1, <5>1, RecordedIs DEF MediaTyped, MediaTypeOK
      <4> QED
        BY <2>1, <2>3, <4>1, <4>2, <4>3 DEF PictureRight, Recording, Picture
    <3>4. CASE Interrupt(k)
      BY <3>0, <3>4 DEF Interrupt
    <3> QED
      BY <3>1, <3>2, <3>3, <3>4 DEF Seed
  <2> QED
    BY <2>2, <2>3
<1> QED
  BY <1>4 DEF Pictures, PictureRight, Picture, Recording, HasRow

\* The start and the end of a run keep the pictures of the rows.
LEMMA PicturesRuns ==
  ASSUME MediaTyped, Finite, Pictures, NEW force \in BOOLEAN, NEW api \in BOOLEAN, NEW backup \in BOOLEAN,
         StartSeeding(force, api, backup) \/ EndSeeding \/ WipeVolumes
  PROVE  Pictures'
<1>1. CASE StartSeeding(force, api, backup) \/ EndSeeding
  <2>1. UNCHANGED <<stored, rows, hit>> /\ seeder.step \in {"idle", "next"}
    BY <1>1 DEF StartSeeding, EndSeeding, Seeding
  <2>2. seeder'.step \in {"idle", "next"}
    BY <1>1, StartIs, MovedIs DEF EndSeeding, MediaTyped, Steps
  <2> QED
    BY <2>1, <2>2 DEF Pictures, Picture, Recording, HasRow
<1>2. CASE WipeVolumes
  <2>1. \A k \in Keys : stored'[<<"public", k>>] = None
    BY <1>2 DEF WipeVolumes, NoObjects, Buckets
  <2>2. UNCHANGED seeder /\ seeder.step = "idle"
    BY <1>2 DEF WipeVolumes, seeding, Seeding
  <2> QED
    BY <2>1, <2>2, KeysAssumption DEF Pictures, Picture, Recording
<1> QED
  BY <1>1, <1>2

-----------------------------------------------------------------------------
(* What was paid for.                                                      *)

\* Nothing but a run of the script touches what it bought.
LEMMA PurchasesElsewhere ==
  ASSUME Purchases, UNCHANGED seeding, hit \subseteq hit'
  PROVE  Purchases'
BY DEF Purchases, seeding

\* The steps of the script keep that a picture is bought once.
LEMMA PurchasesSeeding ==
  ASSUME MediaTyped, Purchases, NEW k \in Keys, Seed(k)
  PROVE  Purchases'
<1>1. SeedTouches(k)
  BY SeedFrame
<1>2. seeder \in Seeder /\ None \notin Keys /\ (seeder.step \in {"idle", "next"} => seeder.key = None)
  BY AbsentMediaAssumption DEF MediaTyped, MediaTypeOK
<1>3. drawn \in [Keys -> Nat] /\ hit \subseteq hit' /\ UNCHANGED forced
  BY <1>1 DEF SeedTouches, MediaTyped, MediaTypeOK
<1>4. ASSUME ~forced,
             \A o \in Keys \ hit' :
               /\ drawn'[o] <= 1
               /\ drawn'[o] = 1 => o \in cache' \/ (seeder'.key = o /\ seeder'.step = "keep")
               /\ seeder'.key = o /\ seeder'.step = "draw" => drawn'[o] = 0,
             seeder'.step = "idle" \/ SameRun(seeder', seeder), seeder.step # "idle"
      PROVE  Purchases'
  BY <1>3, <1>4 DEF Purchases, SameRun
<1>5. CASE forced
  BY <1>3, <1>5 DEF Purchases
<1>6. ASSUME ~forced
      PROVE  Purchases'
  <2>0. /\ seeder.step # "idle" => ~seeder.force /\ seeder.backup
        /\ \A o \in Keys \ hit : /\ drawn[o] <= 1
                                 /\ drawn[o] = 1 => o \in cache \/ (seeder.key = o /\ seeder.step = "keep")
                                 /\ seeder.key = o /\ seeder.step = "draw" => drawn[o] = 0
    BY <1>6 DEF Purchases
  <2>1. CASE Take(k)
    <3>1. seeder'.step = "look" /\ SameRun(seeder', seeder) /\ seeder.step = "next"
      BY <1>2, <2>1, TakenIs DEF Take, Seeding
    <3>2. UNCHANGED <<hit, cache, drawn>>
      BY <2>1 DEF Take
    <3> QED
      BY <1>2, <1>4, <1>6, <2>0, <3>1, <3>2
  <2>2. CASE Look(k)
    <3>1. seeder.step = "look" /\ seeder.key = k /\ UNCHANGED <<cache, drawn>>
      BY <2>2 DEF Look, Working, Seeding
    <3>2. PICK q : q = [seeder EXCEPT !.step = "draw"]
      OBVIOUS
    <3>3. q.step = "draw" /\ q.key = k /\ SameRun(q, seeder)
      BY <1>2, <3>1, <3>2, MovedIs DEF Steps
    <3>4. seeder' \in {Skipped, Failed, FromCache(seeder)} \/ (seeder' = q /\ (k \notin hit' => ~Cached(k)))
      BY <2>2, <3>2 DEF Look, Hit
    <3>5. CASE seeder' \in {Skipped, Failed, FromCache(seeder)}
      <4>1. seeder'.step \in {"next", "put"} /\ SameRun(seeder', seeder)
        BY <1>2, <3>5, SkippedIs, FailedIs, FromCacheIs
      <4> QED
        BY <1>3, <1>4, <1>6, <2>0, <3>1, <4>1
    <3>6. CASE seeder' = q /\ (k \notin hit' => ~Cached(k))
      <4>1. k \notin hit' => drawn[k] = 0
        <5>1. k \notin hit' => k \notin cache
          BY <2>0, <3>1, <3>6 DEF Cached
        <5>2. drawn[k] \in Nat
          BY <1>3
        <5> QED
          BY <1>3, <2>0, <3>1, <5>1, <5>2
      <4> QED
        BY <1>3, <1>4, <1>6, <2>0, <3>1, <3>3, <3>6, <4>1
    <3> QED
      BY <3>4, <3>5, <3>6
  <2>3. CASE Draw(k)
    <3>1. seeder.step = "draw" /\ seeder.key = k /\ UNCHANGED cache
      BY <2>3 DEF Draw, Working, Seeding
    <3>2. CASE k \in hit'
      <4>1. \A o \in Keys \ hit' : drawn'[o] = drawn[o]
        BY <1>3, <2>3, <3>2 DEF Draw
      <4>2. seeder'.step \in {"keep", "next"} /\ SameRun(seeder', seeder)
        BY <1>2, <2>3, MovedIs, FailedIs DEF Draw, Steps
      <4> QED
        BY <1>3, <1>4, <1>6, <2>0, <3>1, <3>2, <4>1, <4>2
    <3>3. CASE k \notin hit'
      <4>1. seeder' = [seeder EXCEPT !.step = "keep"] /\ drawn' = [drawn EXCEPT ![k] = @ + 1]
        BY <2>3, <3>3 DEF Draw, Hit
      <4>2. seeder'.step = "keep" /\ seeder'.key = k /\ SameRun(seeder', seeder)
        BY <1>2, <3>1, <4>1, MovedIs DEF Steps
      <4>3. drawn'[k] = 1 /\ \A o \in Keys \ {k} : drawn'[o] = drawn[o]
        BY <1>3, <2>0, <3>1, <3>3, <4>1
      <4> QED
        BY <1>3, <1>4, <1>6, <2>0, <3>1, <4>2, <4>3
    <3> QED
      BY <3>2, <3>3
  <2>4. CASE Keep(k)
    <3>1. seeder.step = "keep" /\ seeder.key = k /\ UNCHANGED drawn
      BY <2>4 DEF Keep, Working, Seeding
    <3>2. seeder'.step = "put" /\ seeder'.key = k /\ SameRun(seeder', seeder)
      BY <1>2, <2>4, <3>1, MovedIs DEF Keep, Steps
    <3>3. cache \subseteq cache' /\ (k \notin hit' => k \in cache')
      BY <2>0, <2>4, <3>1 DEF Keep, Hit
    <3> QED
      BY <1>3, <1>4, <1>6, <2>0, <3>1, <3>2, <3>3
  <2>5. CASE PutArt(k) \/ Record(k)
    <3>1. seeder.step \in {"put", "record"} /\ seeder.key = k /\ UNCHANGED <<drawn, cache>>
      BY <2>5 DEF PutArt, Record, Working, Seeding
    <3>2. seeder'.step \in {"next", "record"} /\ SameRun(seeder', seeder)
      BY <1>2, <2>5, MovedIs, FailedIs, DoneIs DEF PutArt, Record, Steps
    <3> QED
      BY <1>3, <1>4, <1>6, <2>0, <3>1, <3>2
  <2>6. CASE Interrupt(k)
    <3>1. seeder.key = k /\ seeder'.step = "idle" /\ k \in hit' /\ UNCHANGED <<drawn, cache>>
      BY <1>2, <2>6, StoppedIs DEF Interrupt, Hit
    <3>2. seeder.step # "idle"
      BY <1>2, <3>1
    <3> QED
      BY <1>3, <1>4, <1>6, <2>0, <3>1, <3>2
  <2> QED
    BY <2>1, <2>2, <2>3, <2>4, <2>5, <2>6 DEF Seed
<1> QED
  BY <1>5, <1>6

\* The start and the end of a run keep that a picture is bought once.
LEMMA PurchasesRuns ==
  ASSUME MediaTyped, Finite, Purchases, NEW force \in BOOLEAN, NEW api \in BOOLEAN, NEW backup \in BOOLEAN,
         StartSeeding(force, api, backup) \/ EndSeeding
  PROVE  Purchases'
<1>1. CASE StartSeeding(force, api, backup)
  <2>1. seeder'.step = "next" /\ seeder'.force = force /\ seeder'.backup = backup
    BY <1>1, StartIs
  <2>2. /\ forced' = (forced \/ force \/ ~backup) /\ seeder.step = "idle"
        /\ UNCHANGED <<hit, cache, drawn>>
    BY <1>1 DEF StartSeeding, Seeding
  <2> QED
    BY <2>1, <2>2 DEF Purchases
<1>2. CASE EndSeeding
  <2>1. seeder'.step = "idle" /\ seeder.step = "next"
    BY <1>2, MovedIs DEF EndSeeding, Seeding, MediaTyped, Steps
  <2>2. UNCHANGED <<hit, cache, drawn, forced>>
    BY <1>2 DEF EndSeeding
  <2> QED
    BY <2>1, <2>2 DEF Purchases
<1> QED
  BY <1>1, <1>2

-----------------------------------------------------------------------------
(* The counts of a run.                                                    *)

\* The steps of the script keep the sums of a run.
LEMMA CountsSeeding ==
  ASSUME MediaTyped, Finite, CountsAddUp, NEW k \in Keys, Seed(k)
  PROVE  CountsAddUp'
<1>1. seeder \in Seeder /\ None \notin Keys /\ (seeder.step \in {"idle", "next"} => seeder.key = None)
  BY AbsentMediaAssumption DEF MediaTyped, MediaTypeOK
<1>2. /\ seeder.uploaded \in Nat /\ seeder.restored \in Nat /\ seeder.generated \in Nat
      /\ seeder.skipped \in Nat /\ seeder.failed \in Nat /\ seeder.targets \in Nat
      /\ IsFiniteSet(seeder.todo) /\ Cardinality(seeder.todo) \in Nat
  BY <1>1, FS_CardinalityType DEF Seeder, Finite
<1>3. /\ seeder.uploaded = seeder.restored + seeder.generated
      /\ seeder.key = None =>
           seeder.uploaded + seeder.skipped + seeder.failed + Cardinality(seeder.todo) = seeder.targets
      /\ seeder.key # None =>
           seeder.uploaded + seeder.skipped + seeder.failed + Cardinality(seeder.todo) + 1 = seeder.targets
  BY <1>2 DEF CountsAddUp
<1>4. SUFFICES /\ seeder'.uploaded = seeder'.restored + seeder'.generated
               /\ seeder'.key = None =>
                    seeder'.uploaded + seeder'.skipped + seeder'.failed + Cardinality(seeder'.todo) = seeder'.targets
               /\ seeder'.key # None =>
                    seeder'.uploaded + seeder'.skipped + seeder'.failed + Cardinality(seeder'.todo) + 1 = seeder'.targets
  <2>1. seeder' \in Seeder /\ IsFiniteSet(seeder'.todo)
    <3>1. seeder' \in Seeder
      BY TypedSeeding DEF MediaTyped
    <3>2. seeder'.todo \subseteq seeder.todo
      BY SeedFrame DEF SeedTouches
    <3> QED
      BY <1>2, <3>1, <3>2, FS_Subset
  <2>2. /\ seeder'.uploaded \in Nat /\ seeder'.skipped \in Nat /\ seeder'.failed \in Nat
        /\ Cardinality(seeder'.todo) \in Nat
    BY <2>1, FS_CardinalityType DEF Seeder
  <2> QED
    BY <2>2 DEF CountsAddUp
\* A target that fails or is skipped after it was taken.
<1>5. ASSUME seeder.key = k, seeder' \in {Skipped, Failed}
      PROVE  /\ seeder'.uploaded = seeder'.restored + seeder'.generated
             /\ seeder'.key = None
             /\ seeder'.uploaded + seeder'.skipped + seeder'.failed + Cardinality(seeder'.todo) = seeder'.targets
  <2>1. CASE seeder' = Skipped
    <3>1. /\ seeder'.key = None /\ seeder'.todo = seeder.todo /\ seeder'.skipped = seeder.skipped + 1
          /\ SameCounts([Skipped EXCEPT !.skipped = seeder.skipped], seeder) /\ Skipped \in Seeder
      BY <1>1, <2>1, SkippedIs
    <3>2. /\ seeder'.uploaded = seeder.uploaded /\ seeder'.restored = seeder.restored
          /\ seeder'.generated = seeder.generated /\ seeder'.failed = seeder.failed /\ seeder'.targets = seeder.targets
      BY <2>1 DEF Skipped
    <3> QED
      BY <1>1, <1>2, <1>3, <1>5, <3>1, <3>2
  <2>2. CASE seeder' = Failed
    <3>1. seeder'.key = None /\ seeder'.todo = seeder.todo /\ seeder'.failed = seeder.failed + 1
      BY <1>1, <2>2, FailedIs
    <3>2. /\ seeder'.uploaded = seeder.uploaded /\ seeder'.restored = seeder.restored
          /\ seeder'.generated = seeder.generated /\ seeder'.skipped = seeder.skipped /\ seeder'.targets = seeder.targets
      BY <2>2 DEF Failed
    <3> QED
      BY <1>1, <1>2, <1>3, <1>5, <3>1, <3>2
  <2> QED
    BY <1>5, <2>1, <2>2
\* A target on its way.
<1>6. ASSUME seeder.key = k, seeder'.key = k, seeder'.todo = seeder.todo, SameCounts(seeder', seeder)
      PROVE  /\ seeder'.uploaded = seeder'.restored + seeder'.generated
             /\ seeder'.key # None
             /\ seeder'.uploaded + seeder'.skipped + seeder'.failed + Cardinality(seeder'.todo) + 1 = seeder'.targets
  BY <1>1, <1>3, <1>6 DEF SameCounts
<1>7. CASE Take(k)
  <2>1. seeder'.key = k /\ seeder'.todo = seeder.todo \ {k} /\ SameCounts(seeder', seeder)
    BY <1>1, <1>7, TakenIs
  <2>2. k \in seeder.todo /\ seeder.key = None
    BY <1>1, <1>7 DEF Take, Seeding
  <2>3. Cardinality(seeder'.todo) = Cardinality(seeder.todo) - 1
    BY <1>2, <2>1, <2>2, FS_RemoveElement
  <2> QED
    BY <1>1, <1>2, <1>3, <2>1, <2>2, <2>3 DEF SameCounts
<1>8. CASE Look(k)
  <2>1. PICK q : q = [seeder EXCEPT !.step = "draw"]
    OBVIOUS
  <2>2. q.key = seeder.key /\ q.todo = seeder.todo /\ SameCounts(q, seeder)
    BY <1>1, <2>1, MovedIs DEF Steps
  <2>3. seeder.key = k /\ seeder' \in {Skipped, Failed, FromCache(seeder), q}
    BY <1>8, <2>1 DEF Look, Working
  <2>4. CASE seeder' \in {Skipped, Failed}
    BY <1>5, <2>3, <2>4
  <2>5. CASE seeder' \in {FromCache(seeder), q}
    BY <1>1, <1>6, <2>2, <2>3, <2>5, FromCacheIs
  <2> QED
    BY <2>3, <2>4, <2>5
<1>9. CASE Draw(k) \/ Keep(k) \/ PutArt(k)
  <2>1. PICK step \in Steps : seeder' = [seeder EXCEPT !.step = step] \/ seeder' = Failed
    BY <1>9 DEF Draw, Keep, PutArt, Steps
  <2>2. seeder.key = k
    BY <1>9 DEF Draw, Keep, PutArt, Working
  <2>3. CASE seeder' = [seeder EXCEPT !.step = step]
    <3>1. seeder'.key = k /\ seeder'.todo = seeder.todo /\ SameCounts(seeder', seeder)
      BY <1>1, <2>2, <2>3, MovedIs
    <3> QED
      BY <1>6, <2>2, <3>1
  <2>4. CASE seeder' = Failed
    BY <1>5, <2>2, <2>4
  <2> QED
    BY <2>1, <2>3, <2>4
<1>10. CASE Record(k)
  <2>1. seeder.key = k
    BY <1>10 DEF Record, Working
  <2>2. CASE seeder' = Failed
    BY <1>5, <2>1, <2>2
  <2>3. CASE seeder' # Failed
    <3>1. /\ seeder'.key = None /\ seeder'.todo = seeder.todo
          /\ seeder'.targets = seeder.targets /\ seeder'.skipped = seeder.skipped /\ seeder'.failed = seeder.failed
          /\ seeder'.uploaded = seeder.uploaded + 1
          /\ seeder'.restored + seeder'.generated = seeder.restored + seeder.generated + 1
      BY <1>1, <1>10, <2>3, DoneIs DEF Record
    <3> QED
      BY <1>1, <1>2, <1>3, <2>1, <3>1
  <2> QED
    BY <2>2, <2>3
<1>11. CASE Interrupt(k)
  <2>1. /\ seeder'.key = None /\ seeder'.todo = {} /\ seeder'.targets = 0
        /\ seeder'.uploaded = 0 /\ seeder'.restored = 0 /\ seeder'.generated = 0
        /\ seeder'.skipped = 0 /\ seeder'.failed = 0
    BY <1>1, <1>11, StoppedIs DEF Interrupt
  <2> QED
    BY <2>1, FS_EmptySet
<1> QED
  BY <1>7, <1>8, <1>9, <1>10, <1>11 DEF Seed

\* The start and the end of a run keep the sums of a run.
LEMMA CountsRuns ==
  ASSUME MediaTyped, Finite, CountsAddUp, NEW force \in BOOLEAN, NEW api \in BOOLEAN, NEW backup \in BOOLEAN,
         StartSeeding(force, api, backup) \/ EndSeeding \/ WipeVolumes
  PROVE  CountsAddUp'
<1>1. CASE StartSeeding(force, api, backup)
  <2>1. /\ seeder'.key = None /\ seeder'.todo = Born /\ seeder'.targets = Cardinality(Born)
        /\ seeder'.uploaded = 0 /\ seeder'.restored = 0 /\ seeder'.generated = 0
        /\ seeder'.skipped = 0 /\ seeder'.failed = 0
    BY <1>1, StartIs
  <2>2. Cardinality(Born) \in Nat
    BY FS_CardinalityType DEF Finite
  <2> QED
    BY <2>1, <2>2 DEF CountsAddUp
<1>2. CASE EndSeeding
  <2>1. seeder'.key = seeder.key /\ seeder'.todo = seeder.todo /\ SameCounts(seeder', seeder)
    BY <1>2, MovedIs DEF EndSeeding, MediaTyped, Steps
  <2> QED
    BY <2>1 DEF CountsAddUp, SameCounts
<1>3. CASE WipeVolumes
  BY <1>3 DEF WipeVolumes, seeding, CountsAddUp
<1> QED
  BY <1>1, <1>2, <1>3

-----------------------------------------------------------------------------
(* Finitely many of each.                                                  *)

\* The steps of an upload keep that everything is finite.
LEMMA FiniteUploads ==
  ASSUME MediaTyped, Finite, NEW k \in Uploads, Upload(k)
  PROVE  Finite'
<1>1. UploadTouches(k)
  BY UploadFrame
<1>2. IsFiniteSet(flushed \cup {k}) /\ IsFiniteSet(Born \cup flushed)
  BY FS_AddElement, FS_Union DEF Finite
<1>3. flushed' \subseteq flushed \cup {k} /\ Born' \subseteq Born \cup flushed
  BY <1>1 DEF UploadTouches, Born, HasRow, FlushedWith
<1> QED
  BY <1>1, <1>2, <1>3, FS_Subset DEF Finite, UploadTouches, seeding

\* The end of a request and a crash keep that everything is finite.
LEMMA FiniteRequests ==
  ASSUME MediaTyped, Finite, NEW s, EndRequest(s) \/ Crash
  PROVE  Finite'
<1>1. IsFiniteSet(Born \cup flushed)
  BY FS_Union DEF Finite
<1>2. flushed' \subseteq flushed /\ Born' \subseteq Born \cup flushed /\ UNCHANGED seeder
  BY DEF EndRequest, Crash, Landed, Born, HasRow, seeding
<1> QED
  BY <1>1, <1>2, FS_Subset DEF Finite

\* Edits and deletes keep that everything is finite.
LEMMA FiniteChanges ==
  ASSUME MediaTyped, Finite, NEW k \in Keys, Change(k)
  PROVE  Finite'
<1>1. ChangeTouches(k)
  BY ChangeFrame
<1>2. Born' \subseteq Born /\ UNCHANGED <<flushed, seeder>>
  BY <1>1 DEF ChangeTouches, Born, HasRow, uploading, seeding
<1> QED
  BY <1>2, FS_Subset DEF Finite

\* The steps of the script keep that everything is finite.
LEMMA FiniteSeeding ==
  ASSUME MediaTyped, Finite, NEW k \in Keys, Seed(k)
  PROVE  Finite'
<1>1. SeedTouches(k)
  BY SeedFrame
<1>2. Born' \subseteq Born /\ UNCHANGED flushed /\ seeder'.todo \subseteq seeder.todo
  BY <1>1 DEF SeedTouches, Born, HasRow, uploading
<1> QED
  BY <1>2, FS_Subset DEF Finite

\* The start and the end of a run keep that everything is finite.
LEMMA FiniteRuns ==
  ASSUME MediaTyped, Finite, NEW force \in BOOLEAN, NEW api \in BOOLEAN, NEW backup \in BOOLEAN,
         StartSeeding(force, api, backup) \/ EndSeeding \/ WipeVolumes
  PROVE  Finite'
<1>1. CASE StartSeeding(force, api, backup)
  <2>1. seeder'.todo = Born /\ UNCHANGED <<rows, flushed>>
    BY <1>1, StartIs DEF StartSeeding, uploading
  <2> QED
    BY <2>1 DEF Finite, Born, HasRow
<1>2. CASE EndSeeding
  <2>1. seeder'.todo = seeder.todo /\ UNCHANGED <<rows, flushed>>
    BY <1>2, MovedIs DEF EndSeeding, MediaTyped, Steps, uploading
  <2> QED
    BY <2>1 DEF Finite, Born, HasRow
<1>3. CASE WipeVolumes
  <2>1. Born' \subseteq Seeded /\ UNCHANGED <<flushed, seeder>>
    BY <1>3 DEF WipeVolumes, InitialRows, Born, HasRow, uploading, seeding
  <2> QED
    BY <2>1, KeysAssumption, FS_Subset DEF Finite
<1> QED
  BY <1>1, <1>2, <1>3

-----------------------------------------------------------------------------
(* The invariant is one.                                                   *)

\* The invariant holds before anything is uploaded or seeded.
LEMMA InitMedia == MediaInit => MediaInv
<1> SUFFICES ASSUME MediaInit
             PROVE  MediaInv
  OBVIOUS
<1>1. PICK situation \in Situations :
        /\ rows = InitialRows(situation.seeded)
        /\ pc = [k \in Uploads |-> IF k \in situation.uploads THEN "new" ELSE "unused"]
        /\ seeder = [Idle EXCEPT !.left = situation.seedings]
  BY DEF MediaInit
<1>2. situation.seeded \subseteq Seeded /\ situation.seedings \in Nat
  BY SituationsAssumption
<1>3. /\ stored = NoObjects /\ flushed = {} /\ removal = [k \in Keys |-> None] /\ hit = {}
      /\ cache = {} /\ drawn = [k \in Keys |-> 0] /\ forced = FALSE
  BY DEF MediaInit
<1>4. PICK left \in Nat : left = situation.seedings
  BY <1>2
<1>5. seeder = [left |-> left, step |-> "idle", todo |-> {}, key |-> None, cached |-> FALSE,
                force |-> FALSE, api |-> FALSE, backup |-> FALSE,
                targets |-> 0, uploaded |-> 0, restored |-> 0, generated |-> 0, skipped |-> 0, failed |-> 0]
  BY <1>1, <1>4 DEF Idle
<1>6. seeder \in Seeder
  <2>1. [left |-> left, step |-> "idle", todo |-> {}, key |-> None, cached |-> FALSE,
         force |-> FALSE, api |-> FALSE, backup |-> FALSE,
         targets |-> 0, uploaded |-> 0, restored |-> 0, generated |-> 0, skipped |-> 0, failed |-> 0] \in Seeder
    BY DEF Seeder, Steps
  <2> QED
    BY <1>5, <2>1, Zenon
<1>7. /\ seeder.step = "idle" /\ seeder.key = None /\ seeder.todo = {} /\ seeder.targets = 0
      /\ seeder.uploaded = 0 /\ seeder.restored = 0 /\ seeder.generated = 0 /\ seeder.skipped = 0 /\ seeder.failed = 0
  BY <1>5
<1>8. \A k \in Keys : (k \in situation.seeded /\ HasRow(k)) \/ rows[k] = Unborn
  BY <1>1, MediaRowIs DEF InitialRows, HasRow
<1>9. rows \in [Keys -> MediaRow \cup {Unborn, Gone}]
  BY <1>1 DEF InitialRows, NewRow, MediaRow
<1>10. MediaTyped
  <2>1. stored \in [Buckets \X Keys -> {None, "upload", "art"}] /\ drawn \in [Keys -> Nat]
    BY <1>3 DEF NoObjects
  <2>2. pc \in [Uploads -> Fetching \cup {"unused", "new", "failed", "imported"}]
    BY <1>1
  <2>3. DOMAIN seeder = DOMAIN Idle
    BY <1>6 DEF Seeder, Idle
  <2> QED
    BY <1>3, <1>6, <1>7, <1>9, <2>1, <2>2, <2>3 DEF MediaTyped, MediaTypeOK
<1>11. Finite
  <2>1. Born \subseteq Seeded
    BY <1>2, <1>8 DEF Born, HasRow
  <2> QED
    BY <1>3, <1>7, <2>1, FS_EmptySet, FS_Subset, KeysAssumption DEF Finite
<1>12. CountsAddUp
  BY <1>7, FS_EmptySet DEF CountsAddUp
<1>13. \A k \in Uploads : rows[k] = Unborn /\ pc[k] \in {"new", "unused"} /\ k \in Keys
  BY <1>1, <1>2, <1>8, KeysAssumption DEF Keys
<1>14. \A k \in Keys, b \in Buckets : stored[<<b, k>>] = None
  BY <1>3 DEF NoObjects
<1>15. Life
  BY <1>3, <1>7, <1>13, <1>14, AbsentMediaAssumption DEF Life, Picture, Buckets
<1>16. Objects
  BY <1>3, <1>13, <1>14, AbsentMediaAssumption, AbsentAssumption DEF Objects, Object, HasRow, BucketOf, Buckets
<1>17. Pictures
  BY <1>7, <1>14, KeysAssumption DEF Pictures, Picture, Recording, Buckets
<1>18. Purchases
  BY <1>3, <1>7 DEF Purchases
<1> QED
  BY <1>10, <1>11, <1>12, <1>15, <1>16, <1>17, <1>18 DEF MediaInv

\* And every step keeps it.
LEMMA StepMedia ==
  ASSUME MediaInv, [MediaNext]_mediaVars
  PROVE  MediaInv'
<1>1. MediaTyped /\ Finite /\ CountsAddUp /\ Life /\ Objects /\ Pictures /\ Purchases
  BY DEF MediaInv
<1>2. MediaTyped'
  BY <1>1, StepTyped
<1>3. CASE UNCHANGED mediaVars
  <2>1. UNCHANGED <<stored, rows, flushed, pc, removal, hit, seeder, cache, drawn, forced>>
    BY <1>3 DEF mediaVars, uploading, seeding
  <2>2. Finite' /\ CountsAddUp'
    BY <1>1, <2>1 DEF Finite, Born, HasRow, CountsAddUp
  <2>3. Life' /\ Objects' /\ Pictures' /\ Purchases'
    BY <1>1, <2>1 DEF Life, Objects, Pictures, Purchases, Object, Picture, Recording, HasRow, Siblings
  <2> QED
    BY <1>2, <2>2, <2>3 DEF MediaInv
<1>4. ASSUME NEW k \in Uploads, Upload(k)
      PROVE  MediaInv'
  <2>1. UNCHANGED seeding /\ hit \subseteq hit'
    BY <1>1, <1>4, UploadFrame DEF UploadTouches
  <2>2. CountsAddUp' /\ Purchases'
    BY <1>1, <2>1, PurchasesElsewhere DEF CountsAddUp, seeding
  <2> QED
    BY <1>1, <1>2, <1>4, <2>2, FiniteUploads, LifeUploads, ObjectsUploads, PicturesUploads DEF MediaInv
<1>5. ASSUME NEW s, EndRequest(s) \/ Crash
      PROVE  MediaInv'
  <2>1. UNCHANGED seeding /\ hit \subseteq hit'
    BY <1>5 DEF EndRequest, Crash
  <2>2. CountsAddUp' /\ Purchases'
    BY <1>1, <2>1, PurchasesElsewhere DEF CountsAddUp, seeding
  <2>3. Life' /\ Objects'
    BY <1>1, <1>5, LifeEndRequest, LifeCrash, ObjectsEndRequest, ObjectsCrash
  <2> QED
    BY <1>1, <1>2, <1>5, <2>2, <2>3, FiniteRequests, PicturesRequests DEF MediaInv
<1>6. ASSUME NEW k \in Keys, Change(k)
      PROVE  MediaInv'
  <2>1. UNCHANGED seeding /\ hit \subseteq hit'
    BY <1>1, <1>6, ChangeFrame DEF ChangeTouches
  <2>2. CountsAddUp' /\ Purchases'
    BY <1>1, <2>1, PurchasesElsewhere DEF CountsAddUp, seeding
  <2> QED
    BY <1>1, <1>2, <1>6, <2>2, FiniteChanges, LifeChanges, ObjectsChanges, PicturesChanges DEF MediaInv
<1>7. ASSUME NEW k \in Keys, Seed(k)
      PROVE  MediaInv'
  BY <1>1, <1>2, <1>7, FiniteSeeding, CountsSeeding, LifeSeeding, ObjectsSeeding, PicturesSeeding, PurchasesSeeding
     DEF MediaInv
<1>8. ASSUME NEW force \in BOOLEAN, NEW api \in BOOLEAN, NEW backup \in BOOLEAN,
             StartSeeding(force, api, backup) \/ EndSeeding \/ WipeVolumes
      PROVE  MediaInv'
  <2>1. Finite' /\ CountsAddUp' /\ Life' /\ Objects' /\ Pictures'
    BY <1>1, <1>8, FiniteRuns, CountsRuns, LifeRuns, ObjectsRuns, PicturesRuns
  <2>2. Purchases'
    <3>1. CASE StartSeeding(force, api, backup) \/ EndSeeding
      BY <1>1, <3>1, PurchasesRuns
    <3>2. CASE WipeVolumes
      BY <1>1, <3>2, PurchasesElsewhere DEF WipeVolumes
    <3> QED
      BY <1>8, <3>1, <3>2
  <2> QED
    BY <1>2, <2>1, <2>2 DEF MediaInv
<1> QED
  BY <1>3, <1>4, <1>5, <1>6, <1>7, <1>8 DEF MediaNext

\* So it always holds: rows, objects, purchases and counts stay together
\* (MediaService, scripts/seed_minio_media.py).
THEOREM MediaIsKept == MediaSpec => []MediaInv
<1>1. MediaInv /\ [MediaNext]_mediaVars => MediaInv'
  BY StepMedia
<1> QED
  BY <1>1, InitMedia, PTL DEF MediaSpec

-----------------------------------------------------------------------------
(* What it gives.                                                          *)

\* Every variable has its type: a row's values, an upload's place, the
\* script's record (MediaService, scripts/seed_minio_media.py).
THEOREM MediaTypeCorrect == MediaSpec => []MediaTypeOK
<1>1. MediaInv => MediaTypeOK
  BY DEF MediaInv, MediaTyped
<1> QED
  BY <1>1, MediaIsKept, PTL

\* Once everything is over, an upload whose own calls did not fail has its
\* object and its row or neither, and an image counted as imported got a row,
\* however many uploads share a session and whatever its siblings do
\* (MediaService.upload, ImageImporter).
THEOREM UploadsAlwaysLeaveBoth == MediaSpec => []UploadsLeaveBoth
<1>1. MediaInv => UploadsLeaveBoth
  <2> SUFFICES ASSUME MediaInv
               PROVE  UploadsLeaveBoth
    OBVIOUS
  <2>1. MediaTyped /\ Life /\ Objects
    BY DEF MediaInv
  <2>2. ImportedHasRow
    BY <2>1 DEF Life, ImportedHasRow
  <2>3. ASSUME AtRest, NEW k \in Uploads \ hit
        PROVE  (HasRow(k) => Object(k) # None) /\ (Object(k) = "upload" => HasRow(k))
    <3>1. pc[k] \in {"unused", "new", "failed", "imported"} /\ removal[k] = None
      BY <2>1, <2>3 DEF AtRest, Keys, MediaTyped, MediaTypeOK
    <3>2. HasRow(k) => Object(k) # None
      BY <2>1, <3>1, AbsentMediaAssumption DEF Objects
    <3>3. Object(k) = "upload" => HasRow(k)
      BY <2>1, <3>1, AbsentMediaAssumption DEF Objects, Life, HasRow
    <3> QED
      BY <3>2, <3>3
  <2>4. NoLeftovers
    BY <2>3 DEF NoLeftovers, Object
  <2> QED
    BY <2>2, <2>4 DEF UploadsLeaveBoth
<1> QED
  BY <1>1, MediaIsKept, PTL

\* A public row has the size and type of the object behind it, but while the
\* script is between the two (seed_minio_media.py update_size_bytes).
THEOREM RowsAlwaysDescribe == MediaSpec => []RowDescribesObject
<1>1. MediaInv => RowDescribesObject
  BY DEF MediaInv, Pictures, Picture, Recording, RowDescribesObject
<1> QED
  BY <1>1, MediaIsKept, PTL

\* The script's last line adds up at every moment, and nothing is bought
\* twice without force and with a backup directory (seed_minio_media.py).
THEOREM SeedingAlwaysAddsUp == MediaSpec => []SeedingAddsUp
<1>1. MediaInv => SeedingAddsUp
  <2> SUFFICES ASSUME MediaInv
               PROVE  SeedingAddsUp
    OBVIOUS
  <2>1. MediaTyped /\ CountsAddUp /\ Purchases
    BY DEF MediaInv
  <2>2. BoughtOnce
    BY <2>1 DEF Purchases, BoughtOnce, MediaTyped, MediaTypeOK
  <2> QED
    BY <2>1, <2>2 DEF SeedingAddsUp
<1> QED
  BY <1>1, MediaIsKept, PTL

-----------------------------------------------------------------------------
(* Error responses, whatever was raised.                                   *)

\* A lookup that misses is a 404.
LEMMA MissingAlways404 ==
  ASSUME NEW exc
  PROVE  MissingIs404(exc)
<1>1. CASE exc.type = "NoResultFound"
  <2>1. Bases(exc.type) = {"NoResultFound"}
    BY <1>1 DEF Bases, StatusOf
  <2>2. Status(exc) = 404
    BY <2>1 DEF Status, IsInstance
  <2> QED
    BY <2>2 DEF MissingIs404
<1>2. CASE exc.type = "SummaryNotFound"
  <2>1. exc.type \in DOMAIN StatusOf /\ StatusOf[exc.type] = 404
    BY <1>2 DEF StatusOf
  <2>2. Bases(exc.type) = {"BaseAPIException"}
    BY <2>1 DEF Bases
  <2>3. Status(exc) = 404
    BY <2>1, <2>2 DEF Status, IsInstance
  <2> QED
    BY <2>3 DEF MissingIs404
<1>3. CASE exc.type = "ValueError" /\ Says(exc, "not found")
  <2>1. Bases(exc.type) = {"ValueError"}
    BY <1>3 DEF Bases, StatusOf
  <2>2. Status(exc) = ValueErrorStatus(exc)
    BY <2>1 DEF Status, IsInstance
  <2> QED
    BY <1>3, <2>2 DEF MissingIs404, ValueErrorStatus
<1> QED
  BY <1>1, <1>2, <1>3 DEF MissingIs404

\* What has no handler of its own, and is not of Google, is a 500.
LEMMA UnregisteredIs500 ==
  ASSUME NEW exc, ~IsInstance(exc, "Google"), ~KeepsConnection(exc)
  PROVE  Status(exc) = 500
<1>1. \A class \in Registered : ~IsInstance(exc, class)
  BY DEF KeepsConnection, IsInstance
<1>2. /\ ~IsInstance(exc, "BaseAPIException") /\ ~IsInstance(exc, "InvalidCredentialsError")
      /\ ~IsInstance(exc, "HTTPException") /\ ~IsInstance(exc, "ValueError")
      /\ ~IsInstance(exc, "NoResultFound") /\ ~IsInstance(exc, "MultipleResultsFound")
      /\ ~IsInstance(exc, "IntegrityError")
  BY <1>1 DEF Registered
<1> QED
  BY <1>2 DEF Status

\* Whatever is raised, a missing row is a 404 and a client who is blamed keeps
\* his connection (global_exception_handler, register_exception_handlers).
THEOREM ErrorsAlwaysKeepMeaning == RecordsSpec => []ErrorsKeepMeaning
<1>1. ASSUME NEW exc
      PROVE  BlamedClientStays(exc)
  BY UnregisteredIs500 DEF BlamedClientStays
<1>2. ASSUME NEW exc
      PROVE  ErrorKeepsMeaning(exc)
  BY <1>1, MissingAlways404 DEF ErrorKeepsMeaning
<1>3. ErrorsKeepMeaning
  BY <1>2 DEF ErrorsKeepMeaning
<1> QED
  BY <1>3, PTL

-----------------------------------------------------------------------------
(* Types.                                                                  *)

\* The instance takes steps of the library and of the images only.
LEMMA RecordsSteps ==
  ASSUME [RecordsNext]_allVars
  PROVE  [Next]_vars /\ [MediaNext]_mediaVars
BY DEF RecordsNext, allVars

\* So every theorem about the library or the images is one about it too.
LEMMA RecordsAreBoth == RecordsSpec => Spec /\ MediaSpec
<1>1. RecordsInit => Init /\ MediaInit
  BY DEF RecordsInit
<1>2. [RecordsNext]_allVars => [Next]_vars /\ [MediaNext]_mediaVars
  BY RecordsSteps
<1> QED
  BY <1>1, <1>2, PTL DEF RecordsSpec, Spec, MediaSpec

\* Every table, request, upload and counter keeps its type, side by side
\* (models.py's columns, MediaService, scripts/seed_minio_media.py).
THEOREM RecordsTypeCorrect == RecordsSpec => []RecordsTypeOK
<1>1. TypeOK /\ MediaTypeOK => RecordsTypeOK
  BY DEF RecordsTypeOK
<1> QED
  BY <1>1, RecordsAreBoth, LibraryTypeCorrect, MediaTypeCorrect, PTL

-----------------------------------------------------------------------------
(* Listings, for every table, query and limit.                             *)

\* A table: finitely many rows, which differ in their ids.
Table(table) ==
  /\ IsFiniteSet(table)
  /\ \A row \in table : row.id \in Nat /\ row.key \in Nat
  /\ \A row, other \in table : row.id = other.id => row = other

\* A listing shows each row that matches once.
LEMMA ListingIs ==
  ASSUME NEW table, Table(table), NEW q, NEW l \in Listings(q, table), NEW n \in Nat,
         n = Cardinality(Matching(q, table))
  PROVE  /\ l \in [1..n -> Matching(q, table)] /\ DOMAIN l = 1..n
         /\ l \in Seq(Matching(q, table)) /\ Len(l) = n
         /\ \A i, j \in 1..n : l[i] = l[j] => i = j
         /\ \A i, j \in 1..n : i < j => ~SortsBefore(q, l[j], l[i])
<1>1. l \in SetToSeqs(Matching(q, table))
  BY DEF Listings
<1>2. /\ l \in [1..n -> Matching(q, table)]
      /\ \A i, j \in 1..n : i # j => l[i] # l[j]
  BY <1>1 DEF SetToSeqs
<1>3. DOMAIN l = 1..n /\ l \in Seq(Matching(q, table)) /\ Len(l) = n
  BY <1>2
<1>4. \A i \in DOMAIN l : \A j \in 1..(i - 1) : ~SortsBefore(q, l[i], l[j])
  BY DEF Listings
<1>5. ASSUME NEW i \in 1..n, NEW j \in 1..n, i < j
      PROVE  ~SortsBefore(q, l[j], l[i])
  <2>1. i \in 1..(j - 1)
    BY <1>5
  <2> QED
    BY <1>3, <1>4, <2>1
<1> QED
  BY <1>2, <1>3, <1>5

\* What matches is part of the table.
LEMMA MatchingIsTable ==
  ASSUME NEW table, Table(table), NEW q
  PROVE  /\ Table(Matching(q, table)) /\ Matching(q, table) \subseteq table
         /\ Cardinality(Matching(q, table)) \in Nat
         /\ Cardinality(Matching(q, table)) <= Cardinality(table) /\ Cardinality(table) \in Nat
<1>1. Matching(q, table) \in SUBSET table
  BY DEF Matching
<1>2. IsFiniteSet(Matching(q, table)) /\ Cardinality(Matching(q, table)) <= Cardinality(table)
  BY <1>1, FS_Subset DEF Table
<1>3. Cardinality(Matching(q, table)) \in Nat /\ Cardinality(table) \in Nat
  BY <1>2, FS_CardinalityType DEF Table
<1>4. Table(Matching(q, table))
  BY <1>1, <1>2 DEF Table
<1> QED
  BY <1>1, <1>2, <1>3, <1>4

\* Each page is the rows after the offset, as many as the limit.
LEMMA PageIs ==
  ASSUME NEW S, NEW l \in Seq(S), NEW q, NEW offset \in Nat, NEW limit \in Nat
  PROVE  /\ PageOf(q, l, offset, limit) \in Seq(S)
         /\ limit > 0 =>
              /\ offset >= Len(l) => Len(PageOf(q, l, offset, limit)) = 0
              /\ offset < Len(l) /\ offset + limit < Len(l) =>
                   Len(PageOf(q, l, offset, limit)) = limit
              /\ offset < Len(l) /\ offset + limit >= Len(l) =>
                   Len(PageOf(q, l, offset, limit)) = Len(l) - offset
              /\ \A row : row \in ToSet(PageOf(q, l, offset, limit)) <=>
                   \E k \in 1..Len(l) : offset < k /\ k <= offset + limit /\ l[k] = row
<1>1. PICK L \in Nat : L = Len(l) /\ DOMAIN l = 1..L /\ \A k \in 1..L : l[k] \in S
  OBVIOUS
<1>2. PICK page : page = PageOf(q, l, offset, limit)
  OBVIOUS
<1>3. PICK e \in Nat : e = IF offset + limit < L THEN offset + limit ELSE L
  OBVIOUS
<1>4. \A k \in 1..(L - offset) : l[offset + k] \in S
  BY <1>1
<1>5. \A k \in 1..(e - offset) : l[offset + k] \in S
  BY <1>1, <1>3
<1>6. SubSeq(l, offset + 1, L) \in Seq(S) /\ SubSeq(l, offset + 1, e) \in Seq(S)
  BY <1>1, <1>3
<1>7. page \in Seq(S)
  <2>1. <<>> \in Seq(S)
    OBVIOUS
  <2> QED
    BY <1>1, <1>2, <1>3, <1>6, <2>1 DEF PageOf
<1>8. ASSUME limit > 0
      PROVE  /\ offset >= L => Len(page) = 0
             /\ offset < L /\ offset + limit < L => Len(page) = limit
             /\ offset < L /\ offset + limit >= L => Len(page) = L - offset
             /\ \A row : row \in ToSet(page) <=>
                   \E k \in 1..L : offset < k /\ k <= offset + limit /\ l[k] = row
  <2>1. page = SubSeq(l, offset + 1, e)
    BY <1>1, <1>2, <1>3, <1>8 DEF PageOf
  <2>2. PICK m \in Nat : m = IF offset >= L THEN 0 ELSE e - offset
    <3>1. CASE offset >= L
      BY <3>1
    <3>2. CASE ~(offset >= L)
      <4>1. e \in Nat /\ offset <= e
        BY <1>1, <1>3, <3>2
      <4>2. e - offset \in Nat
        BY <4>1
      <4> QED
        BY <3>2, <4>2
    <3> QED
      BY <3>1, <3>2
  <2>3. Len(page) = m /\ DOMAIN page = 1..m /\ \A k \in 1..m : page[k] = l[offset + k]
    <3>1. PICK s \in Nat : s = offset + 1
      OBVIOUS
    <3>2. page = SubSeq(l, s, e) /\ page \in Seq(S)
      BY <1>7, <2>1, <3>1
    <3>3. e \in Nat /\ e <= L
      BY <1>1, <1>3
    <3>4. Len(page) = IF s <= e THEN e - s + 1 ELSE 0
      BY <1>1, <3>1, <3>2, <3>3
    <3>5. Len(page) = m
      BY <1>1, <1>3, <2>2, <3>1, <3>4
    <3>6. \A k \in 1..Len(page) : page[k] = l[s + k - 1]
      BY <1>1, <3>1, <3>2, <3>3, <3>4
    <3>7. DOMAIN page = 1..m
      BY <3>2, <3>5
    <3>8. ASSUME NEW k \in 1..m
          PROVE  page[k] = l[offset + k]
      <4>1. s + k - 1 = offset + k
        BY <3>1
      <4>2. page[k] = l[s + k - 1]
        BY <3>5, <3>6
      <4> QED
        BY <4>1, <4>2
    <3> QED
      BY <3>5, <3>7, <3>8
  <2>4. /\ offset >= L => m = 0
        /\ offset < L /\ offset + limit < L => m = limit
        /\ offset < L /\ offset + limit >= L => m = L - offset
    BY <1>1, <1>3, <2>2
  <2>5. \A row : row \in ToSet(page) <=> \E k \in 1..m : page[k] = row
    <3>1. ToSet(page) = {page[k] : k \in 1..m}
      BY <2>3 DEF ToSet
    <3> QED
      BY <3>1
  <2>6. ASSUME NEW row, row \in ToSet(page)
        PROVE  \E k \in 1..L : offset < k /\ k <= offset + limit /\ l[k] = row
    <3>1. PICK k \in 1..m : page[k] = row
      BY <2>5, <2>6
    <3>2. l[offset + k] = row /\ offset + k \in 1..L /\ offset < offset + k /\ offset + k <= offset + limit
      BY <1>3, <2>2, <2>3, <3>1
    <3> QED
      BY <3>2
  <2>7. ASSUME NEW row, NEW k \in 1..L, offset < k, k <= offset + limit, l[k] = row
        PROVE  row \in ToSet(page)
    <3>1. PICK j \in Nat : j = k - offset /\ offset + j = k
      BY <2>7
    <3>2. j \in 1..m
      BY <1>1, <1>3, <2>2, <2>7, <3>1
    <3>3. page[j] = row
      BY <2>3, <2>7, <3>1, <3>2
    <3> QED
      BY <2>5, <3>2, <3>3
  <2> QED
    BY <2>3, <2>4, <2>6, <2>7
<1> QED
  BY <1>1, <1>2, <1>7, <1>8

\* It shows all of them.
LEMMA ListingIsAll ==
  ASSUME NEW table, Table(table), NEW q, NEW l \in Listings(q, table), NEW n \in Nat,
         n = Cardinality(Matching(q, table))
  PROVE  \A row \in Matching(q, table) : \E i \in 1..n : l[i] = row
<1> DEFINE M == Matching(q, table)
<1>1. /\ l \in [1..n -> M]
      /\ \A i, j \in 1..n : l[i] = l[j] => i = j
  BY ListingIs
<1>2. IsFiniteSet(M)
  BY MatchingIsTable DEF Table
<1> HIDE DEF M
<1>3. l \in Injection(1..n, M)
  BY <1>1 DEF Injection, IsInjective
<1>4. Cardinality(1..n) = n
  <2>1. 1 \in Int /\ n \in Int
    OBVIOUS
  <2>2. Cardinality(1..n) = IF 1 > n THEN 0 ELSE n - 1 + 1
    BY <2>1, FS_Interval
  <2> QED
    BY <2>2
<1>5. Cardinality(1..n) = Cardinality(M)
  BY <1>4 DEF M
<1>6. l \in Surjection(1..n, M)
  BY <1>2, <1>3, <1>5, FS_Injection
<1>7. \A row \in M : \E i \in 1..n : l[i] = row
  BY <1>6 DEF Surjection
<1> QED
  BY <1>7 DEF M

\* Where there is an order, it leaves no choice between two rows.
LEMMA SortsAll ==
  ASSUME NEW table, Table(table), NEW q, Ordered(q), NEW a \in table, NEW b \in table,
         ~SortsBefore(q, a, b), ~SortsBefore(q, b, a), q.sort \in {"none", "asc", "desc"}
  PROVE  a = b
<1>1. PICK i \in Nat : i = a.id
  BY DEF Table
<1>2. PICK j \in Nat : j = b.id
  BY DEF Table
<1>3. PICK x \in Nat : x = a.key
  BY DEF Table
<1>4. PICK y \in Nat : y = b.key
  BY DEF Table
<1>5. CASE q.kind = "scenes" /\ q.sort = "asc"
  <2>1. ~(x < y \/ (x = y /\ i < j)) /\ ~(y < x \/ (y = x /\ j < i))
    BY <1>1, <1>2, <1>3, <1>4, <1>5 DEF SortsBefore
  <2>2. i = j
    BY <2>1
  <2> QED
    BY <1>1, <1>2, <2>2 DEF Table
<1>6. CASE q.kind = "scenes" /\ q.sort = "desc"
  <2>1. ~(x > y \/ (x = y /\ i < j)) /\ ~(y > x \/ (y = x /\ j < i))
    BY <1>1, <1>2, <1>3, <1>4, <1>6 DEF SortsBefore
  <2>2. i = j
    BY <2>1
  <2> QED
    BY <1>1, <1>2, <2>2 DEF Table
<1>7. CASE q.kind = "media"
  <2>1. ~(x < y \/ (x = y /\ i > j)) /\ ~(y < x \/ (y = x /\ j > i))
    BY <1>1, <1>2, <1>3, <1>4, <1>7 DEF SortsBefore
  <2>2. i = j
    BY <2>1
  <2> QED
    BY <1>1, <1>2, <2>2 DEF Table
<1> QED
  BY <1>5, <1>6, <1>7 DEF Ordered

\* So every request gets the same listing ("unique tiebreaker",
\* ScenesGateway.search): two have no first place to differ at.
LEMMA OneListing ==
  ASSUME NEW table, Table(table), NEW q, Ordered(q), q.sort \in {"none", "asc", "desc"},
         NEW l \in Listings(q, table), NEW m \in Listings(q, table)
  PROVE  l = m
<1>1. PICK n \in Nat : n = Cardinality(Matching(q, table))
  BY MatchingIsTable
<1>2. /\ l \in [1..n -> Matching(q, table)]
      /\ \A i, j \in 1..n : l[i] = l[j] => i = j
      /\ \A i, j \in 1..n : i < j => ~SortsBefore(q, l[j], l[i])
  BY <1>1, ListingIs
<1>3. /\ m \in [1..n -> Matching(q, table)]
      /\ \A i, j \in 1..n : m[i] = m[j] => i = j
      /\ \A i, j \in 1..n : i < j => ~SortsBefore(q, m[j], m[i])
  BY <1>1, ListingIs
<1>4. /\ \A row \in Matching(q, table) : \E i \in 1..n : l[i] = row
      /\ \A row \in Matching(q, table) : \E i \in 1..n : m[i] = row
  BY <1>1, ListingIsAll
<1> DEFINE D == {i \in 1..n : l[i] # m[i]}
<1>5. ASSUME D # {}
      PROVE  FALSE
  <2>0. D \in SUBSET Nat
    OBVIOUS
  <2>1. PICK i \in D : \A k \in D : i <= k
    <3> HIDE DEF D
    <3> QED
      BY <1>5, <2>0, LeastNat
  <2>2. i \in 1..n /\ l[i] # m[i] /\ \A k \in 1..n : k < i => l[k] = m[k]
    BY <2>1
  <2> HIDE DEF D
  <2>3. l[i] \in Matching(q, table) /\ m[i] \in Matching(q, table)
    BY <1>2, <1>3, <2>2
  <2>4. PICK j \in 1..n : l[j] = m[i]
    BY <1>4, <2>3
  <2>5. PICK k \in 1..n : m[k] = l[i]
    BY <1>4, <2>3
  <2>6. i < j
    <3>1. i # j
      BY <2>2, <2>4
    <3>2. ~(j < i)
      <4>1. SUFFICES ASSUME j < i
                     PROVE  FALSE
        OBVIOUS
      <4>2. l[j] = m[j]
        BY <2>2, <4>1
      <4>3. m[j] = m[i]
        BY <2>4, <4>2
      <4> QED
        BY <1>3, <2>2, <3>1, <4>3
    <3> QED
      BY <2>2, <3>1, <3>2
  <2>7. i < k
    <3>1. i # k
      BY <2>2, <2>5
    <3>2. ~(k < i)
      <4>1. SUFFICES ASSUME k < i
                     PROVE  FALSE
        OBVIOUS
      <4>2. l[k] = m[k]
        BY <2>2, <4>1
      <4>3. l[k] = l[i]
        BY <2>5, <4>2
      <4> QED
        BY <1>2, <2>2, <3>1, <4>3
    <3> QED
      BY <2>2, <3>1, <3>2
  <2>8. ~SortsBefore(q, m[i], l[i])
    BY <1>2, <2>2, <2>4, <2>6
  <2>9. ~SortsBefore(q, l[i], m[i])
    BY <1>3, <2>2, <2>5, <2>7
  <2>10. l[i] \in table /\ m[i] \in table
    BY <2>3, MatchingIsTable
  <2>11. l[i] = m[i]
    BY <2>8, <2>9, <2>10, SortsAll
  <2> QED
    BY <2>2, <2>11
<1>6. \A i \in 1..n : l[i] = m[i]
  BY <1>5
<1> QED
  BY <1>2, <1>3, <1>6

\* Every place is after just one offset.
LEMMA OneOffset ==
  ASSUME NEW limit \in Nat, limit > 0, NEW a \in Nat, NEW b \in Nat, NEW i \in Nat,
         limit * a < i, i <= limit * a + limit, limit * b < i, i <= limit * b + limit
  PROVE  a = b
<1>1. ASSUME NEW x \in Nat, NEW y \in Nat, limit * y < i, i <= limit * x + limit
      PROVE  ~(x < y)
  <2>1. SUFFICES ASSUME x < y
                 PROVE  FALSE
    OBVIOUS
  <2>2. PICK d \in Nat : y = x + 1 + d
    <3>1. y - x - 1 \in Nat /\ y = x + 1 + (y - x - 1)
      BY <2>1
    <3> QED
      BY <3>1
  <2>3. limit * y = limit * x + limit + limit * d
    BY <2>2
  <2>4. limit * d \in Nat /\ limit * x \in Nat
    OBVIOUS
  <2> QED
    BY <1>1, <2>3, <2>4
<1>2. ~(a < b) /\ ~(b < a)
  BY <1>1
<1> QED
  BY <1>2

\* And each is after one.
LEMMA SomeOffset ==
  ASSUME NEW limit \in Nat, limit > 0, NEW i \in Nat, i > 0
  PROVE  \E a \in Nat : limit * a < i /\ i <= limit * a + limit /\ (limit * a) % limit = 0
<1>1. PICK a \in Nat : a = (i - 1) \div limit
  OBVIOUS
<1>2. i - 1 = limit * a + ((i - 1) % limit) /\ (i - 1) % limit \in 0..(limit - 1)
  BY <1>1
<1>3. limit * a \in Nat
  OBVIOUS
<1>4. limit * a < i /\ i <= limit * a + limit
  BY <1>2, <1>3
<1>5. (limit * a) % limit = 0
  OBVIOUS
<1> QED
  BY <1>4, <1>5

\* An offset is a number of whole pages.
LEMMA OffsetIsMultiple ==
  ASSUME NEW limit \in Nat, limit > 0, NEW n \in Nat, n % limit = 0
  PROVE  \E a \in Nat : n = limit * a
<1>1. PICK a \in Nat : a = n \div limit
  OBVIOUS
<1>2. n = limit * a + (n % limit)
  BY <1>1
<1>3. n = limit * a
  BY <1>2
<1> QED
  BY <1>3

\* Whoever turns the pages of a sorted listing meets each row once, however
\* many requests that takes.
LEMMA PagesAlwaysCover ==
  ASSUME NEW table, Table(table), NEW q, q.sort \in {"none", "asc", "desc"}, NEW limit \in Nat
  PROVE  PagesCoverOnce(q, table, limit)
<1>1. SUFFICES ASSUME Ordered(q), limit > 0,
                      NEW got \in [Offsets(q, table, limit) -> Listings(q, table)],
                      NEW row \in Matching(q, table)
               PROVE  Cardinality({n \in DOMAIN got : row \in ToSet(PageOf(q, got[n], n, limit))}) = 1
  BY DEF PagesCoverOnce
<1>2. PICK N \in Nat : N = Cardinality(Matching(q, table))
  BY MatchingIsTable
<1>3. PICK T \in Nat : T = Cardinality(table) /\ N <= T
  BY <1>2, MatchingIsTable
<1>4. Offsets(q, table, limit) = {n \in 0..T : n % limit = 0}
  BY <1>3 DEF Offsets
<1>5. 0 \in Offsets(q, table, limit)
  BY <1>1, <1>3, <1>4
<1>6. PICK l \in Listings(q, table) : l = got[0]
  BY <1>1, <1>5
<1>7. /\ l \in Seq(Matching(q, table)) /\ Len(l) = N
      /\ \A i, j \in 1..N : l[i] = l[j] => i = j
  BY <1>2, ListingIs
<1>8. PICK i \in 1..N : l[i] = row
  BY <1>1, <1>2, ListingIsAll
<1>9. \A n \in Offsets(q, table, limit) : got[n] = l
  BY <1>1, OneListing
<1>10. ASSUME NEW n \in Offsets(q, table, limit)
       PROVE  row \in ToSet(PageOf(q, got[n], n, limit)) <=> n < i /\ i <= n + limit
  <2>1. n \in Nat /\ got[n] = l
    BY <1>4, <1>9
  <2>2. row \in ToSet(PageOf(q, l, n, limit)) <=>
          \E k \in 1..Len(l) : n < k /\ k <= n + limit /\ l[k] = row
    BY <1>1, <1>7, <2>1, PageIs
  <2>3. (\E k \in 1..N : n < k /\ k <= n + limit /\ l[k] = row) <=> n < i /\ i <= n + limit
    BY <1>7, <1>8
  <2> QED
    BY <1>7, <2>1, <2>2, <2>3
<1>11. PICK a \in Nat : limit * a < i /\ i <= limit * a + limit /\ (limit * a) % limit = 0
  <2>1. i \in Nat /\ i > 0
    BY <1>8
  <2> QED
    BY <1>1, <2>1, SomeOffset
<1>12. PICK m \in Nat : m = limit * a
  OBVIOUS
<1>13. m \in Offsets(q, table, limit) /\ m < i /\ i <= m + limit
  <2>1. m <= T
    BY <1>3, <1>8, <1>11, <1>12
  <2> QED
    BY <1>3, <1>4, <1>11, <1>12, <2>1
<1>14. ASSUME NEW n \in Offsets(q, table, limit), n < i, i <= n + limit
       PROVE  n = m
  <2>1. n \in Nat /\ n % limit = 0
    BY <1>4
  <2>2. PICK b \in Nat : n = limit * b
    BY <1>1, <2>1, OffsetIsMultiple
  <2>3. limit * b < i /\ i <= limit * b + limit /\ i \in Nat
    BY <1>8, <1>14, <2>2
  <2>4. a = b
    BY <1>1, <1>11, <2>3, OneOffset
  <2> QED
    BY <1>12, <2>2, <2>4
<1>15. {n \in DOMAIN got : row \in ToSet(PageOf(q, got[n], n, limit))} = {m}
  <2>1. DOMAIN got = Offsets(q, table, limit)
    BY <1>1
  <2> QED
    BY <1>10, <1>13, <1>14, <2>1
<1> QED
  BY <1>15, FS_Singleton

\* Joining the marks of a row counts it once.
LEMMA JoinedAreMatching ==
  ASSUME NEW table, NEW q
  PROVE  {j[1] : j \in Joined(q, table)} = Matching(q, table)
<1>1. ASSUME NEW j \in Joined(q, table)
      PROVE  j[1] \in Matching(q, table)
  <2>1. PICK row \in Matching(q, table) :
          j \in IF q.kind = "scenes" /\ q.marks # {} THEN {row} \X row.marks ELSE {<<row, None>>}
    BY DEF Joined
  <2>2. j[1] = row
    BY <2>1
  <2> QED
    BY <2>1, <2>2
<1>2. ASSUME NEW row \in Matching(q, table)
      PROVE  \E j \in Joined(q, table) : j[1] = row
  <2>1. CASE q.kind = "scenes" /\ q.marks # {}
    <3>1. row.marks \cap q.marks # {}
      BY <2>1 DEF Matching
    <3>2. PICK mark : mark \in row.marks
      BY <3>1
    <3>3. <<row, mark>> \in {row} \X row.marks
      BY <3>2
    <3>4. <<row, mark>> \in Joined(q, table)
      BY <2>1, <3>3 DEF Joined
    <3>5. <<row, mark>>[1] = row
      OBVIOUS
    <3> QED
      BY <3>4, <3>5
  <2>2. CASE ~(q.kind = "scenes" /\ q.marks # {})
    <3>1. <<row, None>> \in Joined(q, table)
      BY <2>2 DEF Joined
    <3>2. <<row, None>>[1] = row
      OBVIOUS
    <3> QED
      BY <3>1, <3>2
  <2> QED
    BY <2>1, <2>2
<1> QED
  BY <1>1, <1>2

\* The count is the number of rows, and of the first page as far as it goes.
LEMMA CountAlwaysAll ==
  ASSUME NEW table, Table(table), NEW q, NEW limit \in Nat
  PROVE  CountIsAll(q, table, limit)
<1>1. SUFFICES ASSUME NEW l \in Listings(q, table)
               PROVE  /\ Count(q, table) = Len(l)
                      /\ limit > 0 => Len(PageOf(q, l, 0, limit)) = Min({limit, Count(q, table)})
  BY DEF CountIsAll
<1>2. PICK N \in Nat : N = Cardinality(Matching(q, table))
  BY MatchingIsTable
<1>3. l \in Seq(Matching(q, table)) /\ Len(l) = N
  BY <1>2, ListingIs
<1>4. Count(q, table) = N
  BY <1>2, JoinedAreMatching DEF Count
<1>5. ASSUME limit > 0
      PROVE  Len(PageOf(q, l, 0, limit)) = Min({limit, N})
  <2>1. /\ N = 0 => Len(PageOf(q, l, 0, limit)) = 0
        /\ 0 < N /\ limit < N => Len(PageOf(q, l, 0, limit)) = limit
        /\ 0 < N /\ limit >= N => Len(PageOf(q, l, 0, limit)) = N
    <3>1. PICK o \in Nat : o = 0
      OBVIOUS
    <3>2. /\ o >= N => Len(PageOf(q, l, o, limit)) = 0
          /\ o < N /\ o + limit < N => Len(PageOf(q, l, o, limit)) = limit
          /\ o < N /\ o + limit >= N => Len(PageOf(q, l, o, limit)) = N - o
      BY <1>3, <1>5, PageIs
    <3> QED
      BY <3>1, <3>2
  <2>2. PICK least \in Nat : least = IF limit < N THEN limit ELSE N
    BY <1>2
  <2>3. Len(PageOf(q, l, 0, limit)) = least
    BY <1>2, <1>3, <2>1, <2>2
  <2>4. least \in {limit, N} /\ \A y \in {limit, N} : least <= y
    BY <1>2, <2>2
  <2>5. \A x \in {limit, N} : (\A y \in {limit, N} : x <= y) => x = least
    BY <1>2, <2>2
  <2>6. Min({limit, N}) = least
    BY <2>4, <2>5, Zenon DEF Min
  <2> QED
    BY <2>3, <2>6
<1> QED
  BY <1>3, <1>4, <1>5

\* A page shows only what its actor may see.
LEMMA OnlyVisibleAlways ==
  ASSUME NEW table, Table(table), NEW q, NEW limit \in Nat
  PROVE  OnlyVisible(q, table, limit)
<1>1. SUFFICES ASSUME NEW l \in Listings(q, table), NEW i \in DOMAIN PageOf(q, l, 0, limit),
                      NEW row, row = PageOf(q, l, 0, limit)[i],
                      q.kind \in Shared \cup Private, row.owner # q.actor \/ row.owner = None
               PROVE  row.public /\ q.kind \in Shared
  BY DEF OnlyVisible
<1>2. PICK N \in Nat : N = Cardinality(Matching(q, table))
  BY MatchingIsTable
<1>3. l \in Seq(Matching(q, table))
  BY <1>2, ListingIs
<1>4. PageOf(q, l, 0, limit) \in Seq(Matching(q, table))
  BY <1>3, PageIs
<1>5. row \in Matching(q, table)
  BY <1>1, <1>4
<1>6. Shown(q.kind, row, q.actor)
  BY <1>5 DEF Matching
<1> QED
  BY <1>1, <1>6 DEF Shown, PublicOrOwned, Shared, Private

\* Whatever the table, the query and the limit.
LEMMA ListingAlwaysAnswers ==
  ASSUME NEW table, Table(table), NEW q, q.sort \in {"none", "asc", "desc"}, NEW limit \in Nat
  PROVE  ListingAnswers(q, table, limit)
BY PagesAlwaysCover, CountAlwaysAll, OnlyVisibleAlways DEF ListingAnswers

-----------------------------------------------------------------------------
(* The tables of the instance.                                             *)

\* A table under way has the ids 1..n; a search has a table, a sort and a limit.
SearchIs(i) ==
  /\ i.chosen \in BOOLEAN
  /\ i = [field \in DOMAIN i |-> i[field]] /\ {"chosen", "rows"} \subseteq DOMAIN i
  /\ IsFiniteSet(i.rows)
  /\ \A row \in i.rows : row.id \in 1..Cardinality(i.rows) /\ row.key \in Nat
  /\ \A row, other \in i.rows : row.id = other.id => row = other
  /\ i.chosen => i.q.sort \in {"none", "asc", "desc"} /\ i.limit \in Nat

SearchInv == part = "search" => SearchIs(input)

\* A row comes with the next id.
LEMMA RowComes ==
  ASSUME NEW i, SearchIs(i), ~i.chosen,
         NEW row, row.id = Cardinality(i.rows) + 1, row.key \in Nat
  PROVE  SearchIs([i EXCEPT !.rows = @ \cup {row}])
<1>1. PICK n \in Nat : n = Cardinality(i.rows)
  BY FS_CardinalityType DEF SearchIs
<1>2. row \notin i.rows
  BY <1>1 DEF SearchIs
<1>3. IsFiniteSet(i.rows \cup {row}) /\ Cardinality(i.rows \cup {row}) = n + 1
  BY <1>1, <1>2, FS_AddElement DEF SearchIs
<1>4. \A r \in i.rows : r.id \in 1..n /\ r.key \in Nat
  BY <1>1 DEF SearchIs
<1>5. \A r \in i.rows \cup {row} : r.id \in 1..(n + 1) /\ r.key \in Nat
  BY <1>1, <1>4
<1>6. \A r, other \in i.rows \cup {row} : r.id = other.id => r = other
  <2>1. \A r \in i.rows : r.id # row.id
    BY <1>1, <1>4
  <2> QED
    BY <2>1 DEF SearchIs
<1>7. PICK more : more = [i EXCEPT !.rows = @ \cup {row}]
  OBVIOUS
<1>8. /\ more = [field \in DOMAIN more |-> more[field]] /\ DOMAIN more = DOMAIN i
      /\ more.rows = i.rows \cup {row} /\ more.chosen = i.chosen
  BY <1>7 DEF SearchIs
<1>9. SearchIs(more)
  BY <1>3, <1>5, <1>6, <1>8 DEF SearchIs
<1> QED
  BY <1>7, <1>9

\* The first table is empty.
LEMMA SearchInvInit == RecordsInit => SearchInv
<1>1. SUFFICES ASSUME RecordsInit, part = "search"
               PROVE  SearchIs(input)
  BY DEF SearchInv
<1>2. PICK kind : input = Listing(kind)
  BY <1>1 DEF RecordsInit
<1>3. input = [chosen |-> FALSE, kind |-> kind, rows |-> {}]
  BY <1>2 DEF Listing
<1> QED
  BY <1>3, FS_EmptySet DEF SearchIs

\* Each step adds a row or asks for a page.
LEMMA SearchInvNext == SearchInv /\ [RecordsNext]_allVars => SearchInv'
<1>1. SUFFICES ASSUME SearchInv, [RecordsNext]_allVars, part' = "search"
               PROVE  SearchIs(input)'
  BY DEF SearchInv
<1>2. CASE UNCHANGED parts
  BY <1>1, <1>2 DEF SearchInv, SearchIs, parts
<1>3. CASE part = "search" /\ ~input.chosen /\ ASearch
  <2>6. PICK sort \in IF input.kind = "scenes" THEN {"none", "asc", "desc"} ELSE {"none"} :
          \E actor \in {u1, None}, limit \in 0..1,
             marks \in IF input.kind \in {"scenes", "characters"} THEN {{}, {1, 2}} ELSE {{}} :
            AskFor([kind |-> input.kind, actor |-> actor, marks |-> marks, sort |-> sort], limit)
    BY <1>3 DEF ASearch
  <2>7. PICK actor \in {u1, None}, limit \in 0..1,
             marks \in IF input.kind \in {"scenes", "characters"} THEN {{}, {1, 2}} ELSE {{}} :
            AskFor([kind |-> input.kind, actor |-> actor, marks |-> marks, sort |-> sort], limit)
    BY <2>6
  <2>1. PICK q : q = [kind |-> input.kind, actor |-> actor, marks |-> marks, sort |-> sort]
    OBVIOUS
  <2>2. input' = [chosen |-> TRUE, q |-> q, rows |-> input.rows, limit |-> limit]
    BY <2>7, <2>1 DEF AskFor
  <2>3. SearchIs(input)
    BY <1>1, <1>3 DEF SearchInv
  <2>4. /\ input'.chosen = TRUE /\ input'.rows = input.rows
        /\ input'.q = q /\ input'.limit = limit
        /\ input' = [field \in DOMAIN input' |-> input'[field]]
        /\ {"chosen", "rows"} \subseteq DOMAIN input'
    BY <2>2
  <2>5. q.sort \in {"none", "asc", "desc"} /\ limit \in Nat
    BY <2>6, <2>1
  <2> QED
    BY <2>5, <2>3, <2>4 DEF SearchIs
<1>4. CASE part = "search" /\ ~input.chosen /\ \E row \in Row(input.kind) : AddRow(row)
  <2>1. PICK row \in Row(input.kind) : AddRow(row)
    BY <1>4
  <2>2. row.id = Cardinality(input.rows) + 1 /\ row.key \in Nat
    BY <2>1 DEF Row
  <2>3. SearchIs(input)
    BY <1>1, <1>4 DEF SearchInv
  <2>4. input' = [input EXCEPT !.rows = @ \cup {row}]
    BY <2>1 DEF AddRow
  <2>5. SearchIs([input EXCEPT !.rows = @ \cup {row}])
    BY <1>4, <2>2, <2>3, RowComes
  <2> QED
    BY <2>4, <2>5 DEF SearchIs
<1>5. part' = part \/ UNCHANGED parts
  BY <1>1 DEF RecordsNext, InputNext, AnImport, AddEntry, Choose1, ASearch, AskFor, AddRow,
              AnError, Raise, parts, allVars
<1> QED
  BY <1>1, <1>2, <1>3, <1>4, <1>5 DEF RecordsNext, InputNext, parts, allVars

\* Sorted pages cover every row once, counts are counts of rows, and nobody
\* sees what is private (the search methods of the gateways).
THEOREM ListingsAlwaysAnswer == RecordsSpec => []ListingsAnswer
<1>1. SearchInv => ListingsAnswer
  <2>1. SUFFICES ASSUME SearchInv, part = "search", input.chosen
                 PROVE  ListingAnswers(input.q, input.rows, input.limit)
    BY DEF ListingsAnswer, Chosen
  <2>2. SearchIs(input)
    BY <2>1 DEF SearchInv
  <2>3. PICK n \in Nat : n = Cardinality(input.rows)
    BY <2>2, FS_CardinalityType DEF SearchIs
  <2>4. Table(input.rows)
    BY <2>2, <2>3 DEF SearchIs, Table
  <2>5. input.q.sort \in {"none", "asc", "desc"} /\ input.limit \in Nat
    BY <2>1, <2>2 DEF SearchIs
  <2> QED
    BY <2>4, <2>5, ListingAlwaysAnswers
<1> QED
  BY <1>1, SearchInvInit, SearchInvNext, PTL DEF RecordsSpec

-----------------------------------------------------------------------------
(* Imports, for every file, selection and failure.                         *)

\* What holds at 0 and passes on from each number to the next.
LEMMA UpTo ==
  ASSUME NEW L \in Nat, NEW G, 0 \in G, \A n \in 1..L : n - 1 \in G => n \in G
  PROVE  \A n \in 0..L : n \in G
<1> DEFINE Bad == {n \in 0..L : n \notin G}
<1>1. ASSUME Bad # {}
      PROVE  FALSE
  <2>1. Bad \in SUBSET Nat
    OBVIOUS
  <2>2. PICK n \in Bad : \A k \in Bad : n <= k
    <3> HIDE DEF Bad
    <3> QED
      BY <1>1, <2>1, LeastNat
  <2>3. n \in 1..L /\ n - 1 \in 0..L /\ n \notin G /\ ~(n <= n - 1)
    BY <2>2
  <2>4. n - 1 \in G
    BY <2>2, <2>3
  <2> QED
    BY <2>3, <2>4
<1> QED
  BY <1>1

KeepIf(some, x, S) == IF x \in S THEN Append(some, x) ELSE some

\* A sequence with a kept element is one of the same set.
LEMMA KeepIfIs ==
  ASSUME NEW A, NEW some \in Seq(A), NEW x \in A, NEW S
  PROVE  KeepIf(some, x, S) \in Seq(A)
BY DEF KeepIf

\* Filtering is the loop it is written as.
LEMMA FilteringIs ==
  ASSUME NEW A, NEW seq \in Seq(A), NEW S
  PROVE  /\ Filtering(seq, S) \in [0..Len(seq) -> Seq(A)]
         /\ Filtering(seq, S)[0] = <<>>
         /\ \A n \in 1..Len(seq) :
              /\ seq[n] \in S => Filtering(seq, S)[n] = Append(Filtering(seq, S)[n - 1], seq[n])
              /\ seq[n] \notin S => Filtering(seq, S)[n] = Filtering(seq, S)[n - 1]
<1> DEFINE L == Len(seq)
           F == [n \in 1..L |-> [x \in Seq(A) |-> KeepIf(x, seq[n], S)]]
           Loop(g) == [n \in 0..L |-> IF n = 0 THEN <<>> ELSE KeepIf(g[n - 1], seq[n], S)]
<1>1. L \in Nat
  OBVIOUS
<1>2. ASSUME NEW n \in 1..L, NEW x \in Seq(A)
      PROVE  F[n][x] = KeepIf(x, seq[n], S) /\ F[n][x] \in Seq(A)
  <2>1. seq[n] \in A
    OBVIOUS
  <2>2. KeepIf(x, seq[n], S) \in Seq(A)
    BY <2>1, KeepIfIs
  <2>3. F[n][x] = KeepIf(x, seq[n], S)
    OBVIOUS
  <2> QED
    BY <2>2, <2>3
<1>3. PICK g \in [0..L -> Seq(A)] : g[0] = <<>> /\ \A n \in 1..L : g[n] = F[n][g[n - 1]]
  <2> HIDE DEF F, L
  <2>1. <<>> \in Seq(A)
    OBVIOUS
  <2>2. IsLoop(Seq(A), <<>>, L, F)
    BY <1>1, <1>2, <2>1 DEF IsLoop
  <2>3. PICK g : IsRun(g, Seq(A), <<>>, L, F)
    BY <2>2, LoopExists
  <2> QED
    BY <2>3 DEF IsRun
<1>4. ASSUME NEW n \in 1..L
      PROVE  g[n] = KeepIf(g[n - 1], seq[n], S)
  <2>1. n - 1 \in 0..L
    BY <1>1
  <2>2. g[n - 1] \in Seq(A)
    BY <1>3, <2>1
  <2> HIDE DEF F
  <2> QED
    BY <1>2, <1>3, <2>2
<1>5. g = Loop(g)
  <2>1. ASSUME NEW n \in 0..L
        PROVE  g[n] = IF n = 0 THEN <<>> ELSE KeepIf(g[n - 1], seq[n], S)
    <3>1. CASE n = 0
      BY <1>3, <3>1
    <3>2. CASE n # 0
      <4>1. n \in 1..L
        BY <1>1, <3>2
      <4> HIDE DEF L
      <4> QED
        BY <1>4, <3>2, <4>1
    <3> QED
      BY <3>1, <3>2
  <2> QED
    BY <1>3, <2>1, Zenon
<1>6. Filtering(seq, S) = CHOOSE some : some = Loop(some)
  BY DEF Filtering, KeepIf
<1>7. PICK f : f = Filtering(seq, S)
  OBVIOUS
<1>8. f = Loop(f)
  <2> HIDE DEF Loop
  <2> QED
    BY <1>5, <1>6, <1>7
<1>9. f[0] = <<>> /\ \A n \in 1..L : f[n] = KeepIf(f[n - 1], seq[n], S)
  <2>1. 0 \in 0..L /\ \A n \in 1..L : n \in 0..L /\ n # 0
    BY <1>1
  <2>2. \A n \in 0..L : f[n] = IF n = 0 THEN <<>> ELSE KeepIf(f[n - 1], seq[n], S)
    <3>1. \A n \in 0..L : Loop(f)[n] = IF n = 0 THEN <<>> ELSE KeepIf(f[n - 1], seq[n], S)
      BY Zenon
    <3> HIDE DEF Loop
    <3> QED
      BY <1>8, <3>1, Zenon
  <2> HIDE DEF Loop, L
  <2> QED
    BY <2>1, <2>2, Zenon
<1>10. \A n \in 0..L : f[n] \in Seq(A)
  <2> DEFINE G == {n \in 0..L : f[n] \in Seq(A)}
  <2>1. 0 \in G
    <3>1. <<>> \in Seq(A)
      OBVIOUS
    <3>2. f[0] \in Seq(A)
      BY <1>9, <3>1, Zenon
    <3>3. 0 \in 0..L
      BY <1>1
    <3> QED
      BY <3>2, <3>3
  <2>2. ASSUME NEW n \in 1..L, n - 1 \in G
        PROVE  n \in G
    <3>1. seq[n] \in A /\ f[n - 1] \in Seq(A)
      BY <2>2
    <3>2. f[n] \in Seq(A)
      <4>1. KeepIf(f[n - 1], seq[n], S) \in Seq(A)
        BY <3>1, KeepIfIs
      <4> QED
        BY <1>9, <4>1
    <3> QED
      BY <3>2
  <2>3. \A n \in 0..L : n \in G
    <3> HIDE DEF G
    <3> QED
      BY <1>1, <2>1, <2>2, UpTo
  <2> QED
    BY <2>3
<1>11. f = [n \in 0..L |-> f[n]]
  <2>1. Loop(f) = [n \in 0..L |-> Loop(f)[n]]
    OBVIOUS
  <2> HIDE DEF Loop
  <2> QED
    BY <1>8, <2>1
<1>12. f \in [0..L -> Seq(A)]
  <2> HIDE DEF L
  <2> QED
    BY <1>10, <1>11
<1>13. \A n \in 1..L : /\ seq[n] \in S => f[n] = Append(f[n - 1], seq[n])
                       /\ seq[n] \notin S => f[n] = f[n - 1]
  BY <1>9 DEF KeepIf
<1> QED
  BY <1>7, <1>9, <1>12, <1>13

\* The elements of a sequence with one more.
LEMMA ToSetAppend ==
  ASSUME NEW A, NEW s \in Seq(A), NEW x \in A
  PROVE  ToSet(Append(s, x)) = ToSet(s) \cup {x} /\ ToSet(s) \subseteq A
<1>1. PICK n \in Nat : n = Len(s)
  OBVIOUS
<1>0. PICK t \in Seq(A) : t = Append(s, x)
  <2>1. Append(s, x) \in Seq(A)
    OBVIOUS
  <2> QED
    BY <2>1
<1>2. /\ DOMAIN s = 1..n /\ DOMAIN t = 1..(n + 1) /\ t[n + 1] = x
      /\ \A k \in 1..n : t[k] = s[k] /\ s[k] \in A
  BY <1>0, <1>1
<1>3. \A k \in 1..(n + 1) : k \in 1..n \/ k = n + 1
  BY <1>1
<1>4. 1..n \subseteq 1..(n + 1) /\ n + 1 \in 1..(n + 1)
  BY <1>1
<1>5. ToSet(t) = {t[k] : k \in 1..(n + 1)} /\ ToSet(s) = {s[k] : k \in 1..n}
  BY <1>2 DEF ToSet
<1>6. \A y \in ToSet(t) : y \in ToSet(s) \cup {x}
  BY <1>2, <1>3, <1>5
<1>7. \A y \in ToSet(s) \cup {x} : y \in ToSet(t)
  BY <1>2, <1>4, <1>5
<1>8. ToSet(t) = ToSet(s) \cup {x} /\ ToSet(s) \subseteq A
  BY <1>2, <1>5, <1>6, <1>7
<1> QED
  BY <1>0, <1>8

\* What is kept of the first n elements.
KeptOf(seq, S, n, some) ==
  /\ Len(some) <= n
  /\ ToSet(some) = {seq[k] : k \in 1..n} \cap S
  /\ (\A k \in 1..n : seq[k] \in S) => Len(some) = n /\ \A k \in 1..n : some[k] = seq[k]

\* One element more is kept or passed over.
LEMMA KeepsOne ==
  ASSUME NEW A, NEW seq \in Seq(A), NEW S, NEW m \in Nat, m + 1 <= Len(seq), NEW some \in Seq(A),
         KeptOf(seq, S, m, some), NEW more,
         seq[m + 1] \in S => more = Append(some, seq[m + 1]),
         seq[m + 1] \notin S => more = some
  PROVE  KeptOf(seq, S, m + 1, more)
<1>1. PICK x \in A : x = seq[m + 1]
  OBVIOUS
<1>2. PICK l \in Nat : l = Len(some) /\ l <= m
  BY DEF KeptOf
<1>3. {seq[k] : k \in 1..(m + 1)} = {seq[k] : k \in 1..m} \cup {x}
  <2>1. \A k \in 1..(m + 1) : k \in 1..m \/ k = m + 1
    OBVIOUS
  <2>2. 1..m \subseteq 1..(m + 1) /\ m + 1 \in 1..(m + 1)
    OBVIOUS
  <2> QED
    BY <1>1, <2>1, <2>2
<1>4. CASE x \in S
  <2>1. more = Append(some, x)
    BY <1>1, <1>4
  <2>2. ToSet(more) = ToSet(some) \cup {x}
    BY <2>1, ToSetAppend
  <2>3. Len(more) = l + 1 /\ more[l + 1] = x /\ \A k \in 1..l : more[k] = some[k]
    BY <1>2, <2>1
  <2>4. ToSet(more) = {seq[k] : k \in 1..(m + 1)} \cap S
    BY <1>3, <1>4, <2>2 DEF KeptOf
  <2>5. ASSUME \A k \in 1..(m + 1) : seq[k] \in S
        PROVE  Len(more) = m + 1 /\ \A k \in 1..(m + 1) : more[k] = seq[k]
    <3>1. \A k \in 1..m : seq[k] \in S
      BY <2>5
    <3>2. l = m /\ \A k \in 1..m : some[k] = seq[k]
      BY <1>2, <3>1 DEF KeptOf
    <3> QED
      BY <1>1, <2>3, <3>2
  <2> QED
    BY <1>2, <2>3, <2>4, <2>5 DEF KeptOf
<1>5. CASE x \notin S
  <2>1. more = some
    BY <1>1, <1>5
  <2>2. ToSet(more) = {seq[k] : k \in 1..(m + 1)} \cap S
    BY <1>3, <1>5, <2>1 DEF KeptOf
  <2>3. ~(\A k \in 1..(m + 1) : seq[k] \in S)
    BY <1>1, <1>5
  <2> QED
    BY <1>2, <2>1, <2>2, <2>3 DEF KeptOf
<1> QED
  BY <1>4, <1>5

\* [x for x in seq if x in S] are the elements that are in S, and all of seq
\* where all are.
LEMMA OnlyIs ==
  ASSUME NEW A, NEW seq \in Seq(A), NEW S
  PROVE  /\ Only(seq, S) \in Seq(A) /\ Len(Only(seq, S)) \in Nat /\ Len(Only(seq, S)) <= Len(seq)
         /\ ToSet(Only(seq, S)) = ToSet(seq) \cap S
         /\ ToSet(seq) \subseteq S => Only(seq, S) = seq
<1>1. PICK L \in Nat : L = Len(seq) /\ DOMAIN seq = 1..L
  OBVIOUS
<1>2. PICK f \in [0..L -> Seq(A)] : f = Filtering(seq, S)
  BY <1>1, FilteringIs
<1>3. /\ f[0] = <<>>
      /\ \A n \in 1..L : /\ seq[n] \in S => f[n] = Append(f[n - 1], seq[n])
                         /\ seq[n] \notin S => f[n] = f[n - 1]
  <2>1. seq \in Seq(A) /\ f = Filtering(seq, S) /\ L = Len(seq)
    BY <1>1, <1>2
  <2> QED
    BY <2>1, FilteringIs, Zenon
<1> DEFINE G == {n \in 0..L : KeptOf(seq, S, n, f[n])}
<1>4. 0 \in G
  <2>1. ToSet(f[0]) = {} /\ Len(f[0]) = 0
    BY <1>3 DEF ToSet
  <2> QED
    BY <2>1 DEF KeptOf
<1>5. ASSUME NEW n \in 1..L, n - 1 \in G
      PROVE  n \in G
  <2>1. PICK m \in Nat : m = n - 1 /\ m + 1 = n /\ m \in 0..L
    BY <1>5
  <2>2. KeptOf(seq, S, m, f[m]) /\ f[m] \in Seq(A)
    BY <1>2, <1>5, <2>1
  <2>3. /\ seq[m + 1] \in S => f[m + 1] = Append(f[m], seq[m + 1])
        /\ seq[m + 1] \notin S => f[m + 1] = f[m]
    BY <1>3, <2>1
  <2>4. m + 1 <= Len(seq)
    BY <1>1, <2>1
  <2>5. KeptOf(seq, S, m + 1, f[m + 1])
    BY <2>2, <2>3, <2>4, KeepsOne
  <2> QED
    BY <2>1, <2>5
<1>6. L \in G
  <2>1. \A n \in 0..L : n \in G
    <3> HIDE DEF G
    <3> QED
      BY <1>4, <1>5, UpTo
  <2> QED
    BY <2>1
<1>7. KeptOf(seq, S, L, f[L]) /\ f[L] \in Seq(A) /\ Only(seq, S) = f[L]
  BY <1>1, <1>2, <1>6 DEF Only
<1>8. ToSet(seq) = {seq[k] : k \in 1..L}
  BY <1>1 DEF ToSet
<1>9. ASSUME ToSet(seq) \subseteq S
      PROVE  f[L] = seq
  <2>1. \A k \in 1..L : seq[k] \in S
    BY <1>8, <1>9
  <2>2. Len(f[L]) = L /\ \A k \in 1..L : f[L][k] = seq[k]
    BY <1>7, <2>1 DEF KeptOf
  <2> QED
    BY <1>1, <1>7, <2>2, SeqsEqual
<1>10. Len(f[L]) \in Nat /\ Len(f[L]) <= L /\ ToSet(f[L]) = ToSet(seq) \cap S
  BY <1>7, <1>8 DEF KeptOf
<1> QED
  BY <1>1, <1>7, <1>9, <1>10

\* A filter takes a sequence element by element.
LEMMA OnlyAppend ==
  ASSUME NEW A, NEW seq \in Seq(A), NEW x \in A, NEW S
  PROVE  /\ \A n \in 0..Len(seq) : Filtering(Append(seq, x), S)[n] = Filtering(seq, S)[n]
         /\ x \in S => Only(Append(seq, x), S) = Append(Only(seq, S), x)
         /\ x \notin S => Only(Append(seq, x), S) = Only(seq, S)
<1>1. PICK L \in Nat : L = Len(seq)
  OBVIOUS
<1>2. PICK t \in Seq(A) : t = Append(seq, x) /\ Len(t) = L + 1 /\ t[L + 1] = x
                          /\ \A k \in 1..L : t[k] = seq[k]
  <2>1. /\ Append(seq, x) \in Seq(A) /\ Len(Append(seq, x)) = L + 1 /\ Append(seq, x)[L + 1] = x
        /\ \A k \in 1..L : Append(seq, x)[k] = seq[k]
    BY <1>1
  <2> QED
    BY <2>1
<1>3. PICK f : f = Filtering(seq, S)
  OBVIOUS
<1>4. PICK g : g = Filtering(t, S)
  OBVIOUS
<1>5. /\ f[0] = <<>>
      /\ \A n \in 1..L : /\ seq[n] \in S => f[n] = Append(f[n - 1], seq[n])
                         /\ seq[n] \notin S => f[n] = f[n - 1]
  <2>1. /\ Filtering(seq, S)[0] = <<>>
        /\ \A n \in 1..Len(seq) :
             /\ seq[n] \in S => Filtering(seq, S)[n] = Append(Filtering(seq, S)[n - 1], seq[n])
             /\ seq[n] \notin S => Filtering(seq, S)[n] = Filtering(seq, S)[n - 1]
    BY FilteringIs
  <2>2. f = Filtering(seq, S) /\ Len(seq) = L
    BY <1>1, <1>3
  <2> QED
    BY <2>1, <2>2
<1>6. /\ g[0] = <<>>
      /\ \A n \in 1..(L + 1) : /\ t[n] \in S => g[n] = Append(g[n - 1], t[n])
                               /\ t[n] \notin S => g[n] = g[n - 1]
  <2>1. /\ Filtering(t, S)[0] = <<>>
        /\ \A n \in 1..Len(t) :
             /\ t[n] \in S => Filtering(t, S)[n] = Append(Filtering(t, S)[n - 1], t[n])
             /\ t[n] \notin S => Filtering(t, S)[n] = Filtering(t, S)[n - 1]
    BY FilteringIs
  <2>2. g = Filtering(t, S) /\ Len(t) = L + 1
    BY <1>2, <1>4
  <2> QED
    BY <2>1, <2>2
<1> DEFINE G == {n \in 0..L : g[n] = f[n]}
<1>7. 0 \in G
  BY <1>5, <1>6
<1>8. ASSUME NEW n \in 1..L, n - 1 \in G
      PROVE  n \in G
  <2>1. n \in 1..(L + 1) /\ t[n] = seq[n] /\ g[n - 1] = f[n - 1]
    BY <1>2, <1>8
  <2>2. g[n] = f[n]
    BY <1>5, <1>6, <2>1
  <2> QED
    BY <2>2
<1>9. \A n \in 0..L : n \in G
  <2> HIDE DEF G
  <2> QED
    BY <1>7, <1>8, UpTo
<1>10. \A n \in 0..L : g[n] = f[n]
  BY <1>9
<1>11. g[L] = f[L] /\ L + 1 \in 1..(L + 1) /\ L + 1 - 1 = L
  BY <1>10
<1>12. /\ x \in S => g[L + 1] = Append(f[L], x)
       /\ x \notin S => g[L + 1] = f[L]
  BY <1>2, <1>6, <1>11
<1>13. Only(t, S) = g[L + 1] /\ Only(seq, S) = f[L]
  BY <1>1, <1>2, <1>3, <1>4 DEF Only
<1> QED
  BY <1>1, <1>2, <1>3, <1>4, <1>10, <1>12, <1>13

\* A filter takes one candidate behind the others, if there is one.
LEMMA OnlyTail ==
  ASSUME NEW A, NEW s \in Seq(A), NEW x \in A, NEW tail, tail = <<>> \/ tail = <<x>>, NEW S
  PROVE  /\ s \o tail \in Seq(A)
         /\ ToSet(s \o tail) = ToSet(s) \cup {y \in {x} : tail # <<>>}
         /\ x \in S => Only(s \o tail, S) = Only(s, S) \o tail
         /\ x \notin S => Only(s \o tail, S) = Only(s, S)
<1>0. Only(s, S) \in Seq(A)
  BY OnlyIs
<1>1. CASE tail = <<>>
  <2>1. \A t \in Seq(A) : t \o <<>> = t
    OBVIOUS
  <2>2. s \o tail = s /\ Only(s, S) \o tail = Only(s, S)
    BY <1>0, <1>1, <2>1
  <2> QED
    BY <1>1, <2>2
<1>2. CASE tail = <<x>>
  <2>1. \A t \in Seq(A) : t \o <<x>> = Append(t, x) /\ Append(t, x) \in Seq(A)
    OBVIOUS
  <2>2. s \o tail = Append(s, x) /\ Only(s, S) \o tail = Append(Only(s, S), x) /\ s \o tail \in Seq(A)
    BY <1>0, <1>2, <2>1
  <2>3. ToSet(s \o tail) = ToSet(s) \cup {x}
    BY <2>2, ToSetAppend
  <2>4. tail # <<>>
    <3>1. Len(<<x>>) = 1 /\ Len(<<>>) = 0
      OBVIOUS
    <3> QED
      BY <1>2, <3>1
  <2>5. /\ x \in S => Only(Append(s, x), S) = Append(Only(s, S), x)
        /\ x \notin S => Only(Append(s, x), S) = Only(s, S)
    BY OnlyAppend
  <2> QED
    BY <2>2, <2>3, <2>4, <2>5
<1> QED
  BY <1>1, <1>2

FileType == [items : Seq(Kinds), hasEntries : BOOLEAN, card : BOOLEAN]
Key == Nat \cup {Card, Book, Fallback}

\* The entries are positions in the file.
LEMMA EntriesAre ==
  ASSUME NEW f \in FileType
  PROVE  /\ DOMAIN f.items \subseteq Nat
         /\ Entries(f) \in Seq(DOMAIN f.items) /\ Entries(f) \in Seq(Key)
         /\ ToSet(Entries(f)) \subseteq DOMAIN f.items
         /\ SkippedItems(f) \in Nat
<1>1. f.items \in Seq(Kinds)
  BY DEF FileType
<1>2. PICK n \in Nat : n = Len(f.items) /\ DOMAIN f.items = 1..n
  BY <1>1
<1>3. PICK all \in Seq(1..n) : all = [k \in DOMAIN f.items |-> k] /\ Len(all) = n
  <2>1. [k \in 1..n |-> k] \in [1..n -> 1..n]
    OBVIOUS
  <2>2. [k \in 1..n |-> k] \in Seq(1..n) /\ Len([k \in 1..n |-> k]) = n
    BY <1>2, <2>1
  <2> QED
    BY <1>2, <2>2
<1>4. PICK S : Entries(f) = Only(all, S)
  BY <1>3 DEF Entries
<1>5. Entries(f) \in Seq(1..n) /\ Len(Entries(f)) \in Nat /\ Len(Entries(f)) <= n
  BY <1>3, <1>4, OnlyIs
<1>6. SkippedItems(f) \in Nat
  BY <1>2, <1>5 DEF SkippedItems
<1>7. ToSet(Entries(f)) \subseteq 1..n
  BY <1>5 DEF ToSet
<1>8. Entries(f) \in Seq(Key)
  <2>1. 1..n \subseteq Key
    BY DEF Key
  <2> QED
    BY <1>5, <2>1
<1> QED
  BY <1>2, <1>5, <1>6, <1>7, <1>8

\* The candidates are the entries, the card and the book.
LEMMA CandidatesAre ==
  ASSUME NEW f \in FileType
  PROVE  /\ Candidates(f) \in Seq(Key)
         /\ ToSet(Entries(f)) \subseteq ToSet(Candidates(f))
         /\ ToSet(Candidates(f)) \subseteq ToSet(Entries(f)) \cup {Card, Book}
         /\ Only(Candidates(f), CharacterKeys(f)) = Preview(f).characters
         /\ Only(Candidates(f), LocationKeys(f)) = Preview(f).scenes
<1>1. PICK E \in Seq(Key) : E = Entries(f)
  BY EntriesAre
<1>2. PICK C : C = CardCandidate(f)
  OBVIOUS
<1>3. PICK B : B = WholeBookScene(f)
  OBVIOUS
<1>4. /\ C = <<>> \/ C = <<Card>>
      /\ B = <<>> \/ B = <<Book>>
      /\ Card \in Key /\ Book \in Key
  BY <1>2, <1>3 DEF CardCandidate, WholeBookScene, Key
<1>5. PICK Ch : Ch = CharacterKeys(f)
  OBVIOUS
<1>6. PICK Lo : Lo = LocationKeys(f)
  OBVIOUS
<1>7. Card \in Ch /\ Book \in Lo /\ Card \notin Lo /\ Book \notin Ch
  <2>1. DOMAIN f.items \subseteq Nat
    BY EntriesAre
  <2>2. Card \notin Nat /\ Book \notin Nat /\ Card # Book
    BY SyntheticAssumption
  <2> QED
    BY <1>5, <1>6, <2>1, <2>2 DEF CharacterKeys, LocationKeys, ItemsOf
<1>8. PICK EC : EC = E \o C
  OBVIOUS
<1>9. /\ EC \in Seq(Key) /\ ToSet(EC) = ToSet(E) \cup {y \in {Card} : C # <<>>}
      /\ Only(EC, Ch) = Only(E, Ch) \o C /\ Only(EC, Lo) = Only(E, Lo)
  BY <1>4, <1>7, <1>8, OnlyTail
<1>10. PICK all : all = EC \o B
  OBVIOUS
<1>11. /\ all \in Seq(Key) /\ ToSet(all) = ToSet(EC) \cup {y \in {Book} : B # <<>>}
       /\ Only(all, Ch) = Only(EC, Ch) /\ Only(all, Lo) = Only(EC, Lo) \o B
  <2>1. EC \in Seq(Key)
    BY <1>9
  <2>2. EC \o B \in Seq(Key) /\ ToSet(EC \o B) = ToSet(EC) \cup {y \in {Book} : B # <<>>}
    BY <1>4, <2>1, OnlyTail
  <2>3. Only(EC \o B, Ch) = Only(EC, Ch)
    BY <1>4, <1>7, <2>1, OnlyTail
  <2>4. Only(EC \o B, Lo) = Only(EC, Lo) \o B
    <3>1. Book \in Key /\ Book \in Lo /\ (B = <<>> \/ B = <<Book>>)
      BY <1>4, <1>7
    <3> QED
      BY <2>1, <3>1, OnlyTail, SMTT(60)
  <2> QED
    BY <1>10, <2>2, <2>3, <2>4
<1>12. Candidates(f) = all
  BY <1>1, <1>2, <1>3, <1>8, <1>10 DEF Candidates
<1>13. Preview(f).characters = Only(E, Ch) \o C /\ Preview(f).scenes = Only(E, Lo) \o B
  BY <1>1, <1>2, <1>3, <1>5, <1>6 DEF Preview
<1> QED
  BY <1>1, <1>5, <1>6, <1>9, <1>11, <1>12, <1>13

\* A selection keeps only what was selected.
LEMMA SelectedAre ==
  ASSUME NEW f \in FileType, NEW selection
  PROVE  /\ SelectedEntries(f, selection) \in Seq(Key)
         /\ selection # {} => ToSet(SelectedEntries(f, selection)) \subseteq selection
         /\ selection = {} => SelectedEntries(f, selection) = Candidates(f)
<1>1. Candidates(f) \in Seq(Key)
  BY CandidatesAre
<1>2. /\ Only(Candidates(f), selection) \in Seq(Key)
      /\ ToSet(Only(Candidates(f), selection)) = ToSet(Candidates(f)) \cap selection
  BY <1>1, OnlyIs
<1> QED
  BY <1>1, <1>2 DEF SelectedEntries

\* An import works on selected candidates: its characters and scenes are
\* among them, but for the fallback.
LEMMA WantedAre ==
  ASSUME NEW i, i.file \in FileType
  PROVE  /\ Only(SelectedEntries(i.file, i.selection), CharacterKeys(i.file)) \in Seq(Key)
         /\ ToSet(Only(SelectedEntries(i.file, i.selection), CharacterKeys(i.file)))
              \subseteq ToSet(SelectedEntries(i.file, i.selection))
         /\ WantedScenes(i) \in Seq(Key)
         /\ ToSet(WantedScenes(i)) \subseteq ToSet(SelectedEntries(i.file, i.selection)) \cup {Fallback}
<1>1. PICK E \in Seq(Key) : E = SelectedEntries(i.file, i.selection)
  BY SelectedAre
<1>2. /\ \A S : Only(E, S) \in Seq(Key)
      /\ \A S : ToSet(Only(E, S)) \subseteq ToSet(E)
  BY OnlyIs
<1>3. PICK Lo : Lo = LocationKeys(i.file)
  OBVIOUS
<1>4. /\ <<Fallback>> \in Seq(Key) /\ <<>> \in Seq(Key)
      /\ ToSet(<<Fallback>>) = {Fallback} /\ ToSet(<<>>) = {}
  BY DEF Key, ToSet
<1>5. WantedScenes(i) \in {Only(E, Lo), <<Fallback>>, <<>>}
  BY <1>1, <1>3 DEF WantedScenes
<1>6. WantedScenes(i) \in Seq(Key) /\ ToSet(WantedScenes(i)) \subseteq ToSet(E) \cup {Fallback}
  BY <1>2, <1>4, <1>5
<1> QED
  BY <1>1, <1>2, <1>6

\* What is created.
LEMMA ImportedIs ==
  ASSUME NEW i, i.file \in FileType, NEW wanted, NEW scenes, NEW ids, NEW made,
         wanted = Only(SelectedEntries(i.file, i.selection), CharacterKeys(i.file)),
         scenes = WantedScenes(i), ids = BulkCreate(scenes, i.failing),
         made = CreateCharacters(wanted, i.failing)
  PROVE  /\ ids \in Seq(Key) /\ (ids = scenes \/ ids = <<>>)
         /\ made \in Seq(Key) /\ ToSet(made) \subseteq ToSet(wanted)
         /\ i.failing = {} => ids = scenes /\ made = wanted
         /\ Imported(i).characters = made
         /\ Imported(i).scenes = MadeScenes(i, ids, made)
         /\ Imported(i).skipped = SkippedItems(i.file) + SkippedWrites(wanted, made, scenes, ids)
         /\ Len(Imported(i).scenes) = Len(ids) /\ DOMAIN Imported(i).scenes = DOMAIN ids
         /\ DOMAIN ids = 1..Len(ids)
         /\ \A n \in DOMAIN ids : /\ Imported(i).scenes[n].key = ids[n]
                                  /\ Imported(i).scenes[n].pictures = scenes[n]
                                  /\ Imported(i).scenes[n].linked \subseteq ToSet(made)
<1>1. wanted \in Seq(Key) /\ scenes \in Seq(Key)
  BY WantedAre
<1>2. <<>> \in Seq(Key)
  OBVIOUS
<1>3. ids = scenes \/ ids = <<>>
  BY DEF BulkCreate
<1>4. ids \in Seq(Key)
  BY <1>1, <1>2, <1>3
<1>5. made = Only(wanted, ToSet(wanted) \ i.failing)
  BY DEF CreateCharacters
<1>6. /\ made \in Seq(Key) /\ ToSet(made) \subseteq ToSet(wanted)
      /\ i.failing = {} => made = wanted
  BY <1>1, <1>5, OnlyIs
<1>7. i.failing = {} => ids = scenes
  BY DEF BulkCreate
<1>8. /\ Imported(i).characters = made
      /\ Imported(i).scenes = MadeScenes(i, ids, made)
      /\ Imported(i).skipped = SkippedItems(i.file) + SkippedWrites(wanted, made, scenes, ids)
  BY DEF Imported
<1>9. PICK out : out = MadeScenes(i, ids, made)
  OBVIOUS
<1>10. PICK n \in Nat : n = Len(ids) /\ DOMAIN ids = 1..n
  BY <1>4
<1>11. /\ DOMAIN out = 1..n
       /\ \A k \in 1..n : /\ out[k].key = ids[k] /\ out[k].pictures = scenes[k]
                          /\ out[k].linked \subseteq ToSet(made)
  BY <1>9, <1>10 DEF MadeScenes
<1>12. Len(out) = n
  <2>1. \E t : out = [k \in 1..n |-> t[k]]
    <3>1. out = [k \in 1..n |-> out[k]]
      BY <1>9, <1>10, <1>11 DEF MadeScenes
    <3> QED
      BY <3>1
  <2>2. out \in Seq({out[k] : k \in 1..n})
    <3>1. out \in [1..n -> {out[k] : k \in 1..n}]
      BY <1>11, <2>1
    <3> QED
      BY <1>10, <3>1
  <2> QED
    BY <1>10, <1>11, <2>2
<1> QED
  BY <1>3, <1>4, <1>6, <1>7, <1>8, <1>9, <1>10, <1>11, <1>12

\* "import-all delivers exactly what preview promised".
LEMMA ImportAllAlwaysPreview ==
  ASSUME NEW i, i.file \in FileType
  PROVE  ImportAllIsPreview(i)
<1>1. SUFFICES ASSUME i.selection = {}, i.failing = {}, Readable(i.file),
                      NEW keys, keys = [n \in DOMAIN Imported(i).scenes |-> Imported(i).scenes[n].key]
               PROVE  /\ Imported(i).characters = Preview(i.file).characters
                      /\ keys = IF Preview(i.file).scenes = <<>> /\ i.link /\ Entries(i.file) # <<>>
                                THEN <<Fallback>> ELSE Preview(i.file).scenes
  BY DEF ImportAllIsPreview
<1>2. PICK E \in Seq(Key) : E = SelectedEntries(i.file, i.selection) /\ E = Candidates(i.file)
  BY <1>1, SelectedAre
<1>3. PICK wanted : wanted = Only(E, CharacterKeys(i.file))
  OBVIOUS
<1>4. PICK scenes \in Seq(Key) : scenes = WantedScenes(i)
  BY WantedAre
<1>5. PICK ids : ids = BulkCreate(scenes, i.failing)
  OBVIOUS
<1>6. PICK made : made = CreateCharacters(wanted, i.failing)
  OBVIOUS
<1>7. /\ ids \in Seq(Key) /\ DOMAIN Imported(i).scenes = DOMAIN ids
      /\ ids = scenes /\ made = wanted
      /\ Imported(i).characters = made
      /\ \A n \in DOMAIN ids : Imported(i).scenes[n].key = ids[n]
  <2>1. wanted = Only(SelectedEntries(i.file, i.selection), CharacterKeys(i.file))
    BY <1>2, <1>3
  <2>2. /\ ids \in Seq(Key) /\ DOMAIN Imported(i).scenes = DOMAIN ids
        /\ i.failing = {} => ids = scenes /\ made = wanted
        /\ Imported(i).characters = made
        /\ \A n \in DOMAIN ids : Imported(i).scenes[n].key = ids[n]
    BY <1>4, <1>5, <1>6, <2>1, ImportedIs
  <2> QED
    BY <1>1, <2>2
<1>8. Imported(i).characters = Preview(i.file).characters
  BY <1>2, <1>3, <1>7, CandidatesAre
<1>9. keys = scenes
  <2>1. keys = [n \in DOMAIN ids |-> ids[n]]
    BY <1>1, <1>7
  <2>2. ids = [n \in DOMAIN ids |-> ids[n]]
    BY <1>7
  <2> QED
    BY <1>7, <2>1, <2>2
<1>10. PICK L : L = Preview(i.file).scenes /\ L = Only(E, LocationKeys(i.file))
  BY <1>2, CandidatesAre
<1>11. (\E k \in ToSet(E) : k \notin {Card, Book}) <=> Entries(i.file) # <<>>
  <2>1. PICK es \in Seq(Key) : es = Entries(i.file)
    BY EntriesAre
  <2>2. ToSet(es) \subseteq ToSet(E) /\ ToSet(E) \subseteq ToSet(es) \cup {Card, Book}
    BY <1>2, <2>1, CandidatesAre
  <2>3. \A k \in ToSet(es) : k \notin {Card, Book}
    <3>1. ToSet(es) \subseteq DOMAIN i.file.items /\ DOMAIN i.file.items \subseteq Nat
      BY <2>1, EntriesAre
    <3> QED
      BY <3>1, SyntheticAssumption
  <2>4. (\E k : k \in ToSet(es)) <=> es # <<>>
    <3>1. PICK n \in Nat : n = Len(es) /\ DOMAIN es = 1..n
      BY <2>1
    <3>2. n = 0 <=> es = <<>>
      BY <2>1, <3>1
    <3>3. n # 0 => es[1] \in ToSet(es)
      BY <3>1 DEF ToSet
    <3>4. n = 0 => ToSet(es) = {}
      BY <3>1 DEF ToSet
    <3> QED
      BY <3>2, <3>3, <3>4
  <2> QED
    BY <2>1, <2>2, <2>3, <2>4
<1>12. scenes = IF L # <<>> \/ ~i.link THEN L
                ELSE IF \E k \in ToSet(E) : k \notin {Card, Book} THEN <<Fallback>> ELSE <<>>
  BY <1>2, <1>4, <1>10 DEF WantedScenes
<1>13. scenes = IF L = <<>> /\ i.link /\ Entries(i.file) # <<>> THEN <<Fallback>> ELSE L
  BY <1>11, <1>12
<1> QED
  BY <1>8, <1>9, <1>10, <1>13

\* Nothing comes that was not selected.
LEMMA OnlySelectedAlways ==
  ASSUME NEW i, i.file \in FileType
  PROVE  OnlySelected(i)
<1>1. SUFFICES ASSUME i.selection # {}
               PROVE  /\ ToSet(Imported(i).characters) \subseteq i.selection
                      /\ \A n \in DOMAIN Imported(i).scenes :
                           Imported(i).scenes[n].key \in i.selection \cup {Fallback}
                      /\ ToSet(Appended(i)) \subseteq i.selection
  BY DEF OnlySelected
<1>2. PICK E \in Seq(Key) : E = SelectedEntries(i.file, i.selection) /\ ToSet(E) \subseteq i.selection
  BY <1>1, SelectedAre
<1>3. PICK wanted : wanted = Only(E, CharacterKeys(i.file))
  OBVIOUS
<1>4. PICK scenes : scenes = WantedScenes(i)
  OBVIOUS
<1>5. PICK ids : ids = BulkCreate(scenes, i.failing)
  OBVIOUS
<1>6. PICK made : made = CreateCharacters(wanted, i.failing)
  OBVIOUS
<1>7. /\ ids \in Seq(Key) /\ DOMAIN Imported(i).scenes = DOMAIN ids
      /\ ids = scenes \/ ids = <<>>
      /\ ToSet(made) \subseteq ToSet(wanted)
      /\ Imported(i).characters = made
      /\ \A n \in DOMAIN ids : Imported(i).scenes[n].key = ids[n]
  BY <1>2, <1>3, <1>4, <1>5, <1>6, ImportedIs
<1>8. ToSet(wanted) \subseteq ToSet(E) /\ ToSet(scenes) \subseteq ToSet(E) \cup {Fallback}
  BY <1>2, <1>3, <1>4, WantedAre
<1>9. \A n \in DOMAIN ids : ids[n] \in ToSet(scenes)
  <2>1. DOMAIN <<>> = {}
    OBVIOUS
  <2> QED
    BY <1>7, <2>1 DEF ToSet
<1>10. ToSet(Appended(i)) \subseteq ToSet(E)
  BY <1>2, OnlyIs DEF Appended
<1> QED
  BY <1>2, <1>7, <1>8, <1>9, <1>10

\* Every candidate is made or skipped.
LEMMA NothingEverUnaccounted ==
  ASSUME NEW i, i.file \in FileType
  PROVE  NothingUnaccounted(i)
<1>1. PICK wanted \in Seq(Key) : wanted = Only(SelectedEntries(i.file, i.selection), CharacterKeys(i.file))
  BY WantedAre
<1>2. PICK scenes \in Seq(Key) : scenes = WantedScenes(i)
  BY WantedAre
<1>3. PICK ids : ids = BulkCreate(scenes, i.failing)
  OBVIOUS
<1>4. PICK made : made = CreateCharacters(wanted, i.failing)
  OBVIOUS
<1>5. /\ ids \in Seq(Key) /\ made \in Seq(Key) /\ Imported(i).characters = made
      /\ Len(Imported(i).scenes) = Len(ids)
      /\ Imported(i).skipped = SkippedItems(i.file) + SkippedWrites(wanted, made, scenes, ids)
  BY <1>1, <1>2, <1>3, <1>4, ImportedIs
<1>6. PICK w \in Nat : w = Len(wanted)
  BY <1>1
<1>7. PICK s \in Nat : s = Len(scenes)
  BY <1>2
<1>8. PICK m \in Nat : m = Len(made)
  BY <1>5
<1>9. PICK d \in Nat : d = Len(ids)
  BY <1>5
<1>10. PICK j \in Nat : j = SkippedItems(i.file)
  BY EntriesAre
<1>11. Imported(i).skipped = j + ((w - m) + (s - d))
  BY <1>5, <1>6, <1>7, <1>8, <1>9, <1>10 DEF SkippedWrites
<1>12. m + d + (j + ((w - m) + (s - d))) = j + w + s
  OBVIOUS
<1>13. Len(Imported(i).characters) + Len(Imported(i).scenes) + Imported(i).skipped
         = SkippedItems(i.file) + Len(wanted) + Len(scenes)
  BY <1>5, <1>6, <1>7, <1>8, <1>9, <1>10, <1>11, <1>12
<1> QED
  BY <1>1, <1>2, <1>13 DEF NothingUnaccounted

\* Pictures and links are the scene's own.
LEMMA ScenesAlwaysTheirOwn ==
  ASSUME NEW i, i.file \in FileType
  PROVE  ScenesAreTheirOwn(i)
<1>1. PICK wanted : wanted = Only(SelectedEntries(i.file, i.selection), CharacterKeys(i.file))
  OBVIOUS
<1>2. PICK scenes : scenes = WantedScenes(i)
  OBVIOUS
<1>3. PICK ids : ids = BulkCreate(scenes, i.failing)
  OBVIOUS
<1>4. PICK made : made = CreateCharacters(wanted, i.failing)
  OBVIOUS
<1>5. /\ DOMAIN Imported(i).scenes = DOMAIN ids /\ Imported(i).characters = made
      /\ ids = scenes \/ ids = <<>>
      /\ \A n \in DOMAIN ids : /\ Imported(i).scenes[n].key = ids[n]
                               /\ Imported(i).scenes[n].pictures = scenes[n]
                               /\ Imported(i).scenes[n].linked \subseteq ToSet(made)
  BY <1>1, <1>2, <1>3, <1>4, ImportedIs
<1>6. DOMAIN <<>> = {}
  OBVIOUS
<1> QED
  BY <1>5, <1>6 DEF ScenesAreTheirOwn

-----------------------------------------------------------------------------
(* The files of the instance.                                              *)

ImportInv ==
  part = "import" => /\ input.chosen \in BOOLEAN /\ input.file \in FileType
                     /\ ~input.chosen => input = [chosen |-> FALSE, file |-> input.file]

\* The first file is empty.
LEMMA ImportInvInit == RecordsInit => ImportInv
<1>1. SUFFICES ASSUME RecordsInit, part = "import"
               PROVE  /\ input.chosen \in BOOLEAN /\ input.file \in FileType
                      /\ ~input.chosen => input = [chosen |-> FALSE, file |-> input.file]
  BY DEF ImportInv
<1>2. PICK card \in BOOLEAN : input = EmptyFile(card)
  BY <1>1 DEF RecordsInit
<1>3. PICK f : f = [items |-> <<>>, hasEntries |-> ~card, card |-> card]
  OBVIOUS
<1>4. input = [chosen |-> FALSE, file |-> f]
  BY <1>2, <1>3 DEF EmptyFile
<1>5. f \in FileType
  <2>1. <<>> \in Seq(Kinds)
    OBVIOUS
  <2> QED
    BY <1>3, <2>1 DEF FileType
<1> QED
  BY <1>4, <1>5

\* An entry more.
LEMMA EntryComes ==
  ASSUME NEW f \in FileType, NEW kind \in Kinds, NEW i, i = [chosen |-> FALSE, file |-> f],
         NEW more, more = [i EXCEPT !.file.items = Append(@, kind), !.file.hasEntries = TRUE]
  PROVE  more = [chosen |-> FALSE, file |-> more.file] /\ more.file \in FileType
<1>1. PICK items \in Seq(Kinds), card \in BOOLEAN :
        items = f.items /\ card = f.card /\ DOMAIN f = {"items", "hasEntries", "card"}
  BY DEF FileType
<1>2. PICK file : file = [items |-> Append(items, kind), hasEntries |-> TRUE, card |-> card]
  OBVIOUS
<1>3. file \in FileType
  <2>1. Append(items, kind) \in Seq(Kinds)
    OBVIOUS
  <2> QED
    BY <1>2, <2>1 DEF FileType
<1>4. more.file = [[f EXCEPT !.items = Append(f.items, kind)] EXCEPT !.hasEntries = TRUE]
  OBVIOUS
<1>5. more.file = file
  BY <1>1, <1>2, <1>4 DEF FileType
<1>6. more = [chosen |-> FALSE, file |-> more.file]
  OBVIOUS
<1> QED
  BY <1>3, <1>5, <1>6

\* Each step adds an entry or chooses.
LEMMA ImportInvNext == ImportInv /\ [RecordsNext]_allVars => ImportInv'
<1>1. SUFFICES ASSUME ImportInv, [RecordsNext]_allVars, part' = "import"
               PROVE  /\ input'.chosen \in BOOLEAN /\ input'.file \in FileType
                      /\ ~input'.chosen => input' = [chosen |-> FALSE, file |-> input'.file]
  BY DEF ImportInv
<1>2. CASE UNCHANGED parts
  BY <1>1, <1>2 DEF ImportInv, parts
<1>3. CASE part = "import" /\ ~input.chosen /\ AnImport
  <2>1. PICK selection, link, fails, unattached : Choose1(selection, link, fails, unattached)
    BY <1>3 DEF AnImport
  <2>2. input'.chosen = TRUE /\ input'.file = input.file
    BY <2>1 DEF Choose1
  <2> QED
    BY <1>1, <1>3, <2>2 DEF ImportInv
<1>4. CASE part = "import" /\ ~input.chosen /\ \E kind \in Kinds : AddEntry(kind)
  <2>1. PICK kind \in Kinds : AddEntry(kind)
    BY <1>4
  <2>2. PICK f \in FileType : input = [chosen |-> FALSE, file |-> f]
    BY <1>1, <1>4 DEF ImportInv
  <2>3. input' = [input EXCEPT !.file.items = Append(@, kind), !.file.hasEntries = TRUE]
    BY <2>1 DEF AddEntry
  <2>4. input' = [chosen |-> FALSE, file |-> input'.file] /\ input'.file \in FileType
    BY <2>2, <2>3, EntryComes
  <2>5. input'.chosen = FALSE
    BY <2>4
  <2> QED
    BY <2>4, <2>5
<1>5. part' = part \/ UNCHANGED parts
  BY <1>1 DEF RecordsNext, InputNext, AnImport, AddEntry, Choose1, ASearch, AskFor, AddRow,
              AnError, Raise, parts, allVars
<1> QED
  BY <1>1, <1>2, <1>3, <1>4, <1>5 DEF RecordsNext, InputNext, parts, allVars

\* The user gets what was shown and ticked, and nothing else
\* (ImportService._selected_entries).
THEOREM PreviewAlwaysKept == RecordsSpec => []PreviewIsKept
<1>1. ImportInv => PreviewIsKept
  BY ImportAllAlwaysPreview, OnlySelectedAlways
     DEF ImportInv, PreviewIsKept, Chosen, ImportKeepsPreview
<1> QED
  BY <1>1, ImportInvInit, ImportInvNext, PTL DEF RecordsSpec

LinesOf(f) == [lines : Seq(ItemsOf(f, Lore)), total : Nat, full : BOOLEAN]

\* A lore entry has a line.
LEMMA LineIs ==
  ASSUME NEW f \in FileType, NEW k \in ItemsOf(f, Lore)
  PROVE  Length[f.items[k]] \in Nat
BY LengthAssumption DEF ItemsOf, Lore

\* The body of the loop keeps the type of what it has.
LEMMA AddLineIs ==
  ASSUME NEW f \in FileType, NEW acc \in LinesOf(f), NEW k
  PROVE  AddLine(acc, f, k) \in LinesOf(f)
<1>1. PICK lines \in Seq(ItemsOf(f, Lore)), total \in Nat, full \in BOOLEAN :
        acc = [lines |-> lines, total |-> total, full |-> full]
  BY DEF LinesOf
<1>2. CASE full \/ k \notin ItemsOf(f, Lore)
  <2>1. AddLine(acc, f, k) = acc
    BY <1>1, <1>2 DEF AddLine
  <2> QED
    BY <2>1
<1>3. CASE ~full /\ k \in ItemsOf(f, Lore)
  <2>1. PICK m \in Nat : m = Length[f.items[k]]
    BY <1>3, LineIs
  <2>2. CASE total + m > MaxContext
    <3>1. AddLine(acc, f, k) = [lines |-> lines, total |-> total, full |-> TRUE]
      BY <1>1, <1>3, <2>1, <2>2 DEF AddLine
    <3> QED
      BY <3>1 DEF LinesOf
  <2>3. CASE ~(total + m > MaxContext)
    <3>1. AddLine(acc, f, k) = [lines |-> Append(lines, k), total |-> total + m, full |-> full]
      BY <1>1, <1>3, <2>1, <2>3 DEF AddLine
    <3>2. Append(lines, k) \in Seq(ItemsOf(f, Lore)) /\ total + m \in Nat
      BY <1>3, <2>1
    <3> QED
      BY <3>1, <3>2 DEF LinesOf
  <2> QED
    BY <2>2, <2>3
<1> QED
  BY <1>2, <1>3

\* AddingLines is the loop it is written as.
LEMMA AddingLinesIs ==
  ASSUME NEW f \in FileType, NEW entries \in Seq(Key)
  PROVE  /\ AddingLines(f, entries) \in [0..Len(entries) -> LinesOf(f)]
         /\ AddingLines(f, entries)[0] = NoLines
         /\ \A n \in 1..Len(entries) :
              AddingLines(f, entries)[n] = AddLine(AddingLines(f, entries)[n - 1], f, entries[n])
<1> DEFINE L == Len(entries)
           A == LinesOf(f)
           F == [n \in 1..L |-> [x \in A |-> AddLine(x, f, entries[n])]]
           Loop(g) == [n \in 0..L |-> IF n = 0 THEN NoLines ELSE AddLine(g[n - 1], f, entries[n])]
<1>1. L \in Nat
  OBVIOUS
<1>2. ASSUME NEW n \in 1..L, NEW x \in A
      PROVE  F[n][x] = AddLine(x, f, entries[n]) /\ F[n][x] \in A
  <2>1. AddLine(x, f, entries[n]) \in A
    BY AddLineIs
  <2>2. F[n][x] = AddLine(x, f, entries[n])
    OBVIOUS
  <2> QED
    BY <2>1, <2>2
<1>0. NoLines \in A
  <2>1. <<>> \in Seq(ItemsOf(f, Lore)) /\ 0 \in Nat
    OBVIOUS
  <2> QED
    BY <2>1 DEF NoLines, LinesOf
<1>3. PICK g \in [0..L -> A] : g[0] = NoLines /\ \A n \in 1..L : g[n] = F[n][g[n - 1]]
  <2> HIDE DEF F, L, A
  <2>1. IsLoop(A, NoLines, L, F)
    BY <1>0, <1>1, <1>2 DEF IsLoop
  <2>2. PICK g : IsRun(g, A, NoLines, L, F)
    BY <2>1, LoopExists
  <2> QED
    BY <2>2 DEF IsRun
<1>4. ASSUME NEW n \in 1..L
      PROVE  g[n] = AddLine(g[n - 1], f, entries[n])
  <2>1. n - 1 \in 0..L
    BY <1>1
  <2>2. g[n - 1] \in A
    BY <1>3, <2>1
  <2> HIDE DEF F, A
  <2> QED
    BY <1>2, <1>3, <2>2
<1>5. g = Loop(g)
  <2>1. \A n \in 0..L : g[n] = IF n = 0 THEN NoLines ELSE AddLine(g[n - 1], f, entries[n])
    BY <1>1, <1>3, <1>4
  <2> QED
    BY <1>3, <2>1, Zenon
<1>6. AddingLines(f, entries) = CHOOSE acc : acc = Loop(acc)
  BY DEF AddingLines
<1>7. PICK r : r = AddingLines(f, entries)
  OBVIOUS
<1>8. r = Loop(r)
  <2> HIDE DEF Loop
  <2> QED
    BY <1>5, <1>6, <1>7
<1>9. r[0] = NoLines /\ \A n \in 1..L : r[n] = AddLine(r[n - 1], f, entries[n])
  BY <1>1, <1>8
<1>10. \A n \in 0..L : r[n] \in A
  <2> DEFINE G == {n \in 0..L : r[n] \in A}
  <2>1. 0 \in G
    <3> HIDE DEF A
    <3> QED
      BY <1>0, <1>1, <1>9
  <2>2. ASSUME NEW n \in 1..L, n - 1 \in G
        PROVE  n \in G
    <3>1. r[n - 1] \in A
      BY <2>2
    <3>2. r[n] \in A
      BY <1>9, <3>1, AddLineIs
    <3> QED
      BY <3>2
  <2>3. \A n \in 0..L : n \in G
    <3> HIDE DEF G
    <3> QED
      BY <1>1, <2>1, <2>2, UpTo
  <2> QED
    BY <2>3
<1>11. r = [n \in 0..L |-> r[n]]
  <2>1. Loop(r) = [n \in 0..L |-> Loop(r)[n]]
    OBVIOUS
  <2> HIDE DEF Loop
  <2> QED
    BY <1>8, <2>1
<1>12. r \in [0..L -> A]
  <2> HIDE DEF L, A
  <2> QED
    BY <1>10, <1>11
<1> QED
  BY <1>7, <1>9, <1>12

\* LengthUpTo is the sum it is written as.
LEMMA LengthsAre ==
  ASSUME NEW f \in FileType, NEW lines \in Seq(ItemsOf(f, Lore))
  PROVE  /\ LengthUpTo(f, lines) \in [0..Len(lines) -> Nat]
         /\ LengthUpTo(f, lines)[0] = 0
         /\ \A n \in 1..Len(lines) :
              LengthUpTo(f, lines)[n] = LengthUpTo(f, lines)[n - 1] + Length[f.items[lines[n]]]
<1> DEFINE L == Len(lines)
           F == [n \in 1..L |-> [x \in Nat |-> x + Length[f.items[lines[n]]]]]
           Loop(g) == [n \in 0..L |-> IF n = 0 THEN 0 ELSE g[n - 1] + Length[f.items[lines[n]]]]
<1>1. L \in Nat
  OBVIOUS
<1>2. ASSUME NEW n \in 1..L, NEW x \in Nat
      PROVE  F[n][x] = x + Length[f.items[lines[n]]] /\ F[n][x] \in Nat
  <2>1. Length[f.items[lines[n]]] \in Nat
    BY LineIs
  <2>2. F[n][x] = x + Length[f.items[lines[n]]]
    OBVIOUS
  <2> QED
    BY <2>1, <2>2
<1>3. PICK g \in [0..L -> Nat] : g[0] = 0 /\ \A n \in 1..L : g[n] = F[n][g[n - 1]]
  <2> HIDE DEF F, L
  <2>1. IsLoop(Nat, 0, L, F)
    BY <1>1, <1>2 DEF IsLoop
  <2>2. PICK g : IsRun(g, Nat, 0, L, F)
    BY <2>1, LoopExists
  <2> QED
    BY <2>2 DEF IsRun
<1>4. ASSUME NEW n \in 1..L
      PROVE  g[n] = g[n - 1] + Length[f.items[lines[n]]]
  <2>1. n - 1 \in 0..L
    BY <1>1
  <2>2. g[n - 1] \in Nat
    BY <1>3, <2>1
  <2> HIDE DEF F
  <2> QED
    BY <1>2, <1>3, <2>2
<1>5. g = Loop(g)
  <2>1. \A n \in 0..L : g[n] = IF n = 0 THEN 0 ELSE g[n - 1] + Length[f.items[lines[n]]]
    BY <1>1, <1>3, <1>4
  <2> QED
    BY <1>3, <2>1, Zenon
<1>6. LengthUpTo(f, lines) = CHOOSE sum : sum = Loop(sum)
  BY DEF LengthUpTo
<1>7. PICK r : r = LengthUpTo(f, lines)
  OBVIOUS
<1>8. r = Loop(r)
  <2> HIDE DEF Loop
  <2> QED
    BY <1>5, <1>6, <1>7
<1>9. r[0] = 0 /\ \A n \in 1..L : r[n] = r[n - 1] + Length[f.items[lines[n]]]
  BY <1>1, <1>8
<1>10. \A n \in 0..L : r[n] \in Nat
  <2> DEFINE G == {n \in 0..L : r[n] \in Nat}
  <2>1. 0 \in G
    BY <1>1, <1>9
  <2>2. ASSUME NEW n \in 1..L, n - 1 \in G
        PROVE  n \in G
    <3>1. r[n - 1] \in Nat /\ Length[f.items[lines[n]]] \in Nat
      BY <2>2, LineIs
    <3>2. r[n] \in Nat
      BY <1>9, <3>1
    <3> QED
      BY <3>2
  <2>3. \A n \in 0..L : n \in G
    <3> HIDE DEF G
    <3> QED
      BY <1>1, <2>1, <2>2, UpTo
  <2> QED
    BY <2>3
<1>11. r = [n \in 0..L |-> r[n]]
  <2>1. Loop(r) = [n \in 0..L |-> Loop(r)[n]]
    OBVIOUS
  <2> HIDE DEF Loop
  <2> QED
    BY <1>8, <2>1
<1>12. r \in [0..L -> Nat]
  <2> HIDE DEF L
  <2> QED
    BY <1>10, <1>11
<1> QED
  BY <1>7, <1>9, <1>12

\* The first lines are as long as they were before another came.
LEMMA LengthsStay ==
  ASSUME NEW f \in FileType, NEW lines \in Seq(ItemsOf(f, Lore)), NEW k \in ItemsOf(f, Lore)
  PROVE  /\ \A n \in 0..Len(lines) : LengthUpTo(f, Append(lines, k))[n] = LengthUpTo(f, lines)[n]
         /\ LengthUpTo(f, Append(lines, k))[Len(lines) + 1]
              = LengthUpTo(f, lines)[Len(lines)] + Length[f.items[k]]
<1>1. PICK L \in Nat : L = Len(lines)
  OBVIOUS
<1>2. PICK t \in Seq(ItemsOf(f, Lore)) : /\ t = Append(lines, k) /\ Len(t) = L + 1 /\ t[L + 1] = k
                                         /\ \A n \in 1..L : t[n] = lines[n]
  <2>1. /\ Append(lines, k) \in Seq(ItemsOf(f, Lore)) /\ Len(Append(lines, k)) = L + 1
        /\ Append(lines, k)[L + 1] = k
        /\ \A n \in 1..L : Append(lines, k)[n] = lines[n]
    BY <1>1
  <2> QED
    BY <2>1
<1>3. PICK a : a = LengthUpTo(f, lines)
  OBVIOUS
<1>4. PICK b : b = LengthUpTo(f, t)
  OBVIOUS
<1>5. a[0] = 0 /\ \A n \in 1..L : a[n] = a[n - 1] + Length[f.items[lines[n]]]
  BY <1>1, <1>3, LengthsAre
<1>6. b[0] = 0 /\ \A n \in 1..(L + 1) : b[n] = b[n - 1] + Length[f.items[t[n]]]
  BY <1>2, <1>4, LengthsAre
<1> DEFINE G == {n \in 0..L : b[n] = a[n]}
<1>7. 0 \in G
  BY <1>5, <1>6
<1>8. ASSUME NEW n \in 1..L, n - 1 \in G
      PROVE  n \in G
  <2>1. n \in 1..(L + 1) /\ t[n] = lines[n] /\ b[n - 1] = a[n - 1]
    BY <1>2, <1>8
  <2>2. b[n] = a[n]
    BY <1>5, <1>6, <2>1
  <2> QED
    BY <2>2
<1>9. \A n \in 0..L : n \in G
  <2> HIDE DEF G
  <2> QED
    BY <1>7, <1>8, UpTo
<1>10. \A n \in 0..L : b[n] = a[n]
  BY <1>9
<1>11. b[L + 1] = a[L] + Length[f.items[k]]
  <2>1. L + 1 \in 1..(L + 1) /\ L + 1 - 1 = L /\ L \in 0..L
    OBVIOUS
  <2> QED
    BY <1>2, <1>6, <1>10, <2>1
<1> QED
  BY <1>1, <1>2, <1>3, <1>4, <1>10, <1>11

\* The beginning of a sequence is that of a longer one.
LEMMA FirstOnes ==
  ASSUME NEW S, NEW s \in Seq(S), NEW x \in S
  PROVE  /\ SubSeq(s, 1, Len(s)) = s
         /\ \A n \in 0..Len(s) : SubSeq(Append(s, x), 1, n) = SubSeq(s, 1, n)
<1>1. PICK L \in Nat : L = Len(s)
  OBVIOUS
<1>2. Append(s, x) \in Seq(S) /\ Len(Append(s, x)) = L + 1 /\ \A k \in 1..L : Append(s, x)[k] = s[k]
  BY <1>1
<1>3. ASSUME NEW n \in 0..L, NEW t \in Seq(S), Len(t) >= n
      PROVE  /\ SubSeq(t, 1, n) \in Seq(S) /\ Len(SubSeq(t, 1, n)) = n
             /\ \A k \in 1..n : SubSeq(t, 1, n)[k] = t[k]
  BY <1>3
<1>4. SubSeq(s, 1, L) = s
  <2>1. /\ SubSeq(s, 1, L) \in Seq(S) /\ Len(SubSeq(s, 1, L)) = L
        /\ \A k \in 1..L : SubSeq(s, 1, L)[k] = s[k]
    BY <1>1, <1>3
  <2> QED
    BY <1>1, <2>1, SeqsEqual
<1>5. ASSUME NEW n \in 0..L
      PROVE  SubSeq(Append(s, x), 1, n) = SubSeq(s, 1, n)
  <2>1. PICK a \in Seq(S) : a = SubSeq(s, 1, n) /\ Len(a) = n /\ \A k \in 1..n : a[k] = s[k]
    <3>1. s \in Seq(S) /\ Len(s) >= n
      BY <1>1
    <3>2. /\ SubSeq(s, 1, n) \in Seq(S) /\ Len(SubSeq(s, 1, n)) = n
          /\ \A k \in 1..n : SubSeq(s, 1, n)[k] = s[k]
      BY <1>3, <3>1
    <3> QED
      BY <3>2
  <2>2. PICK b \in Seq(S) : /\ b = SubSeq(Append(s, x), 1, n) /\ Len(b) = n
                            /\ \A k \in 1..n : b[k] = Append(s, x)[k]
    <3>1. PICK t \in Seq(S) : t = Append(s, x) /\ Len(t) >= n
      <4>1. Append(s, x) \in Seq(S) /\ Len(Append(s, x)) >= n
        BY <1>2
      <4> QED
        BY <4>1
    <3>2. /\ SubSeq(t, 1, n) \in Seq(S) /\ Len(SubSeq(t, 1, n)) = n
          /\ \A k \in 1..n : SubSeq(t, 1, n)[k] = t[k]
      BY <1>3, <3>1
    <3> QED
      BY <3>1, <3>2
  <2>3. \A k \in 1..n : a[k] = b[k]
    BY <1>2, <2>1, <2>2
  <2>4. a = b
    BY <2>1, <2>2, <2>3, SeqsEqual
  <2> QED
    BY <2>1, <2>2, <2>4
<1> QED
  BY <1>1, <1>4, <1>5

\* The lines are the first n of the lore so far, and the next was too long.
Begins(f, lore, acc, n) ==
  /\ acc.lines = SubSeq(lore, 1, n)
  /\ acc.total = LengthUpTo(f, lore)[n] /\ acc.total <= MaxContext
  /\ acc.full => n < Len(lore) /\ LengthUpTo(f, lore)[n + 1] > MaxContext
  /\ ~acc.full => n = Len(lore)

\* Lore adds its line, if it fits.
LEMMA LoreComes ==
  ASSUME NEW f \in FileType, NEW lore \in Seq(ItemsOf(f, Lore)), NEW acc \in LinesOf(f),
         NEW n \in 0..Len(lore), Begins(f, lore, acc, n), NEW k \in ItemsOf(f, Lore)
  PROVE  \E m \in 0..Len(Append(lore, k)) : Begins(f, Append(lore, k), AddLine(acc, f, k), m)
<1>1. PICK lines \in Seq(ItemsOf(f, Lore)), total \in Nat, full \in BOOLEAN :
        acc = [lines |-> lines, total |-> total, full |-> full]
  BY DEF LinesOf
<1>2. PICK L \in Nat : L = Len(lore)
  OBVIOUS
<1>3. PICK t \in Seq(ItemsOf(f, Lore)) : t = Append(lore, k) /\ Len(t) = L + 1
  <2>1. Append(lore, k) \in Seq(ItemsOf(f, Lore)) /\ Len(Append(lore, k)) = L + 1
    BY <1>2
  <2> QED
    BY <2>1
<1>4. PICK w \in Nat : w = Length[f.items[k]]
  BY LineIs
<1>5. PICK sums : sums = LengthUpTo(f, lore) /\ \A x \in 0..L : sums[x] \in Nat
  BY <1>2, LengthsAre
<1>6. PICK more : /\ more = LengthUpTo(f, t) /\ \A x \in 0..L : more[x] = sums[x]
                  /\ more[L + 1] = sums[L] + w
  BY <1>2, <1>3, <1>4, <1>5, LengthsStay
<1>7. MaxContext \in Nat
  BY LengthAssumption
<1>8. /\ lines = SubSeq(lore, 1, n) /\ total = sums[n] /\ total <= MaxContext
      /\ full => n < L /\ sums[n + 1] > MaxContext
      /\ ~full => n = L
  BY <1>1, <1>2, <1>5 DEF Begins
<1>9. SubSeq(t, 1, n) = SubSeq(lore, 1, n) /\ SubSeq(lore, 1, L) = lore /\ SubSeq(t, 1, L + 1) = t
  BY <1>2, <1>3, FirstOnes
<1>10. n \in 0..L /\ n \in 0..(L + 1) /\ L + 1 \in 0..(L + 1)
  BY <1>2
<1>11. CASE full
  <2>1. AddLine(acc, f, k) = acc
    BY <1>1, <1>11 DEF AddLine
  <2>2. n < L + 1 /\ n + 1 \in 0..L /\ more[n + 1] > MaxContext
    BY <1>6, <1>8, <1>10, <1>11
  <2>3. Begins(f, t, acc, n)
    BY <1>1, <1>3, <1>6, <1>8, <1>9, <1>10, <1>11, <2>2 DEF Begins
  <2> QED
    BY <1>3, <1>10, <2>1, <2>3
<1>12. CASE ~full /\ total + w > MaxContext
  <2>1. PICK next : next = AddLine(acc, f, k)
    OBVIOUS
  <2>2. next.lines = lines /\ next.total = total /\ next.full = TRUE
    <3>1. next = [acc EXCEPT !.full = TRUE]
      BY <1>1, <1>4, <1>12, <2>1 DEF AddLine
    <3> QED
      BY <1>1, <3>1
  <2>3. n = L /\ more[n + 1] = total + w
    BY <1>6, <1>8, <1>12
  <2>4. Begins(f, t, next, n)
    BY <1>3, <1>6, <1>8, <1>9, <1>10, <1>12, <2>2, <2>3 DEF Begins
  <2> QED
    BY <1>3, <1>10, <2>1, <2>4
<1>13. CASE ~full /\ ~(total + w > MaxContext)
  <2>1. PICK next : next = AddLine(acc, f, k)
    OBVIOUS
  <2>2. next.lines = Append(lines, k) /\ next.total = total + w /\ next.full = FALSE
    <3>1. next = [acc EXCEPT !.lines = Append(acc.lines, k), !.total = acc.total + Length[f.items[k]]]
      BY <1>1, <1>4, <1>13, <2>1 DEF AddLine
    <3> QED
      BY <1>1, <1>4, <1>13, <3>1
  <2>3. n = L /\ more[L + 1] = total + w /\ lines = lore
    BY <1>6, <1>8, <1>9, <1>13
  <2>4. next.lines = SubSeq(t, 1, L + 1)
    BY <1>3, <1>9, <2>2, <2>3
  <2>5. next.total <= MaxContext /\ next.total = more[L + 1] /\ next.full = FALSE
    BY <1>7, <1>13, <2>2, <2>3
  <2>6. Begins(f, t, next, L + 1)
    BY <1>3, <1>6, <2>4, <2>5 DEF Begins
  <2> QED
    BY <1>3, <1>10, <2>1, <2>6
<1> QED
  BY <1>11, <1>12, <1>13

\* However many entries, the lines are the beginning of the lore among them.
LEMMA LinesBegin ==
  ASSUME NEW f \in FileType, NEW entries \in Seq(Key)
  PROVE  \A m \in 0..Len(entries) :
           \E n \in 0..Len(Filtering(entries, ItemsOf(f, Lore))[m]) :
             Begins(f, Filtering(entries, ItemsOf(f, Lore))[m], AddingLines(f, entries)[m], n)
<1>1. PICK L \in Nat : L = Len(entries)
  OBVIOUS
<1>2. PICK S : S = ItemsOf(f, Lore)
  OBVIOUS
<1>3. PICK lore : lore = Filtering(entries, S)
  OBVIOUS
<1>4. PICK acc : acc = AddingLines(f, entries)
  OBVIOUS
<1>5. /\ lore[0] = <<>>
      /\ \A m \in 1..L : /\ entries[m] \in S => lore[m] = Append(lore[m - 1], entries[m])
                         /\ entries[m] \notin S => lore[m] = lore[m - 1]
  <2>1. /\ Filtering(entries, S)[0] = <<>>
        /\ \A m \in 1..Len(entries) :
             /\ entries[m] \in S =>
                  Filtering(entries, S)[m] = Append(Filtering(entries, S)[m - 1], entries[m])
             /\ entries[m] \notin S => Filtering(entries, S)[m] = Filtering(entries, S)[m - 1]
    BY FilteringIs
  <2> QED
    BY <1>1, <1>3, <2>1
<1>6. /\ acc[0] = NoLines
      /\ \A m \in 1..L : acc[m] = AddLine(acc[m - 1], f, entries[m])
      /\ \A m \in 0..L : acc[m] \in LinesOf(f)
  BY <1>1, <1>4, AddingLinesIs
<1> DEFINE Begun(m) == lore[m] \in Seq(S) /\ \E n \in 0..Len(lore[m]) : Begins(f, lore[m], acc[m], n)
           G == {m \in 0..L : Begun(m)}
<1>7. 0 \in G
  <2>1. PICK none \in Seq(S) : none = <<>> /\ Len(none) = 0
    <3>1. <<>> \in Seq(S) /\ Len(<<>>) = 0
      OBVIOUS
    <3> QED
      BY <3>1
  <2>2. LengthUpTo(f, none)[0] = 0
    BY <1>2, <2>1, LengthsAre
  <2>3. SubSeq(none, 1, 0) = none
    BY <2>1, FirstOnes
  <2>4. NoLines.lines = none /\ NoLines.total = 0 /\ NoLines.full = FALSE
    BY <2>1 DEF NoLines
  <2>5. 0 <= MaxContext
    BY LengthAssumption
  <2>6. Begins(f, none, NoLines, 0)
    BY <2>1, <2>2, <2>3, <2>4, <2>5 DEF Begins
  <2>7. lore[0] = none /\ acc[0] = NoLines
    BY <1>5, <1>6, <2>1
  <2>8. 0 \in 0..Len(none) /\ 0 \in 0..L
    BY <2>1
  <2>9. Begun(0)
    BY <2>1, <2>6, <2>7, <2>8
  <2> QED
    BY <2>8, <2>9
<1>8. ASSUME NEW m \in 1..L, m - 1 \in G
      PROVE  m \in G
  <2>1. PICK p \in 0..L : p = m - 1
    OBVIOUS
  <2>2. PICK s \in Seq(S) : s = lore[p]
    BY <1>8, <2>1
  <2>3. PICK b \in LinesOf(f) : b = acc[p]
    BY <1>6, <2>1
  <2>4. PICK n \in 0..Len(s) : Begins(f, s, b, n)
    BY <1>8, <2>1, <2>2, <2>3
  <2>5. PICK k : k = entries[m]
    OBVIOUS
  <2>6. acc[m] = AddLine(b, f, k)
    BY <1>6, <2>1, <2>3, <2>5
  <2>7. CASE k \in S
    <3>1. lore[m] = Append(s, k)
      BY <1>5, <2>1, <2>2, <2>5, <2>7
    <3>2. \E x \in 0..Len(Append(s, k)) : Begins(f, Append(s, k), AddLine(b, f, k), x)
      BY <1>2, <2>4, <2>7, LoreComes
    <3>3. Append(s, k) \in Seq(S)
      BY <2>7
    <3>4. Begun(m)
      BY <2>6, <3>1, <3>2, <3>3
    <3> QED
      BY <3>4
  <2>8. CASE k \notin S
    <3>1. lore[m] = s
      BY <1>5, <2>1, <2>2, <2>5, <2>8
    <3>2. AddLine(b, f, k) = b
      BY <1>2, <2>8 DEF AddLine
    <3>3. Begun(m)
      BY <2>4, <2>6, <3>1, <3>2
    <3> QED
      BY <3>3
  <2> QED
    BY <2>7, <2>8
<1>9. \A m \in 0..L : Begun(m)
  <2>1. \A m \in 0..L : m \in G
    <3> HIDE DEF G
    <3> QED
      BY <1>7, <1>8, UpTo
  <2> HIDE DEF Begun
  <2> QED
    BY <2>1
<1> QED
  BY <1>1, <1>2, <1>3, <1>4, <1>9

\* The world context is as much of the selected lore as fits.
LEMMA ContextAlwaysBeginning ==
  ASSUME NEW i, i.file \in FileType
  PROVE  ContextIsBeginning(i)
<1>1. PICK f \in FileType : f = i.file
  OBVIOUS
<1>2. PICK E \in Seq(Key) : E = SelectedEntries(f, i.selection)
  BY SelectedAre
<1>3. PICK L \in Nat : L = Len(E)
  OBVIOUS
<1>4. PICK lore : lore = Filtering(E, ItemsOf(f, Lore))[L]
  OBVIOUS
<1>5. lore = Only(E, ItemsOf(f, Lore)) /\ lore \in Seq(ItemsOf(f, Lore))
  <2>1. lore = Only(E, ItemsOf(f, Lore))
    BY <1>3, <1>4 DEF Only
  <2>2. Only(E, ItemsOf(f, Lore)) \in Seq(Key)
    BY OnlyIs
  <2>3. ToSet(Only(E, ItemsOf(f, Lore))) \subseteq ItemsOf(f, Lore)
    BY OnlyIs
  <2>4. lore \in Seq(Key) /\ \A k \in 1..Len(lore) : lore[k] \in ItemsOf(f, Lore)
    BY <2>1, <2>2, <2>3 DEF ToSet
  <2> QED
    BY <2>1, <2>4
<1>6. PICK acc \in LinesOf(f) : acc = AddingLines(f, E)[L]
  BY <1>3, AddingLinesIs
<1>7. PICK n \in 0..Len(lore) : Begins(f, lore, acc, n)
  <2>1. L \in 0..Len(E)
    BY <1>3
  <2>2. \E n \in 0..Len(Filtering(E, ItemsOf(f, Lore))[L]) :
          Begins(f, Filtering(E, ItemsOf(f, Lore))[L], AddingLines(f, E)[L], n)
    BY <2>1, LinesBegin
  <2> QED
    BY <1>4, <1>6, <2>2
<1>8. /\ acc.lines = SubSeq(lore, 1, n)
      /\ LengthUpTo(f, lore)[n] <= MaxContext
      /\ n < Len(lore) => LengthUpTo(f, lore)[n + 1] > MaxContext
  <2>1. PICK full \in BOOLEAN : full = acc.full
    BY DEF LinesOf
  <2>2. PICK l \in Nat : l = Len(lore)
    BY <1>5
  <2>3. full \/ n = l
    BY <1>7, <2>1, <2>2 DEF Begins
  <2> QED
    BY <1>7, <2>1, <2>2, <2>3 DEF Begins
<1>9. WorldContext(f, E) = acc.lines
  BY <1>3, <1>6 DEF WorldContext
<1> QED
  BY <1>1, <1>2, <1>5, <1>7, <1>8, <1>9 DEF ContextIsBeginning

\* The result of an import accounts for every candidate, and its scenes have
\* their own pictures, characters and lore, whichever of the writes failed
\* (import_lorebook, world_context).
THEOREM ImportAlwaysAccounted == RecordsSpec => []ImportIsAccounted
<1>1. ImportInv => ImportIsAccounted
  BY NothingEverUnaccounted, ScenesAlwaysTheirOwn, ContextAlwaysBeginning
     DEF ImportInv, ImportIsAccounted, Chosen, ImportAddsUp
<1> QED
  BY <1>1, ImportInvInit, ImportInvNext, PTL DEF RecordsSpec
=============================================================================
