--------------------------- MODULE StoreMigration ---------------------------
(***************************************************************************)
(* Opening the store: the schema, and the upgrade in place of a database   *)
(* left by any earlier release (Open and migrate in                        *)
(* internal/store/store.go).                                               *)
(*                                                                         *)
(* migrate runs at every start, one statement after another, each          *)
(* committed on its own.  The process can die between any two; the service *)
(* manager starts it again, and it begins from the top with what the disk  *)
(* holds by then.                                                          *)
(***************************************************************************)
EXTENDS Integers, FiniteSets

CONSTANTS
  Artists,     \* artists with a row that may hold a picture
  Discography, \* artists with a cached detail page
  MaxCrashes   \* bound

ASSUME MigrationAssumption == MaxCrashes \in Nat

VARIABLES
  disk,     \* columns, indexes and user_version
  picture,  \* picture[a]: artists.image_url, with image_checked_at
  detail,   \* detail[d]: the cached discography
  pc,       \* what the process does next
  seen,     \* local variables of migrate: what it read from the disk
  crashes,
  missed    \* history: statements for album requests that a crash forestalled

vars == <<disk, picture, detail, pc, seen, crashes, missed>>

(* The purges, and the last release without each: 1 discographies cut off   *)
(* at 100 entries, 2 pictures of an unverified search, 3 and 4 the two URLs *)
(* Deezer has for "no picture".                                             *)
schemaVersion == 4
Versions == 0 .. schemaVersion

Columns == {"album_name", "album_mbid", "plex_id", "lastfm_user"}
Disk == [tables  : BOOLEAN,              \* requests, users, ... exist
         columns : SUBSET Columns,       \* columns added since the first release
         indexes : SUBSET {"open", "open2"},
         gems    : BOOLEAN,              \* recommendations of the removed kind
         version : Versions]

(* "none" is no picture and no lookup yet, "nothing" a lookup without a     *)
(* result; the backfill only visits the former.                             *)
Pictures == {"none", "nothing", "wrong", "blank", "emptyHash", "good"}
Details  == {"none", "truncated", "complete"}

(* What migrate does on behalf of album_mbid after album_name is there.      *)
AlbumSteps == {"addMbid", "dropOpen"}

Step == {"down", "schema", "album", "addName", "addMbid", "dropOpen", "open2",
         "users", "addPlex", "addLastfm", "gems", "version", "purge", "mark",
         "running", "failed"}
Seen   == [columns : SUBSET Columns, version : Versions, purge : 1 .. schemaVersion + 1]
Unseen == [columns |-> {}, version |-> 0, purge |-> 1]
-----------------------------------------------------------------------------
(* What a release leaves behind, described by what it added.                *)

Release(n) ==  \* the columns and the index after n schema changes
  [columns |-> (IF n >= 1 THEN {"album_name", "album_mbid"} ELSE {}) \cup
               (IF n >= 2 THEN {"plex_id"} ELSE {}) \cup
               (IF n >= 3 THEN {"lastfm_user"} ELSE {}),
   indexes |-> IF n >= 1 THEN {"open2"} ELSE {"open"}]

Fresh == [tables |-> FALSE, columns |-> {}, indexes |-> {}, gems |-> FALSE, version |-> 0]

OldDisks ==
  {[tables |-> TRUE, columns |-> Release(n).columns, indexes |-> Release(n).indexes,
    gems |-> g, version |-> v] : n \in 0 .. 3, g \in BOOLEAN, v \in Versions}

(* user_version came after all columns and after the purge of the gems.     *)
Released(d) == d.version > 0 => d.columns = Columns /\ ~d.gems

(* What a database of version v can hold.                                   *)
PicturesOf(v) ==
  {"none", "nothing", "good"} \cup
  (IF v < 2 THEN {"wrong"} ELSE {}) \cup
  (IF v < 3 THEN {"blank"} ELSE {}) \cup
  (IF v < 4 THEN {"emptyHash"} ELSE {})
DetailsOf(v) == {"none", "complete"} \cup (IF v < 1 THEN {"truncated"} ELSE {})
-----------------------------------------------------------------------------
At(step) == pc = step
Go(step) == pc' = step

Start ==
  /\ pc \in {"down", "failed"}
  /\ Go("schema") /\ seen' = Unseen
  /\ UNCHANGED <<disk, picture, detail, crashes, missed>>

(* schema.sql: CREATE ... IF NOT EXISTS throughout, so a part of it done    *)
(* before a crash does no harm and the whole is one step here.              *)
Schema ==
  /\ At("schema") /\ Go("album")
  /\ disk' = [disk EXCEPT !.tables = TRUE]
  /\ UNCHANGED <<picture, detail, seen, crashes, missed>>

(* One column is asked for, on behalf of both and of the index.             *)
Album ==
  /\ At("album")
  /\ Go(IF "album_mbid" \in disk.columns THEN "open2" ELSE "addName")
  /\ UNCHANGED <<disk, picture, detail, seen, crashes, missed>>

(* ALTER TABLE ... ADD COLUMN: an error when the column is there.           *)
AddColumn(step, column, next) ==
  /\ At(step)
  /\ IF column \in disk.columns THEN Go("failed") /\ UNCHANGED disk
     ELSE Go(next) /\ disk' = [disk EXCEPT !.columns = @ \cup {column}]
  /\ UNCHANGED <<picture, detail, seen, crashes, missed>>

AddName == AddColumn("addName", "album_name", "addMbid")
AddMbid == AddColumn("addMbid", "album_mbid", "dropOpen")

DropOpen ==
  /\ At("dropOpen") /\ Go("open2")
  /\ disk' = [disk EXCEPT !.indexes = @ \ {"open"}]
  /\ UNCHANGED <<picture, detail, seen, crashes, missed>>

Open2 ==
  /\ At("open2") /\ Go("users")
  /\ disk' = [disk EXCEPT !.indexes = @ \cup {"open2"}]
  /\ UNCHANGED <<picture, detail, seen, crashes, missed>>

ReadUsers ==
  /\ At("users") /\ Go("addPlex")
  /\ seen' = [seen EXCEPT !.columns = disk.columns]
  /\ UNCHANGED <<disk, picture, detail, crashes, missed>>

Slip_AddUserColumn(step, column, next) ==  \* both columns hang on one flag
  IF "lastfm_user" \in seen.columns
    THEN At(step) /\ Go(next) /\ UNCHANGED <<disk, picture, detail, seen, crashes, missed>>
    ELSE AddColumn(step, column, next)

AddUserColumn(step, column, next) ==
  IF column \in seen.columns
    THEN At(step) /\ Go(next) /\ UNCHANGED <<disk, picture, detail, seen, crashes, missed>>
    ELSE AddColumn(step, column, next)

AddPlex   == AddUserColumn("addPlex", "plex_id", "addLastfm")
AddLastfm == AddUserColumn("addLastfm", "lastfm_user", "gems")

DeleteGems ==
  /\ At("gems") /\ Go("version")
  /\ disk' = [disk EXCEPT !.gems = FALSE]
  /\ UNCHANGED <<picture, detail, seen, crashes, missed>>

ReadVersion ==
  /\ At("version") /\ Go("purge")
  /\ seen' = [seen EXCEPT !.version = disk.version]
  /\ UNCHANGED <<disk, picture, detail, crashes, missed>>

(* What purge k makes of a picture and of a discography.                    *)
AfterPurge(k, p) ==
  IF \/ k = 2
     \/ k = 3 /\ p = "blank"
     \/ k = 4 /\ p = "emptyHash"
  THEN "none" ELSE p

Slip_Due(k) == seen.version <= k  \* off by one
Due(k) == seen.version < k

Purge ==
  /\ At("purge")
  /\ LET k == seen.purge IN
       IF k > schemaVersion
         THEN Go("running") /\ UNCHANGED <<picture, detail, seen>>
       ELSE IF Due(k)
         THEN /\ Go("mark")
              /\ picture' = [a \in Artists |-> AfterPurge(k, picture[a])]
              /\ detail' = IF k = 1 THEN [d \in Discography |-> "none"] ELSE detail
              /\ UNCHANGED seen
         ELSE /\ seen' = [seen EXCEPT !.purge = k + 1]
              /\ UNCHANGED <<pc, picture, detail>>
  /\ UNCHANGED <<disk, crashes, missed>>

Slip_Mark ==  \* one PRAGMA at the first purge that is due
  /\ At("mark") /\ Go("purge")
  /\ disk' = [disk EXCEPT !.version = schemaVersion]
  /\ seen' = [seen EXCEPT !.purge = @ + 1]
  /\ UNCHANGED <<picture, detail, crashes, missed>>

Slip_MarkNext ==  \* the version of the purge after this one
  /\ At("mark") /\ Go("purge")
  /\ disk' = [disk EXCEPT !.version = seen.purge + 1]
  /\ seen' = [seen EXCEPT !.purge = @ + 1]
  /\ UNCHANGED <<picture, detail, crashes, missed>>

(* PRAGMA user_version = k                                                  *)
Mark ==
  /\ At("mark") /\ Go("purge")
  /\ disk' = [disk EXCEPT !.version = seen.purge]
  /\ seen' = [seen EXCEPT !.purge = @ + 1]
  /\ UNCHANGED <<picture, detail, crashes, missed>>
-----------------------------------------------------------------------------
(* The program at work, as far as the purged data goes: the image backfill  *)
(* and a visit to an artist page.                                           *)
LookUpPicture(a) ==
  /\ At("running") /\ picture[a] = "none"
  /\ picture' \in {[picture EXCEPT ![a] = p] : p \in {"good", "nothing"}}
  /\ UNCHANGED <<disk, detail, pc, seen, crashes, missed>>

FetchDetail(d) ==
  /\ At("running")
  /\ detail' = [detail EXCEPT ![d] = "complete"]
  /\ UNCHANGED <<disk, picture, pc, seen, crashes, missed>>

Stop ==
  /\ At("running") /\ Go("down")
  /\ UNCHANGED <<disk, picture, detail, seen, crashes, missed>>

Crash ==
  /\ pc \notin {"down", "failed", "running"}
  /\ crashes < MaxCrashes /\ crashes' = crashes + 1
  /\ missed' = missed \cup {s \in AlbumSteps : At(s) /\ (s = "dropOpen" => "open" \in disk.indexes)}
  /\ Go("down")
  /\ UNCHANGED <<disk, picture, detail, seen>>

Init ==
  /\ disk \in {Fresh} \cup {d \in OldDisks : Released(d)}
  /\ picture \in [Artists -> IF disk.tables THEN PicturesOf(disk.version) ELSE {"none"}]
  /\ detail \in [Discography -> IF disk.tables THEN DetailsOf(disk.version) ELSE {"none"}]
  /\ pc = "down" /\ seen = Unseen /\ crashes = 0 /\ missed = {}

Migrate ==
  \/ Start \/ Schema \/ Album \/ AddName \/ AddMbid \/ DropOpen \/ Open2 \/ ReadUsers
  \/ AddPlex \/ AddLastfm \/ DeleteGems \/ ReadVersion \/ Purge \/ Mark

Next ==
  \/ Migrate
  \/ \E a \in Artists : LookUpPicture(a)
  \/ \E d \in Discography : FetchDetail(d)
  \/ Stop \/ Crash

(* The service manager restarts a process that ended, and a process runs.   *)
Spec == Init /\ [][Next]_vars /\ WF_vars(Migrate)
-----------------------------------------------------------------------------
TypeOK ==
  /\ disk \in Disk
  /\ picture \in [Artists -> Pictures]
  /\ detail \in [Discography -> Details]
  /\ pc \in Step
  /\ seen \in Seen
  /\ crashes \in 0 .. MaxCrashes
  /\ missed \subseteq AlbumSteps

(* Whatever release the database comes from and wherever earlier attempts   *)
(* died, a process that serves has the whole schema, its version, and none  *)
(* of the data an upgrade was to remove.  The exception is the old index on *)
(* open requests, which a crash between ADD album_mbid and DROP INDEX       *)
(* leaves for good.                                                         *)
ServesUpgraded ==
  pc = "running" =>
    /\ disk.tables /\ disk.columns = Columns
    /\ disk.indexes = {"open2"} \cup {i \in {"open"} : "dropOpen" \in missed}
    /\ disk.version = schemaVersion /\ ~disk.gems
    /\ \A a \in Artists : picture[a] \notin {"wrong", "blank", "emptyHash"}
    /\ \A d \in Discography : detail[d] # "truncated"

(* An upgrade throws away only what it is about, and what it throws away is *)
(* looked up again: a picture or discography fetched by a release that gets *)
(* it right survives every later start (migrate_test.go "must survive a     *)
(* restart").                                                               *)
PurgesOnlyStale ==
  [][ pc # "running" =>
        /\ \A a \in Artists : picture'[a] # picture[a] =>
             picture'[a] = "none" /\ (disk.version < 2 \/ picture[a] \in {"blank", "emptyHash"})
        /\ \A d \in Discography : detail'[d] # detail[d] => disk.version < 1 ]_vars

(* From any release's database, and wherever earlier attempts died, a       *)
(* process serves in the end: an ALTER that was made already is not made    *)
(* again.  The one exception: a crash kept album_mbid from following        *)
(* album_name; then every later start asks for the second, adds the first   *)
(* again and fails (store.go:64-79).  No other upgrade may end in failure.  *)
OpensInTheEnd ==
  pc = "down" ~> pc = "running" \/ (pc = "failed" /\ "addMbid" \in missed)
=============================================================================
