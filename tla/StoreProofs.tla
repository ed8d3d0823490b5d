----------------------------- MODULE StoreProofs -----------------------------
(***************************************************************************)
(* Theorems about what is in the database: its schema and cached data      *)
(* through upgrades (StoreMigration), for any sets of artists and          *)
(* discographies and any number of crashes; and the libraries of the       *)
(* instances (LibrarySync), for any servers, edits, syncs and ids.         *)
(*                                                                         *)
(* migrate is one long sequence that can stop anywhere and starts over, so *)
(* the inductive invariant IInv has two parts: what the disk satisfies at  *)
(* any time, also where a process died, and what the statements before pc  *)
(* have established by now.                                                *)
(*                                                                         *)
(* Edits and syncs work on copies of rows, and ids are handed out again:   *)
(* LibraryIInv says of every copy that it still fits the row with its id,  *)
(* unless that id was deleted while somebody held one.                     *)
(***************************************************************************)
EXTENDS StoreMigration, LibrarySync, TLAPS, FiniteSetTheorems, WellFoundedInduction

(* The statements still to come, from the last to the first.                *)
AfterVersion == {"purge", "mark", "running"}
AfterGems    == {"version"} \cup AfterVersion
AfterLastfm  == {"gems"} \cup AfterGems
AfterPlex    == {"addLastfm"} \cup AfterLastfm
AfterUsers   == {"addPlex"} \cup AfterPlex
AfterOpen2   == {"users"} \cup AfterUsers
AfterMbid    == {"dropOpen", "open2"} \cup AfterOpen2
AfterSchema  == {"album", "addName", "addMbid"} \cup AfterMbid

(* At any time: the columns of the album come in this order, and the old    *)
(* index lives until the second one is there; it outlives it in two cases.  *)
DiskInv ==
  /\ "album_mbid" \in disk.columns => "album_name" \in disk.columns
  /\ "open" \in disk.indexes /\ "album_mbid" \in disk.columns =>
       "dropOpen" \in missed \/ pc = "dropOpen"
  /\ "dropOpen" \in missed =>
       "open" \in disk.indexes /\ "album_mbid" \in disk.columns /\ pc # "dropOpen"

(* At any time: no data that a purge before the version on disk removed.    *)
DataInv ==
  /\ \A a \in Artists : picture[a] \in PicturesOf(disk.version)
  /\ \A d \in Discography : detail[d] \in DetailsOf(disk.version)

(* What the statements before pc have brought about.                        *)
SchemaInv ==
  /\ pc \in AfterSchema => disk.tables
  /\ pc = "addMbid" => "album_name" \in disk.columns
  /\ pc \in AfterMbid => {"album_name", "album_mbid"} \subseteq disk.columns
  /\ pc \in AfterOpen2 => "open2" \in disk.indexes
  /\ pc \in AfterUsers => seen.columns \subseteq disk.columns
  /\ pc \in AfterPlex => "plex_id" \in disk.columns
  /\ pc \in AfterLastfm => "lastfm_user" \in disk.columns
  /\ pc \in AfterGems => ~disk.gems

(* The purges before seen.purge are done or were not due, and the version   *)
(* on disk says so; the one under way is done but not yet written down.     *)
PurgeInv ==
  /\ pc \in AfterVersion =>
       disk.version = IF seen.version < seen.purge - 1 THEN seen.purge - 1 ELSE seen.version
  /\ pc \in ({"schema"} \cup AfterSchema) \ AfterVersion => seen.purge = 1
  /\ pc = "mark" =>
       /\ seen.purge <= schemaVersion /\ Due(seen.purge)
       /\ \A a \in Artists : picture[a] \in PicturesOf(seen.purge)
       /\ \A d \in Discography : detail[d] \in DetailsOf(seen.purge)
  /\ pc = "running" => seen.purge = schemaVersion + 1

IInv == TypeOK /\ DiskInv /\ DataInv /\ SchemaInv /\ PurgeInv
-----------------------------------------------------------------------------
USE MigrationAssumption DEF schemaVersion, Versions

(* The names of the phases, for the steps that go from one to the next.     *)
LEMMA Phases ==
  /\ AfterVersion = {"purge", "mark", "running"}
  /\ AfterGems = {"version", "purge", "mark", "running"}
  /\ AfterLastfm = {"gems", "version", "purge", "mark", "running"}
  /\ AfterPlex = {"addLastfm", "gems", "version", "purge", "mark", "running"}
  /\ AfterUsers = {"addPlex", "addLastfm", "gems", "version", "purge", "mark", "running"}
  /\ AfterOpen2 = {"users", "addPlex", "addLastfm", "gems", "version", "purge", "mark", "running"}
  /\ AfterMbid = {"dropOpen", "open2", "users", "addPlex", "addLastfm", "gems", "version",
                  "purge", "mark", "running"}
  /\ AfterSchema = {"album", "addName", "addMbid", "dropOpen", "open2", "users", "addPlex",
                    "addLastfm", "gems", "version", "purge", "mark", "running"}
  BY DEF AfterVersion, AfterGems, AfterLastfm, AfterPlex, AfterUsers, AfterOpen2, AfterMbid,
         AfterSchema

(* A fresh database, or one that some release left, is consistent.          *)
LEMMA InitIInv == Init => IInv
  <1> SUFFICES ASSUME Init PROVE IInv
    OBVIOUS
  <1>1. pc = "down" /\ seen = Unseen /\ crashes = 0 /\ missed = {}
    BY DEF Init
  <1>2. /\ disk \in Disk
        /\ "album_mbid" \in disk.columns => "album_name" \in disk.columns /\ "open" \notin disk.indexes
        /\ ~disk.tables => disk.version = 0
    <2>1. CASE disk = Fresh
      BY <2>1 DEF Fresh, Disk
    <2>2. CASE disk \in OldDisks
      <3>1. PICK n \in 0 .. 3, g \in BOOLEAN, v \in Versions :
              disk = [tables |-> TRUE, columns |-> Release(n).columns,
                      indexes |-> Release(n).indexes, gems |-> g, version |-> v]
        BY <2>2 DEF OldDisks
      <3>2. /\ Release(n).columns \subseteq Columns /\ Release(n).indexes \subseteq {"open", "open2"}
            /\ "album_mbid" \in Release(n).columns =>
                 "album_name" \in Release(n).columns /\ "open" \notin Release(n).indexes
        BY DEF Release, Columns
      <3> QED BY <3>1, <3>2 DEF Disk
    <2>3. disk = Fresh \/ disk \in OldDisks
      BY DEF Init
    <2> QED BY <2>1, <2>2, <2>3
  <1>3. /\ \A a \in Artists : picture[a] \in PicturesOf(disk.version)
        /\ \A d \in Discography : detail[d] \in DetailsOf(disk.version)
        /\ picture \in [Artists -> Pictures] /\ detail \in [Discography -> Details]
    <2>1. /\ PicturesOf(disk.version) \subseteq Pictures /\ "none" \in PicturesOf(disk.version)
          /\ DetailsOf(disk.version) \subseteq Details /\ "none" \in DetailsOf(disk.version)
      BY DEF PicturesOf, Pictures, DetailsOf, Details
    <2>2. /\ picture \in [Artists -> PicturesOf(disk.version)]
          /\ detail \in [Discography -> DetailsOf(disk.version)]
      BY <2>1 DEF Init
    <2> QED BY <2>1, <2>2
  <1>4. TypeOK
    <2>1. seen \in Seen
      BY <1>1 DEF Unseen, Seen
    <2>2. pc \in Step /\ crashes \in 0 .. MaxCrashes
      BY <1>1 DEF Step
    <2>3. missed \subseteq AlbumSteps
      BY <1>1
    <2> QED BY <1>2, <1>3, <2>1, <2>2, <2>3 DEF TypeOK
  <1>5. DiskInv /\ DataInv
    BY <1>1, <1>2, <1>3 DEF DiskInv, DataInv
  <1>6. SchemaInv /\ PurgeInv
    BY <1>1, Phases DEF SchemaInv, PurgeInv
  <1> QED BY <1>4, <1>5, <1>6 DEF IInv

-----------------------------------------------------------------------------
(* The schema: statements before the purges.                                *)

(* The fields of the disk and of the local variables have their types.      *)
LEMMA FieldsTyped ==
  ASSUME TypeOK
  PROVE  /\ disk.tables \in BOOLEAN /\ disk.columns \subseteq Columns
         /\ disk.indexes \subseteq {"open", "open2"} /\ disk.gems \in BOOLEAN
         /\ disk.version \in 0 .. 4
         /\ seen.columns \subseteq Columns /\ seen.version \in 0 .. 4 /\ seen.purge \in 1 .. 5
  BY DEF TypeOK, Disk, Seen

(* A statement that leaves the cached data and the version alone keeps what *)
(* is said of the data.                                                     *)
LEMMA DataFrame ==
  ASSUME DataInv, UNCHANGED <<picture, detail>>, disk'.version = disk.version
  PROVE  DataInv'
  BY DEF DataInv

(* A process starts, or starts over.                                        *)
LEMMA StartKeepsIInv == IInv /\ Start => IInv'
  <1> SUFFICES ASSUME IInv, Start PROVE IInv'
    OBVIOUS
  <1> USE DEF IInv, Start, Go
  <1>1. TypeOK'
    BY DEF TypeOK, Step, Seen, Unseen
  <1>2. DiskInv' /\ DataInv'
    BY DEF DiskInv, DataInv
  <1>3. SchemaInv' /\ PurgeInv'
    BY Phases DEF SchemaInv, PurgeInv, Unseen
  <1> QED BY <1>1, <1>2, <1>3

(* The schema script creates what is missing and nothing else.              *)
LEMMA SchemaKeepsIInv == IInv /\ Schema => IInv'
  <1> SUFFICES ASSUME IInv, Schema PROVE IInv'
    OBVIOUS
  <1> USE DEF IInv, Schema, Go, At
  <1>1. /\ disk'.tables = TRUE /\ disk'.columns = disk.columns /\ disk'.indexes = disk.indexes
        /\ disk'.version = disk.version /\ disk'.gems = disk.gems /\ disk' \in Disk
    BY DEF TypeOK, Disk
  <1>2. TypeOK'
    BY <1>1 DEF TypeOK, Step
  <1>3. DiskInv' /\ DataInv'
    BY <1>1, DataFrame DEF DiskInv
  <1>4. SchemaInv' /\ PurgeInv'
    BY <1>1, Phases DEF SchemaInv, PurgeInv
  <1> QED BY <1>2, <1>3, <1>4

(* hasColumn("album_mbid") sends a fresh or an old database to the ALTERs.  *)
LEMMA AlbumKeepsIInv == IInv /\ Album => IInv'
  <1> SUFFICES ASSUME IInv, Album PROVE IInv'
    OBVIOUS
  <1> USE DEF IInv, Album, Go, At
  <1>1. TypeOK'
    BY DEF TypeOK, Step
  <1>2. DiskInv' /\ DataInv'
    BY DEF DiskInv, DataInv
  <1>3. SchemaInv' /\ PurgeInv'
    BY Phases DEF SchemaInv, PurgeInv, DiskInv
  <1> QED BY <1>1, <1>2, <1>3

(* An ALTER TABLE adds its column and goes on, or finds it and fails.       *)
LEMMA AddColumnAdds ==
  ASSUME TypeOK, NEW step, NEW column \in Columns, NEW next \in Step, AddColumn(step, column, next)
  PROVE  /\ TypeOK' /\ disk'.version = disk.version /\ disk'.indexes = disk.indexes
         /\ disk'.tables = disk.tables /\ disk'.gems = disk.gems
         /\ UNCHANGED <<picture, detail, seen, missed>>
         /\ \/ column \in disk.columns /\ pc' = "failed" /\ disk'.columns = disk.columns
            \/ column \notin disk.columns /\ pc' = next
               /\ disk'.columns = disk.columns \cup {column}
  <1> USE DEF AddColumn, Go
  <1>1. CASE column \in disk.columns
    BY <1>1 DEF TypeOK, Step
  <1>2. CASE column \notin disk.columns
    <2>1. disk' = [disk EXCEPT !.columns = @ \cup {column}]
      BY <1>2
    <2>2. /\ disk'.version = disk.version /\ disk'.indexes = disk.indexes
          /\ disk'.tables = disk.tables /\ disk'.gems = disk.gems
          /\ disk'.columns = disk.columns \cup {column} /\ disk' \in Disk
      BY <2>1 DEF TypeOK, Disk
    <2> QED BY <1>2, <2>2 DEF TypeOK
  <1> QED BY <1>1, <1>2

(* The first of the two columns that only album_mbid is asked for.          *)
LEMMA AddNameKeepsIInv == IInv /\ AddName => IInv'
  <1> SUFFICES ASSUME IInv, AddName PROVE IInv'
    OBVIOUS
  <1> USE DEF IInv
  <1>1. /\ TypeOK' /\ disk'.version = disk.version /\ disk'.indexes = disk.indexes
        /\ disk'.tables = disk.tables /\ disk'.gems = disk.gems
        /\ UNCHANGED <<picture, detail, seen, missed>>
        /\ \/ pc' = "failed" /\ disk'.columns = disk.columns
           \/ pc' = "addMbid" /\ disk'.columns = disk.columns \cup {"album_name"}
    BY AddColumnAdds DEF AddName, Columns, Step
  <1>2. pc = "addName"
    BY DEF AddName, AddColumn, At
  <1>3. DiskInv' /\ DataInv'
    BY <1>1, <1>2, DataFrame DEF DiskInv
  <1>4. SchemaInv' /\ PurgeInv'
    BY <1>1, <1>2, Phases DEF SchemaInv, PurgeInv
  <1> QED BY <1>1, <1>3, <1>4

(* From here to the DROP INDEX both indexes' columns exist.                 *)
LEMMA AddMbidKeepsIInv == IInv /\ AddMbid => IInv'
  <1> SUFFICES ASSUME IInv, AddMbid PROVE IInv'
    OBVIOUS
  <1> USE DEF IInv
  <1>1. /\ TypeOK' /\ disk'.version = disk.version /\ disk'.indexes = disk.indexes
        /\ disk'.tables = disk.tables /\ disk'.gems = disk.gems
        /\ UNCHANGED <<picture, detail, seen, missed>>
        /\ \/ pc' = "failed" /\ disk'.columns = disk.columns
           \/ "album_mbid" \notin disk.columns /\ pc' = "dropOpen"
              /\ disk'.columns = disk.columns \cup {"album_mbid"}
    BY AddColumnAdds DEF AddMbid, Columns, Step
  <1>2. pc = "addMbid" /\ "album_name" \in disk.columns
    BY DEF AddMbid, AddColumn, At, SchemaInv
  <1>3. DiskInv' /\ DataInv'
    BY <1>1, <1>2, DataFrame DEF DiskInv
  <1>4. SchemaInv' /\ PurgeInv'
    BY <1>1, <1>2, Phases DEF SchemaInv, PurgeInv
  <1> QED BY <1>1, <1>3, <1>4

(* The old index goes, on the one path that comes here.                     *)
LEMMA DropOpenKeepsIInv == IInv /\ DropOpen => IInv'
  <1> SUFFICES ASSUME IInv, DropOpen PROVE IInv'
    OBVIOUS
  <1> USE DEF IInv, DropOpen, Go, At
  <1>1. /\ disk'.tables = disk.tables /\ disk'.columns = disk.columns
        /\ disk'.indexes = disk.indexes \ {"open"}
        /\ disk'.version = disk.version /\ disk'.gems = disk.gems /\ disk' \in Disk
    BY DEF TypeOK, Disk
  <1>2. TypeOK'
    BY <1>1 DEF TypeOK, Step
  <1>3. DiskInv' /\ DataInv'
    BY <1>1, DataFrame DEF DiskInv
  <1>4. SchemaInv' /\ PurgeInv'
    BY <1>1, Phases DEF SchemaInv, PurgeInv
  <1> QED BY <1>2, <1>3, <1>4

(* CREATE UNIQUE INDEX IF NOT EXISTS idx_requests_open2.                    *)
LEMMA Open2KeepsIInv == IInv /\ Open2 => IInv'
  <1> SUFFICES ASSUME IInv, Open2 PROVE IInv'
    OBVIOUS
  <1> USE DEF IInv, Open2, Go, At
  <1>1. /\ disk'.tables = disk.tables /\ disk'.columns = disk.columns
        /\ disk'.indexes = disk.indexes \cup {"open2"}
        /\ disk'.version = disk.version /\ disk'.gems = disk.gems /\ disk' \in Disk
    BY DEF TypeOK, Disk
  <1>2. TypeOK'
    BY <1>1 DEF TypeOK, Step
  <1>3. DiskInv' /\ DataInv'
    BY <1>1, DataFrame DEF DiskInv
  <1>4. SchemaInv' /\ PurgeInv'
    BY <1>1, Phases DEF SchemaInv, PurgeInv
  <1> QED BY <1>2, <1>3, <1>4

(* The columns of users are read once, for both ALTERs.                     *)
LEMMA ReadUsersKeepsIInv == IInv /\ ReadUsers => IInv'
  <1> SUFFICES ASSUME IInv, ReadUsers PROVE IInv'
    OBVIOUS
  <1> USE DEF IInv, ReadUsers, Go, At
  <1>1. /\ seen'.columns = disk.columns /\ seen'.version = seen.version
        /\ seen'.purge = seen.purge /\ seen' \in Seen
    BY FieldsTyped DEF TypeOK, Seen
  <1>2. TypeOK'
    BY <1>1 DEF TypeOK, Step
  <1>3. DiskInv' /\ DataInv'
    BY DEF DiskInv, DataInv
  <1>4. SchemaInv' /\ PurgeInv'
    BY <1>1, Phases DEF SchemaInv, PurgeInv
  <1> QED BY <1>2, <1>3, <1>4

(* users.plex_id is added unless it was there when the columns were read.   *)
LEMMA AddPlexKeepsIInv == IInv /\ AddPlex => IInv'
  <1> SUFFICES ASSUME IInv, AddPlex PROVE IInv'
    OBVIOUS
  <1> USE DEF IInv
  <1>1. /\ TypeOK' /\ disk'.version = disk.version /\ disk'.indexes = disk.indexes
        /\ disk'.tables = disk.tables /\ disk'.gems = disk.gems
        /\ UNCHANGED <<picture, detail, seen, missed>>
        /\ \/ pc' = "failed" /\ disk'.columns = disk.columns
           \/ pc' = "addLastfm" /\ disk'.columns = disk.columns \cup {"plex_id"}
    <2>1. CASE "plex_id" \in seen.columns
      <3>1. UNCHANGED <<disk, picture, detail, seen, crashes, missed>> /\ pc' = "addLastfm"
        BY <2>1 DEF AddPlex, AddUserColumn, Go
      <3>2. "plex_id" \in disk.columns
        BY <2>1, Phases DEF AddPlex, AddUserColumn, At, SchemaInv
      <3> QED BY <3>1, <3>2 DEF TypeOK, Step
    <2>2. CASE "plex_id" \notin seen.columns
      BY <2>2, AddColumnAdds DEF AddPlex, AddUserColumn, Columns, Step
    <2> QED BY <2>1, <2>2
  <1>2. pc = "addPlex"
    BY DEF AddPlex, AddUserColumn, AddColumn, At
  <1>3. DiskInv' /\ DataInv'
    BY <1>1, <1>2, DataFrame DEF DiskInv
  <1>4. SchemaInv' /\ PurgeInv'
    BY <1>1, <1>2, Phases DEF SchemaInv, PurgeInv
  <1> QED BY <1>1, <1>3, <1>4

(* users.lastfm_user likewise, by the same reading.                         *)
LEMMA AddLastfmKeepsIInv == IInv /\ AddLastfm => IInv'
  <1> SUFFICES ASSUME IInv, AddLastfm PROVE IInv'
    OBVIOUS
  <1> USE DEF IInv
  <1>1. /\ TypeOK' /\ disk'.version = disk.version /\ disk'.indexes = disk.indexes
        /\ disk'.tables = disk.tables /\ disk'.gems = disk.gems
        /\ UNCHANGED <<picture, detail, seen, missed>>
        /\ \/ pc' = "failed" /\ disk'.columns = disk.columns
           \/ pc' = "gems" /\ disk'.columns = disk.columns \cup {"lastfm_user"}
    <2>1. CASE "lastfm_user" \in seen.columns
      <3>1. UNCHANGED <<disk, picture, detail, seen, crashes, missed>> /\ pc' = "gems"
        BY <2>1 DEF AddLastfm, AddUserColumn, Go
      <3>2. "lastfm_user" \in disk.columns
        BY <2>1, Phases DEF AddLastfm, AddUserColumn, At, SchemaInv
      <3> QED BY <3>1, <3>2 DEF TypeOK, Step
    <2>2. CASE "lastfm_user" \notin seen.columns
      BY <2>2, AddColumnAdds DEF AddLastfm, AddUserColumn, Columns, Step
    <2> QED BY <2>1, <2>2
  <1>2. pc = "addLastfm"
    BY DEF AddLastfm, AddUserColumn, AddColumn, At
  <1>3. DiskInv' /\ DataInv'
    BY <1>1, <1>2, DataFrame DEF DiskInv
  <1>4. SchemaInv' /\ PurgeInv'
    BY <1>1, <1>2, Phases DEF SchemaInv, PurgeInv
  <1> QED BY <1>1, <1>3, <1>4

(* The recommendations of a removed kind are deleted at every start.        *)
LEMMA DeleteGemsKeepsIInv == IInv /\ DeleteGems => IInv'
  <1> SUFFICES ASSUME IInv, DeleteGems PROVE IInv'
    OBVIOUS
  <1> USE DEF IInv, DeleteGems, Go, At
  <1>1. /\ disk'.tables = disk.tables /\ disk'.columns = disk.columns
        /\ disk'.indexes = disk.indexes /\ ~disk'.gems
        /\ disk'.version = disk.version /\ disk' \in Disk
    BY DEF TypeOK, Disk
  <1>2. TypeOK'
    BY <1>1 DEF TypeOK, Step
  <1>3. DiskInv' /\ DataInv'
    BY <1>1, DataFrame DEF DiskInv
  <1>4. SchemaInv' /\ PurgeInv'
    BY <1>1, Phases DEF SchemaInv, PurgeInv
  <1> QED BY <1>2, <1>3, <1>4

-----------------------------------------------------------------------------
(* The purges.                                                              *)

(* PRAGMA user_version: no purge counts as done beyond it.                  *)
LEMMA ReadVersionKeepsIInv == IInv /\ ReadVersion => IInv'
  <1> SUFFICES ASSUME IInv, ReadVersion PROVE IInv'
    OBVIOUS
  <1> USE DEF IInv, ReadVersion, Go, At
  <1>1. /\ seen'.columns = seen.columns /\ seen'.version = disk.version
        /\ seen'.purge = seen.purge /\ seen' \in Seen
    BY FieldsTyped DEF TypeOK, Seen
  <1>2. TypeOK'
    BY <1>1 DEF TypeOK, Step
  <1>3. DiskInv' /\ DataInv'
    BY DEF DiskInv, DataInv
  <1>4. SchemaInv'
    BY <1>1, Phases DEF SchemaInv
  <1>5. PurgeInv'
    BY <1>1, FieldsTyped, Phases DEF PurgeInv
  <1> QED BY <1>2, <1>3, <1>4, <1>5

(* Purge k makes of the data of a version before k what version k can hold; *)
(* what version k can hold it leaves alone, except for the second, which    *)
(* throws away every picture.                                               *)
LEMMA PurgeBringsForward ==
  ASSUME NEW k \in 1 .. 4
  PROVE  /\ \A p \in PicturesOf(k - 1) :
              /\ AfterPurge(k, p) \in PicturesOf(k)
              /\ AfterPurge(k, p) # p =>
                   AfterPurge(k, p) = "none" /\ (k = 2 \/ p \in {"blank", "emptyHash"})
         /\ PicturesOf(k) \subseteq PicturesOf(k - 1) /\ PicturesOf(k) \subseteq Pictures
         /\ DetailsOf(k) \subseteq DetailsOf(k - 1) /\ DetailsOf(k) \subseteq Details
         /\ k > 1 => DetailsOf(k) = DetailsOf(k - 1)
         /\ "none" \in DetailsOf(k)
  <1>1. \A p \in PicturesOf(k - 1) :
          /\ AfterPurge(k, p) \in PicturesOf(k)
          /\ AfterPurge(k, p) # p =>
               AfterPurge(k, p) = "none" /\ (k = 2 \/ p \in {"blank", "emptyHash"})
    BY DEF PicturesOf, AfterPurge
  <1>2. PicturesOf(k) \subseteq PicturesOf(k - 1) /\ PicturesOf(k) \subseteq Pictures
    BY DEF PicturesOf, Pictures
  <1>3. /\ DetailsOf(k) \subseteq DetailsOf(k - 1) /\ DetailsOf(k) \subseteq Details
        /\ k > 1 => DetailsOf(k) = DetailsOf(k - 1)
        /\ "none" \in DetailsOf(k)
    BY DEF DetailsOf, Details
  <1> QED BY <1>1, <1>2, <1>3

(* A purge that is due is the next one after the version on disk.           *)
LEMMA DuePurge ==
  ASSUME IInv, At("purge"), seen.purge <= schemaVersion, Due(seen.purge)
  PROVE  seen.purge \in 1 .. 4 /\ disk.version = seen.purge - 1
  BY FieldsTyped, Phases DEF IInv, PurgeInv, At, Due

(* A purge that is due is done, any other skipped.                          *)
LEMMA PurgeKeepsIInv == IInv /\ Purge => IInv'
  <1> SUFFICES ASSUME IInv, Purge PROVE IInv'
    OBVIOUS
  <1> USE DEF IInv
  <1> DEFINE k == seen.purge
  <1>1. pc = "purge" /\ UNCHANGED <<disk, crashes, missed>>
    BY DEF Purge, At
  <1>2. k \in 1 .. 5 /\ seen.version \in 0 .. 4 /\ disk.version \in 0 .. 4
    BY FieldsTyped
  <1>3. CASE k > schemaVersion
    <2>1. pc' = "running" /\ UNCHANGED <<picture, detail, seen>>
      BY <1>3 DEF Purge, Go
    <2>2. TypeOK'
      BY <1>1, <2>1 DEF TypeOK, Step
    <2>3. DiskInv' /\ DataInv'
      BY <1>1, <2>1 DEF DiskInv, DataInv
    <2>4. SchemaInv'
      BY <1>1, <2>1, Phases DEF SchemaInv
    <2>5. PurgeInv'
      BY <1>1, <1>2, <1>3, <2>1, Phases DEF PurgeInv
    <2> QED BY <2>2, <2>3, <2>4, <2>5
  <1>4. CASE k <= schemaVersion /\ Due(k)
    <2>1. /\ pc' = "mark" /\ UNCHANGED seen
          /\ picture' = [a \in Artists |-> AfterPurge(k, picture[a])]
          /\ detail' = IF k = 1 THEN [d \in Discography |-> "none"] ELSE detail
      BY <1>2, <1>4 DEF Purge, Go
    <2>2. k \in 1 .. 4 /\ disk.version = k - 1
      BY <1>1, <1>4, DuePurge DEF At
    <2> HIDE DEF k
    <2>3. /\ \A a \in Artists : picture'[a] \in PicturesOf(k) /\ picture'[a] \in PicturesOf(k - 1)
          /\ picture' \in [Artists -> Pictures]
      BY <2>1, <2>2, PurgeBringsForward DEF DataInv
    <2>4. /\ \A d \in Discography : detail'[d] \in DetailsOf(k) /\ detail'[d] \in DetailsOf(k - 1)
          /\ detail' \in [Discography -> Details]
      <3>1. CASE k = 1
        BY <2>1, <2>2, <3>1, PurgeBringsForward
      <3>2. CASE k # 1
        <4>1. DetailsOf(k) = DetailsOf(k - 1)
          BY <2>2, <3>2, PurgeBringsForward
        <4> QED BY <2>1, <2>2, <3>2, <4>1 DEF DataInv, TypeOK
      <3> QED BY <3>1, <3>2
    <2>5. TypeOK'
      BY <1>1, <2>1, <2>3, <2>4 DEF TypeOK, Step
    <2>6. DiskInv' /\ DataInv'
      BY <1>1, <2>1, <2>2, <2>3, <2>4 DEF DiskInv, DataInv
    <2>7. SchemaInv'
      BY <1>1, <2>1, Phases DEF SchemaInv
    <2>8. PurgeInv'
      BY <1>1, <1>2, <1>4, <2>1, <2>3, <2>4, Phases DEF PurgeInv, Due, k
    <2> QED BY <2>5, <2>6, <2>7, <2>8
  <1>5. CASE k <= schemaVersion /\ ~Due(k)
    <2>1. /\ seen' = [seen EXCEPT !.purge = k + 1] /\ UNCHANGED <<pc, picture, detail>>
      BY <1>2, <1>5 DEF Purge
    <2>2. /\ seen'.columns = seen.columns /\ seen'.version = seen.version
          /\ seen'.purge = k + 1 /\ seen' \in Seen
      BY <1>2, <1>5, <2>1 DEF TypeOK, Seen
    <2>3. TypeOK'
      BY <1>1, <2>1, <2>2 DEF TypeOK
    <2>4. DiskInv' /\ DataInv'
      BY <1>1, <2>1 DEF DiskInv, DataInv
    <2>5. SchemaInv'
      BY <1>1, <2>1, <2>2, Phases DEF SchemaInv
    <2>6. PurgeInv'
      BY <1>1, <1>2, <1>5, <2>1, <2>2, Phases DEF PurgeInv, Due
    <2> QED BY <2>3, <2>4, <2>5, <2>6
  <1> QED BY <1>2, <1>3, <1>4, <1>5

(* The version is written after what it stands for.                         *)
LEMMA MarkKeepsIInv == IInv /\ Mark => IInv'
  <1> SUFFICES ASSUME IInv, Mark PROVE IInv'
    OBVIOUS
  <1> USE DEF IInv
  <1> DEFINE k == seen.purge
  <1>1. /\ pc = "mark" /\ pc' = "purge" /\ UNCHANGED <<picture, detail, crashes, missed>>
        /\ k \in 1 .. 4 /\ seen.version < k /\ seen.version \in 0 .. 4
    BY FieldsTyped DEF Mark, At, Go, PurgeInv, Due
  <1>2. /\ disk'.tables = disk.tables /\ disk'.columns = disk.columns
        /\ disk'.indexes = disk.indexes /\ disk'.gems = disk.gems
        /\ disk'.version = k /\ disk' \in Disk
    BY <1>1 DEF Mark, TypeOK, Disk
  <1>3. /\ seen'.columns = seen.columns /\ seen'.version = seen.version
        /\ seen'.purge = k + 1 /\ seen' \in Seen
    BY <1>1 DEF Mark, TypeOK, Seen
  <1>4. TypeOK'
    BY <1>1, <1>2, <1>3 DEF TypeOK, Step
  <1>5. DiskInv'
    BY <1>1, <1>2 DEF DiskInv
  <1>6. DataInv'
    BY <1>1, <1>2 DEF DataInv, PurgeInv
  <1>7. SchemaInv'
    BY <1>1, <1>2, <1>3, Phases DEF SchemaInv
  <1>8. PurgeInv'
    BY <1>1, <1>2, <1>3, Phases DEF PurgeInv
  <1> QED BY <1>4, <1>5, <1>6, <1>7, <1>8

-----------------------------------------------------------------------------
(* The program at work, and its end.                                        *)

(* The image backfill writes a verified picture or none.                    *)
LEMMA LookUpPictureKeepsIInv ==
  ASSUME IInv, NEW a \in Artists, LookUpPicture(a)
  PROVE  IInv'
  <1> USE DEF IInv
  <1>1. /\ pc = "running" /\ UNCHANGED <<disk, detail, pc, seen, crashes, missed>>
        /\ picture' \in [Artists -> Pictures]
        /\ \A b \in Artists : picture'[b] \in {picture[b], "good", "nothing"}
    BY DEF LookUpPicture, At, TypeOK, Pictures
  <1>2. TypeOK' /\ DiskInv' /\ SchemaInv' /\ PurgeInv'
    BY <1>1 DEF TypeOK, DiskInv, SchemaInv, PurgeInv
  <1>3. {"good", "nothing"} \subseteq PicturesOf(disk.version)
    BY DEF PicturesOf
  <1>4. DataInv'
    BY <1>1, <1>3 DEF DataInv
  <1> QED BY <1>2, <1>4

(* A visit to an artist page fetches the whole discography.                 *)
LEMMA FetchDetailKeepsIInv ==
  ASSUME IInv, NEW d \in Discography, FetchDetail(d)
  PROVE  IInv'
  <1> USE DEF IInv
  <1>1. /\ pc = "running" /\ UNCHANGED <<disk, picture, pc, seen, crashes, missed>>
        /\ detail' \in [Discography -> Details]
        /\ \A b \in Discography : detail'[b] \in {detail[b], "complete"}
    BY DEF FetchDetail, At, TypeOK, Details
  <1>2. TypeOK' /\ DiskInv' /\ SchemaInv' /\ PurgeInv'
    BY <1>1 DEF TypeOK, DiskInv, SchemaInv, PurgeInv
  <1>3. "complete" \in DetailsOf(disk.version)
    BY DEF DetailsOf
  <1>4. DataInv'
    BY <1>1, <1>3 DEF DataInv
  <1> QED BY <1>2, <1>4

(* An orderly end leaves the disk as it is.                                 *)
LEMMA StopKeepsIInv == IInv /\ Stop => IInv'
  <1> SUFFICES ASSUME IInv, Stop PROVE IInv'
    OBVIOUS
  <1> USE DEF IInv, Stop, Go, At
  <1>1. TypeOK'
    BY DEF TypeOK, Step
  <1>2. DiskInv' /\ DataInv'
    BY DEF DiskInv, DataInv
  <1>3. SchemaInv' /\ PurgeInv'
    BY Phases DEF SchemaInv, PurgeInv
  <1> QED BY <1>1, <1>2, <1>3

(* The process dies with the disk as it is.                                 *)
LEMMA CrashKeepsIInv == IInv /\ Crash => IInv'
  <1> SUFFICES ASSUME IInv, Crash PROVE IInv'
    OBVIOUS
  <1> USE DEF IInv, Crash, Go
  <1>1. TypeOK'
    <2>1. crashes' \in 0 .. MaxCrashes
      BY DEF TypeOK
    <2>2. missed' \subseteq AlbumSteps
      BY DEF TypeOK
    <2> QED BY <2>1, <2>2 DEF TypeOK, Step
  <1>2. DiskInv'
    BY Phases DEF DiskInv, SchemaInv, At, AlbumSteps
  <1>3. DataInv'
    BY DEF DataInv
  <1>4. SchemaInv' /\ PurgeInv'
    BY Phases DEF SchemaInv, PurgeInv
  <1> QED BY <1>1, <1>2, <1>3, <1>4

(* Nothing the invariant speaks of changes when no variable does.           *)
LEMMA StutterKeepsIInv == IInv /\ UNCHANGED vars => IInv'
  BY DEF IInv, vars, TypeOK, DiskInv, DataInv, SchemaInv, PurgeInv, Due

(* Every step keeps the inductive invariant.                                *)
LEMMA NextKeepsIInv == IInv /\ [Next]_vars => IInv'
  <1> SUFFICES ASSUME IInv, [Next]_vars PROVE IInv'
    OBVIOUS
  <1>1. CASE Migrate
    BY <1>1, StartKeepsIInv, SchemaKeepsIInv, AlbumKeepsIInv, AddNameKeepsIInv, AddMbidKeepsIInv,
       DropOpenKeepsIInv, Open2KeepsIInv, ReadUsersKeepsIInv, AddPlexKeepsIInv,
       AddLastfmKeepsIInv, DeleteGemsKeepsIInv, ReadVersionKeepsIInv, PurgeKeepsIInv,
       MarkKeepsIInv DEF Migrate
  <1>2. ASSUME NEW a \in Artists, LookUpPicture(a) PROVE IInv'
    BY <1>2, LookUpPictureKeepsIInv
  <1>3. ASSUME NEW d \in Discography, FetchDetail(d) PROVE IInv'
    BY <1>3, FetchDetailKeepsIInv
  <1>4. CASE Stop \/ Crash
    BY <1>4, StopKeepsIInv, CrashKeepsIInv
  <1>5. CASE UNCHANGED vars
    BY <1>5, StutterKeepsIInv
  <1> QED BY <1>1, <1>2, <1>3, <1>4, <1>5 DEF Next

-----------------------------------------------------------------------------
(* Where an upgrade fails.                                                  *)

(* An ALTER fails when its column is there.  Only album_name is added under *)
(* the guard of another column; the two of users are guarded by themselves. *)
AlterInv ==
  /\ "album_name" \in disk.columns /\ "album_mbid" \notin disk.columns =>
       pc = "addMbid" \/ "addMbid" \in missed
  /\ pc \in {"addName", "addMbid"} => "album_mbid" \notin disk.columns
  /\ pc = "addPlex" /\ "plex_id" \in disk.columns => "plex_id" \in seen.columns
  /\ pc \in {"addPlex", "addLastfm"} /\ "lastfm_user" \in disk.columns =>
       "lastfm_user" \in seen.columns
  /\ pc = "failed" => "addMbid" \in missed

(* No release left one of the two album columns alone.                      *)
LEMMA InitAlterInv == Init => AlterInv
  <1> SUFFICES ASSUME Init PROVE AlterInv
    OBVIOUS
  <1>1. "album_name" \in disk.columns => "album_mbid" \in disk.columns
    BY DEF Init, Fresh, OldDisks, Release
  <1> QED BY <1>1 DEF Init, AlterInv

(* Every step keeps it.                                                     *)
LEMMA NextKeepsAlterInv == IInv /\ AlterInv /\ [Next]_vars => AlterInv'
  <1> SUFFICES ASSUME IInv, AlterInv, [Next]_vars PROVE AlterInv'
    OBVIOUS
  <1>1. TypeOK
    BY DEF IInv
  <1>2. CASE AddName
    <2>1. /\ UNCHANGED <<seen, missed>> /\ pc = "addName"
          /\ \/ "album_name" \in disk.columns /\ pc' = "failed" /\ disk'.columns = disk.columns
             \/ pc' = "addMbid" /\ disk'.columns = disk.columns \cup {"album_name"}
      BY <1>1, <1>2, AddColumnAdds DEF AddName, AddColumn, At, Columns, Step
    <2> QED BY <2>1 DEF AlterInv
  <1>3. CASE AddMbid
    <2>1. /\ UNCHANGED <<seen, missed>> /\ pc = "addMbid"
          /\ \/ "album_mbid" \in disk.columns
             \/ pc' = "dropOpen" /\ disk'.columns = disk.columns \cup {"album_mbid"}
      BY <1>1, <1>3, AddColumnAdds DEF AddMbid, AddColumn, At, Columns, Step
    <2> QED BY <2>1 DEF AlterInv
  <1>4. CASE AddPlex
    <2>1. CASE "plex_id" \in seen.columns
      BY <1>4, <2>1 DEF AddPlex, AddUserColumn, At, Go, AlterInv
    <2>2. CASE "plex_id" \notin seen.columns
      <3>1. /\ UNCHANGED <<seen, missed>> /\ pc = "addPlex"
            /\ \/ "plex_id" \in disk.columns
               \/ pc' = "addLastfm" /\ disk'.columns = disk.columns \cup {"plex_id"}
        BY <1>1, <1>4, <2>2, AddColumnAdds DEF AddPlex, AddUserColumn, AddColumn, At, Columns, Step
      <3> QED BY <2>2, <3>1 DEF AlterInv
    <2> QED BY <2>1, <2>2
  <1>5. CASE AddLastfm
    <2>1. CASE "lastfm_user" \in seen.columns
      BY <1>5, <2>1 DEF AddLastfm, AddUserColumn, At, Go, AlterInv
    <2>2. CASE "lastfm_user" \notin seen.columns
      <3>1. /\ UNCHANGED <<seen, missed>> /\ pc = "addLastfm"
            /\ \/ "lastfm_user" \in disk.columns
               \/ pc' = "gems" /\ disk'.columns = disk.columns \cup {"lastfm_user"}
        BY <1>1, <1>5, <2>2, AddColumnAdds
        DEF AddLastfm, AddUserColumn, AddColumn, At, Columns, Step
      <3> QED BY <2>2, <3>1 DEF AlterInv
    <2> QED BY <2>1, <2>2
  <1>6. CASE Crash
    <2>1. disk' = disk /\ pc' = "down" /\ missed \subseteq missed'
          /\ (pc = "addMbid" => "addMbid" \in missed')
      BY <1>6 DEF Crash, Go, At, AlbumSteps
    <2> QED BY <2>1 DEF AlterInv
  <1>7. CASE Schema \/ DropOpen \/ Open2 \/ DeleteGems \/ Mark
    <2>1. disk'.columns = disk.columns /\ UNCHANGED missed
      BY <1>1, <1>7 DEF Schema, DropOpen, Open2, DeleteGems, Mark, TypeOK, Disk
    <2>2. /\ pc \notin {"addName", "addMbid"}
          /\ pc' \in {"album", "open2", "users", "version", "purge"}
      BY <1>7 DEF Schema, DropOpen, Open2, DeleteGems, Mark, At, Go
    <2> QED BY <2>1, <2>2 DEF AlterInv
  <1>8. CASE Start \/ Album \/ ReadVersion \/ Purge \/ Stop
    <2>1. UNCHANGED <<disk, missed>> /\ pc # "addMbid"
      BY <1>8 DEF Start, Album, ReadVersion, Purge, Stop, At
    <2>2. /\ pc' \notin {"failed", "addMbid", "addPlex", "addLastfm"}
          /\ pc' = "addName" => "album_mbid" \notin disk.columns
      BY <1>8 DEF Start, Album, ReadVersion, Purge, Stop, At, Go
    <2> QED BY <2>1, <2>2 DEF AlterInv
  <1>9. CASE ReadUsers
    <2>1. /\ UNCHANGED <<disk, missed>> /\ pc = "users" /\ pc' = "addPlex"
          /\ seen'.columns = disk.columns
      BY <1>1, <1>9 DEF ReadUsers, At, Go, TypeOK, Seen
    <2> QED BY <2>1 DEF AlterInv
  <1>10. CASE UNCHANGED <<disk, pc, seen, missed>>
    BY <1>10 DEF AlterInv
  <1>11. ASSUME NEW a \in Artists, LookUpPicture(a) PROVE AlterInv'
    BY <1>10, <1>11 DEF LookUpPicture
  <1>12. ASSUME NEW d \in Discography, FetchDetail(d) PROVE AlterInv'
    BY <1>10, <1>12 DEF FetchDetail
  <1>13. CASE UNCHANGED vars
    BY <1>10, <1>13 DEF vars
  <1> QED BY <1>2, <1>3, <1>4, <1>5, <1>6, <1>7, <1>8, <1>9, <1>11, <1>12, <1>13
          DEF Next, Migrate

-----------------------------------------------------------------------------
(* The theorems.                                                            *)

(* The invariant holds in every reachable state: for every release the      *)
(* database may come from, and crashes between any two statements.          *)
THEOREM MigrationInvariance == Spec => []IInv
  BY InitIInv, NextKeepsIInv, PTL DEF Spec

(* Disk, data and local variables keep their types.                         *)
THEOREM MigrationTypes == Spec => []TypeOK
  <1>1. IInv => TypeOK
    BY DEF IInv
  <1> QED BY <1>1, MigrationInvariance, PTL

(* A process that serves has the whole schema and none of the data an       *)
(* upgrade was to remove (store.go Open and migrate), however often and     *)
(* wherever earlier starts died; the old index on open requests stays just  *)
(* where a process died between ADD album_mbid and DROP INDEX.              *)
THEOREM UpgradeComplete == Spec => []ServesUpgraded
  <1>1. IInv => ServesUpgraded
    <2> SUFFICES ASSUME IInv, pc = "running"
                 PROVE  /\ disk.tables /\ disk.columns = Columns
                        /\ disk.indexes = {"open2"} \cup {i \in {"open"} : "dropOpen" \in missed}
                        /\ disk.version = schemaVersion /\ ~disk.gems
                        /\ \A a \in Artists : picture[a] \notin {"wrong", "blank", "emptyHash"}
                        /\ \A d \in Discography : detail[d] # "truncated"
      BY DEF ServesUpgraded
    <2> USE DEF IInv
    <2>1. /\ disk.tables /\ ~disk.gems /\ "open2" \in disk.indexes
          /\ {"album_name", "album_mbid", "plex_id", "lastfm_user"} \subseteq disk.columns
      BY Phases DEF SchemaInv
    <2>2. disk.columns = Columns
      BY <2>1, FieldsTyped DEF Columns
    <2>3. disk.indexes = {"open2"} \cup {i \in {"open"} : "dropOpen" \in missed}
      BY <2>1, FieldsTyped DEF DiskInv
    <2>4. disk.version = schemaVersion
      BY FieldsTyped, Phases DEF PurgeInv
    <2>5. /\ \A a \in Artists : picture[a] \notin {"wrong", "blank", "emptyHash"}
          /\ \A d \in Discography : detail[d] # "truncated"
      BY <2>4 DEF DataInv, PicturesOf, DetailsOf
    <2> QED BY <2>1, <2>2, <2>3, <2>4, <2>5
  <1> QED BY <1>1, MigrationInvariance, PTL

(* migrate never returns an error unless a crash had kept album_mbid from   *)
(* following album_name (store.go:64-79): neither a release's database, nor *)
(* a crash between any other two statements, makes a later start fail.  The *)
(* safety half of OpensInTheEnd.                                            *)
THEOREM FailsOnlyHalfAlbum == Spec => [](pc = "failed" => "addMbid" \in missed)
  <1>1. AlterInv => (pc = "failed" => "addMbid" \in missed)
    BY DEF AlterInv
  <1> QED BY <1>1, InitAlterInv, NextKeepsAlterInv, MigrationInvariance, PTL DEF Spec

(* No start throws away a picture or a discography that the release on disk *)
(* got right (migrate's purges and PRAGMA user_version); pictures of before *)
(* version 2 are the exception, they were all found by an unverified search.*)
THEOREM PurgesTheStale == Spec => PurgesOnlyStale
  <1> DEFINE Kept ==
        pc # "running" =>
          /\ \A a \in Artists : picture'[a] # picture[a] =>
               picture'[a] = "none" /\ (disk.version < 2 \/ picture[a] \in {"blank", "emptyHash"})
          /\ \A d \in Discography : detail'[d] # detail[d] => disk.version < 1
  <1>1. IInv /\ [Next]_vars => [Kept]_vars
    <2> SUFFICES ASSUME IInv, Next, pc # "running" PROVE Kept
      BY DEF Kept
    <2>1. CASE Purge
      <3> DEFINE k == seen.purge
      <3>1. CASE UNCHANGED <<picture, detail>>
        BY <3>1
      <3>2. CASE k <= schemaVersion /\ Due(k)
        <4>1. /\ picture' = [a \in Artists |-> AfterPurge(k, picture[a])]
              /\ detail' = IF k = 1 THEN [d \in Discography |-> "none"] ELSE detail
          BY <2>1, <3>2, FieldsTyped DEF Purge, IInv
        <4>2. k \in 1 .. 4 /\ disk.version = k - 1
          BY <2>1, <3>2, DuePurge DEF Purge
        <4> HIDE DEF k
        <4>3. \A a \in Artists : picture'[a] # picture[a] =>
                picture'[a] = "none" /\ (disk.version < 2 \/ picture[a] \in {"blank", "emptyHash"})
          <5> SUFFICES ASSUME NEW a \in Artists, picture'[a] # picture[a]
                       PROVE  picture'[a] = "none"
                              /\ (disk.version < 2 \/ picture[a] \in {"blank", "emptyHash"})
            OBVIOUS
          <5>1. picture[a] \in PicturesOf(k - 1) /\ picture'[a] = AfterPurge(k, picture[a])
            BY <4>1, <4>2 DEF IInv, DataInv
          <5> QED BY <4>2, <5>1, PurgeBringsForward
        <4>4. \A d \in Discography : detail'[d] # detail[d] => disk.version < 1
          BY <4>1, <4>2
        <4> QED BY <4>3, <4>4
      <3> QED BY <2>1, <3>1, <3>2, FieldsTyped DEF Purge, IInv
    <2>2. CASE ~Purge
      <3>1. UNCHANGED <<picture, detail>>
        BY <2>2 DEF Next, Migrate, LookUpPicture, FetchDetail, At, Stop, Crash, Start, Schema,
                    Album, AddName, AddMbid, AddColumn, DropOpen, Open2, ReadUsers, AddPlex,
                    AddLastfm, AddUserColumn, DeleteGems, ReadVersion, Mark
      <3> QED BY <3>1
    <2> QED BY <2>1, <2>2
  <1>2. [][Next]_vars /\ []IInv => [][Kept]_vars
    BY <1>1, PTL
  <1>3. Spec => [][Kept]_vars
    BY <1>2, MigrationInvariance, PTL DEF Spec
  <1> QED BY <1>3 DEF PurgesOnlyStale, Kept

HIDE MigrationAssumption DEF schemaVersion, Versions
-----------------------------------------------------------------------------
(* The libraries of the instances.                                          *)

(* A library is that of the instance with its id: DELETE cascades, and the  *)
(* foreign key refuses a list for an instance that is gone.                 *)
LibraryInv == \A i \in Ids : lib[i] # NoList => i \in Used

(* A copy of a row held by an edit or a sync is of the instance that has    *)
(* the id, unless that was deleted under it.                                *)
Fitting(c) == c.id \notin exposed => c.id \in Used /\ row[c.id].born = c.of
EditInv == \A e \in Edits : edit[e] # NoEdit => Fitting(edit[e])
SyncInv ==
  \A s \in Syncs :
    /\ \A c \in sync[s].todo : Fitting(c)
    /\ sync[s].answer # NoAnswer => sync[s].todo # {}

LibraryIInv == LibraryTypeOK /\ OwnLibrary /\ LibraryInv /\ EditInv /\ SyncInv
-----------------------------------------------------------------------------
(* Least and largest ids.                                                   *)

(* A set of ids that is not empty has a smallest one: the sets of smaller   *)
(* ids are well-ordered by inclusion.                                       *)
LEMMA HasFirst ==
  ASSUME NEW n \in Nat, NEW S \in SUBSET (1 .. n), S # {}
  PROVE  \E m \in S : \A i \in S : m <= i
  <1> DEFINE Below(m) == {i \in S : i < m}
             T == {Below(m) : m \in S}
             R == StrictSubsetOrdering(S)
  <1>1. IsWellFoundedOn(R, SUBSET S)
    <2>1. IsFiniteSet(1 .. n)
      <3>1. 1 \in Int /\ n \in Int
        OBVIOUS
      <3> QED BY <3>1, FS_Interval
    <2>2. IsFiniteSet(S)
      BY <2>1, FS_Subset
    <2>3. FiniteSubsetsOf(S) = SUBSET S
      BY <2>2, FS_FiniteSubsetsOfFinite
    <2> QED BY <2>3, FS_StrictSubsetOrderingWellFounded
  <1>2. T \subseteq SUBSET S /\ T # {}
    OBVIOUS
  <1>3. \E x \in T : \A y \in T : ~ (<<y, x>> \in R)
    <2> HIDE DEF T, R
    <2> QED BY <1>1, <1>2, WFMin
  <1>4. PICK m \in S : \A k \in S : ~ (<<Below(k), Below(m)>> \in R)
    BY <1>3
  <1>5. ASSUME NEW i \in S, i < m PROVE FALSE
    <2>1. \A k \in S : k \in Int
      OBVIOUS
    <2>2. Below(i) \subseteq Below(m)
      <3>1. \A k \in S : k < i => k < m
        BY <1>5, <2>1
      <3> QED BY <3>1
    <2>3. i \in Below(m) /\ i \notin Below(i)
      BY <1>5, <2>1
    <2>4. <<Below(i), Below(m)>> \in R
      BY <2>2, <2>3 DEF StrictSubsetOrdering
    <2> QED BY <1>4, <2>4
  <1>6. \A i \in S : i \in Nat /\ m \in Nat
    OBVIOUS
  <1> QED BY <1>5, <1>6

(* And a largest one.                                                       *)
LEMMA HasLast ==
  ASSUME NEW n \in Nat, NEW S \in SUBSET (1 .. n), S # {}
  PROVE  \E m \in S : \A i \in S : i <= m
  <1> DEFINE T == {n + 1 - i : i \in S}
  <1>1. T \in SUBSET (1 .. n) /\ T # {}
    <2>1. \A i \in S : i \in 1 .. n /\ n + 1 - i \in 1 .. n
      OBVIOUS
    <2> QED BY <2>1
  <1>2. PICK k \in T : \A j \in T : k <= j
    BY <1>1, HasFirst
  <1>3. k \in T
    BY <1>2
  <1>4. PICK m \in S : k = n + 1 - m
    BY <1>3
  <1>5. \A i \in S : n + 1 - m <= n + 1 - i
    BY <1>2, <1>4
  <1> QED BY <1>5

-----------------------------------------------------------------------------
USE LibraryAssumption DEF ConstantsAssumption

(* An INSERT gets an id that no row has.                                    *)
LEMMA NextIdIsFree == NextId \notin Used
  <1>1. CASE Used = {}
    BY <1>1
  <1>2. CASE Used # {}
    <2> DEFINE m == CHOOSE i \in Used : \A j \in Used : j <= i
    <2>1. Used \in SUBSET (1 .. MaxId)
      BY DEF Used, Ids
    <2>2. m \in Used /\ \A j \in Used : j <= m
      BY <1>2, <2>1, HasLast
    <2>3. NextId = 1 + m
      BY <1>2 DEF NextId
    <2> HIDE DEF m
    <2>4. m \in Int /\ (1 + m \in Used => 1 + m <= m)
      BY <2>1, <2>2
    <2> QED BY <2>3, <2>4
  <1> QED BY <1>1, <1>2

(* The first copy of a sync that has some is one of them (ORDER BY id).     *)
LEMMA FirstIsHeld ==
  ASSUME LibraryTypeOK, NEW s \in Syncs, sync[s].todo # {}
  PROVE  First(s) \in sync[s].todo /\ First(s) \in Copy
  <1> DEFINE S == {c.id : c \in sync[s].todo}
  <1>1. sync[s].todo \subseteq Copy
    BY DEF LibraryTypeOK, Sync
  <1>2. S \in SUBSET (1 .. MaxId) /\ S # {}
    BY <1>1 DEF Copy, Ids
  <1>3. PICK m \in S : \A i \in S : m <= i
    BY <1>2, HasFirst
  <1>4. PICK c \in sync[s].todo : c.id = m
    OBVIOUS
  <1>5. \A d \in sync[s].todo : c.id <= d.id
    BY <1>3, <1>4
  <1>6. First(s) \in sync[s].todo
    BY <1>5 DEF First
  <1> QED BY <1>1, <1>6

(* Nothing there is not something.                                          *)
LEMMA NothingTyped ==
  /\ NoRow \notin Row /\ NoList \notin List /\ NoEdit \notin Edit
  /\ Idle \in Sync /\ NoAnswer \notin Nat
  /\ \A c \in Copy : c.id \in Ids /\ c.url \in Urls /\ c.of \in 1 .. MaxBorn
  /\ \A r \in Row : r.url \in Urls /\ r.born \in 1 .. MaxBorn /\ r.active \in BOOLEAN
  /\ \A d \in Edit : d.id \in Ids /\ d.url \in Urls /\ d.of \in 1 .. MaxBorn /\ d.active \in BOOLEAN
  BY DEF NoRow, Row, NoList, List, NoEdit, Edit, Idle, Sync, Copy, NoAnswer

(* An empty database, no edit and no sync.                                  *)
LEMMA InitLibraryIInv == LibraryInit => LibraryIInv
  <1> SUFFICES ASSUME LibraryInit PROVE LibraryIInv
    OBVIOUS
  <1> USE DEF LibraryInit
  <1>1. LibraryTypeOK
    <2>1. /\ row \in [Ids -> Row \cup {NoRow}] /\ lib \in [Ids -> List \cup {NoList}]
          /\ edit \in [Edits -> Edit \cup {NoEdit}] /\ sync \in [Syncs -> Sync]
      BY NothingTyped
    <2>2. stock \in [Urls -> 0 .. MaxStock] /\ born \in 0 .. MaxBorn /\ exposed \subseteq Ids
      OBVIOUS
    <2> QED BY <2>1, <2>2 DEF LibraryTypeOK
  <1>2. OwnLibrary /\ LibraryInv /\ EditInv /\ SyncInv
    BY DEF OwnLibrary, LibraryInv, EditInv, SyncInv, Used, Idle
  <1> QED BY <1>1, <1>2 DEF LibraryIInv

(* Copies go on fitting while no row changes but in what a copy may set.    *)
LEMMA FittingFrame ==
  ASSUME LibraryTypeOK, exposed' = exposed, \A i \in Used : i \in Used' /\ row'[i].born = row[i].born,
         NEW c, Fitting(c)
  PROVE  Fitting(c)'
  BY DEF Fitting

-----------------------------------------------------------------------------
(* Instances.                                                               *)

(* POST: a row with an id of its own and no library yet.                    *)
LEMMA CreateKeepsIInv ==
  ASSUME LibraryIInv, NEW u \in Urls, NEW active \in BOOLEAN, Create(u, active)
  PROVE  LibraryIInv'
  <1> USE DEF LibraryIInv
  <1> DEFINE i == NextId
             r == [url |-> u, active |-> active, born |-> born', of |-> born']
  <1>1. /\ i \in Ids /\ i \notin Used /\ born' = born + 1 /\ born' \in 1 .. MaxBorn
        /\ row' = [row EXCEPT ![i] = r] /\ UNCHANGED <<lib, edit, sync, stock, exposed>>
    <2>1. born \in 0 .. MaxBorn /\ born < MaxBorn /\ born' = born + 1
      BY DEF Create, LibraryTypeOK
    <2> QED BY <2>1, NextIdIsFree DEF Create
  <1> HIDE DEF i
  <1>2. r \in Row /\ r.born = r.of /\ r # NoRow
    BY <1>1, NothingTyped DEF Row
  <1> HIDE DEF r
  <1>3. /\ row' \in [Ids -> Row \cup {NoRow}]
        /\ row'[i] = r /\ \A j \in Ids \ {i} : row'[j] = row[j]
    BY <1>1, <1>2 DEF LibraryTypeOK
  <1>4. Used' = Used \cup {i} /\ \A j \in Used : row'[j] = row[j]
    BY <1>1, <1>2, <1>3 DEF Used
  <1>5. LibraryTypeOK'
    BY <1>1, <1>3 DEF LibraryTypeOK
  <1>6. LibraryInv'
    BY <1>1, <1>4 DEF LibraryInv
  <1>7. OwnLibrary'
    <2>1. lib[i] = NoList
      BY <1>1 DEF LibraryInv
    <2> QED BY <1>1, <1>2, <1>3, <1>4, <2>1 DEF OwnLibrary
  <1>8. EditInv' /\ SyncInv'
    BY <1>1, <1>4, FittingFrame DEF EditInv, SyncInv
  <1> QED BY <1>5, <1>6, <1>7, <1>8

(* PUT reads the row it will write over.                                    *)
LEMMA EditBeginKeepsIInv ==
  ASSUME LibraryIInv, NEW e \in Edits, NEW i \in Ids, NEW u \in Urls, NEW active \in BOOLEAN,
         EditBegin(e, i, u, active)
  PROVE  LibraryIInv'
  <1> USE DEF LibraryIInv
  <1> DEFINE d == [id |-> i, url |-> u, active |-> active, of |-> row[i].born]
  <1>1. /\ i \in Used /\ edit' = [edit EXCEPT ![e] = d]
        /\ UNCHANGED <<row, lib, sync, stock, born, exposed>>
    BY DEF EditBegin
  <1>2. row[i] \in Row
    BY <1>1 DEF LibraryTypeOK, Used
  <1>3. d \in Edit /\ d.id = i /\ d.of = row[i].born
    BY <1>2, NothingTyped DEF Edit
  <1> HIDE DEF d
  <1>4. /\ edit' \in [Edits -> Edit \cup {NoEdit}]
        /\ \A f \in Edits : edit'[f] = IF f = e THEN d ELSE edit[f]
    BY <1>1, <1>3 DEF LibraryTypeOK
  <1>5. LibraryTypeOK'
    BY <1>1, <1>4 DEF LibraryTypeOK
  <1>6. OwnLibrary' /\ LibraryInv' /\ SyncInv'
    BY <1>1 DEF OwnLibrary, LibraryInv, SyncInv, Fitting, Used
  <1>7. EditInv'
    BY <1>1, <1>3, <1>4 DEF EditInv, Fitting, Used
  <1> QED BY <1>5, <1>6, <1>7

(* ... and writes it by id: a copy that still fits writes its own row.      *)
LEMMA EditWriteKeepsIInv ==
  ASSUME LibraryIInv, NEW e \in Edits, EditWrite(e)
  PROVE  LibraryIInv'
  <1> USE DEF LibraryIInv
  <1> DEFINE d == edit[e]
  <1>1. /\ edit' = [edit EXCEPT ![e] = NoEdit] /\ UNCHANGED <<lib, sync, stock, born, exposed>>
        /\ d \in Edit /\ d # NoEdit
    BY DEF EditWrite, LibraryTypeOK
  <1>2. edit' \in [Edits -> Edit \cup {NoEdit}] /\ \A f \in Edits : edit'[f] \in {edit[f], NoEdit}
    BY <1>1 DEF LibraryTypeOK
  <1>3. CASE d.id \in Used /\ ~Taken(d.url, d.id)
    <2> DEFINE i == d.id
               r == [row[i] EXCEPT !.url = d.url, !.active = d.active, !.of = d.of]
    <2>1. row' = [row EXCEPT ![i].url = d.url, ![i].active = d.active, ![i].of = d.of]
      BY <1>3 DEF EditWrite
    <2>2. i \in Ids /\ row[i] \in Row
      BY <1>3 DEF LibraryTypeOK, Used
    <2>3. r \in Row /\ r.born = row[i].born /\ r.of = d.of /\ r # NoRow
      BY <1>1, <2>2, NothingTyped DEF Row
    <2>4. row' = [row EXCEPT ![i] = r]
      BY <2>1, <2>2 DEF LibraryTypeOK
    <2> HIDE DEF r
    <2>5. /\ row' \in [Ids -> Row \cup {NoRow}]
          /\ row'[i] = r /\ \A j \in Ids \ {i} : row'[j] = row[j]
      BY <2>2, <2>3, <2>4 DEF LibraryTypeOK
    <2>6. Used' = Used /\ \A j \in Used : row'[j].born = row[j].born
      BY <1>3, <2>3, <2>5 DEF Used
    <2>7. LibraryTypeOK'
      BY <1>1, <1>2, <2>5 DEF LibraryTypeOK
    <2>8. LibraryInv' /\ EditInv' /\ SyncInv'
      BY <1>1, <1>2, <2>6, FittingFrame DEF LibraryInv, EditInv, SyncInv
    <2>9. OwnLibrary'
      <3>1. i \notin exposed => row[i].born = d.of
        BY <1>1 DEF EditInv, Fitting
      <3> QED BY <1>1, <2>3, <2>5, <2>6, <3>1 DEF OwnLibrary, Used
    <2> QED BY <2>7, <2>8, <2>9
  <1>4. CASE ~(d.id \in Used /\ ~Taken(d.url, d.id))
    <2>1. row' = row
      BY <1>4 DEF EditWrite
    <2>2. LibraryTypeOK'
      BY <1>1, <1>2, <2>1 DEF LibraryTypeOK
    <2>3. OwnLibrary' /\ LibraryInv' /\ EditInv' /\ SyncInv'
      BY <1>1, <1>2, <2>1 DEF OwnLibrary, LibraryInv, EditInv, SyncInv, Fitting, Used
    <2> QED BY <2>2, <2>3
  <1> QED BY <1>3, <1>4

(* DELETE takes the library with it; whoever held a copy exposes the id.    *)
LEMMA DeleteKeepsIInv ==
  ASSUME LibraryIInv, NEW i \in Ids, Delete(i)
  PROVE  LibraryIInv'
  <1> USE DEF LibraryIInv
  <1>1. /\ row' = [row EXCEPT ![i] = NoRow] /\ lib' = [lib EXCEPT ![i] = NoList]
        /\ exposed' = IF Held(i) THEN exposed \cup {i} ELSE exposed
        /\ UNCHANGED <<edit, sync, stock, born>>
    BY DEF Delete
  <1>2. LibraryTypeOK'
    BY <1>1 DEF LibraryTypeOK
  <1>3. /\ row'[i] = NoRow /\ lib'[i] = NoList
        /\ \A j \in Ids \ {i} : row'[j] = row[j] /\ lib'[j] = lib[j]
        /\ Used' = Used \ {i} /\ exposed \subseteq exposed'
    BY <1>1 DEF LibraryTypeOK, Used
  <1>4. LibraryInv'
    BY <1>3 DEF LibraryInv
  <1>5. OwnLibrary'
    BY <1>3 DEF OwnLibrary, Used
  (* a copy of another row fits as before, and one of this row is excused   *)
  <1>6. ASSUME NEW c, Fitting(c), c.id = i => Held(i) PROVE Fitting(c)'
    BY <1>1, <1>3, <1>6 DEF Fitting, Used
  <1>7. EditInv'
    BY <1>1, <1>6 DEF EditInv, Held
  <1>8. SyncInv'
    BY <1>1, <1>6 DEF SyncInv, Held
  <1> QED BY <1>2, <1>4, <1>5, <1>7, <1>8

-----------------------------------------------------------------------------
(* Syncs.                                                                   *)

(* What a step of one sync has to keep, when it leaves the rows alone.      *)
LEMMA SyncStepKeeps ==
  ASSUME LibraryIInv, NEW s \in Syncs, NEW q \in Sync, sync' = [sync EXCEPT ![s] = q],
         UNCHANGED <<row, edit, stock, born, exposed>>,
         \A c \in q.todo : Fitting(c), q.answer # NoAnswer => q.todo # {},
         lib' \in [Ids -> List \cup {NoList}], LibraryInv', OwnLibrary'
  PROVE  LibraryIInv'
  <1> USE DEF LibraryIInv
  <1>1. sync' \in [Syncs -> Sync] /\ \A p \in Syncs : sync'[p] = IF p = s THEN q ELSE sync[p]
    BY DEF LibraryTypeOK
  <1>2. LibraryTypeOK'
    BY <1>1 DEF LibraryTypeOK
  <1>3. EditInv'
    BY DEF EditInv, Fitting, Used
  <1>4. SyncInv'
    BY <1>1 DEF SyncInv, Fitting, Used
  <1> QED BY <1>2, <1>3, <1>4

(* A sync copies the active instances.                                      *)
LEMMA SyncBeginKeepsIInv ==
  ASSUME LibraryIInv, NEW s \in Syncs, SyncBegin(s)
  PROVE  LibraryIInv'
  <1> USE DEF LibraryIInv
  <1> DEFINE all == {[id |-> i, url |-> row[i].url, of |-> row[i].born] :
                        i \in {j \in Used : row[j].active}}
             q == [on |-> TRUE, todo |-> all, answer |-> NoAnswer]
  <1>1. /\ sync' = [sync EXCEPT ![s] = q] /\ UNCHANGED <<row, lib, edit, stock, born, exposed>>
    BY DEF SyncBegin
  <1>2. all \subseteq Copy /\ \A c \in all : c.id \in Used /\ c.of = row[c.id].born
    <2>1. \A i \in Used : i \in Ids /\ row[i].url \in Urls /\ row[i].born \in 1 .. MaxBorn
      BY NothingTyped DEF LibraryTypeOK, Used
    <2> QED BY <2>1 DEF Copy
  <1> HIDE DEF all
  <1>3. q \in Sync /\ q.todo = all /\ q.answer = NoAnswer
    BY <1>2 DEF Sync
  <1> HIDE DEF q
  <1>4. lib' \in [Ids -> List \cup {NoList}] /\ LibraryInv' /\ OwnLibrary'
    BY <1>1 DEF LibraryTypeOK, LibraryInv, OwnLibrary, Used
  <1>5. \A c \in q.todo : Fitting(c)
    BY <1>2, <1>3 DEF Fitting
  <1> QED BY <1>1, <1>3, <1>4, <1>5, SyncStepKeeps

(* The server of the first copy answers.                                    *)
LEMMA AnsweredKeepsIInv ==
  ASSUME LibraryIInv, NEW s \in Syncs, Answered(s)
  PROVE  LibraryIInv'
  <1> USE DEF LibraryIInv
  <1> DEFINE q == [sync[s] EXCEPT !.answer = stock[First(s).url]]
  <1>1. /\ sync' = [sync EXCEPT ![s] = q] /\ UNCHANGED <<row, lib, edit, stock, born, exposed>>
        /\ sync[s].todo # {} /\ sync[s] \in Sync
    BY DEF Answered, LibraryTypeOK
  <1>2. First(s) \in Copy
    BY <1>1, FirstIsHeld
  <1>3. stock[First(s).url] \in 0 .. MaxStock
    BY <1>2, NothingTyped DEF LibraryTypeOK
  <1>4. q \in Sync /\ q.todo = sync[s].todo
    BY <1>1, <1>3 DEF Sync
  <1> HIDE DEF q
  <1>5. lib' \in [Ids -> List \cup {NoList}] /\ LibraryInv' /\ OwnLibrary'
    BY <1>1 DEF LibraryTypeOK, LibraryInv, OwnLibrary, Used
  <1>6. \A c \in q.todo : Fitting(c)
    BY <1>4 DEF SyncInv
  <1> QED BY <1>1, <1>4, <1>5, <1>6, SyncStepKeeps

(* It does not: the next instance's turn.                                   *)
LEMMA FailedKeepsIInv ==
  ASSUME LibraryIInv, NEW s \in Syncs, Failed(s)
  PROVE  LibraryIInv'
  <1> USE DEF LibraryIInv
  <1> DEFINE q == [sync[s] EXCEPT !.todo = @ \ {First(s)}]
  <1>1. /\ sync' = [sync EXCEPT ![s] = q] /\ UNCHANGED <<row, lib, edit, stock, born, exposed>>
        /\ sync[s] \in Sync /\ sync[s].answer = NoAnswer
    BY DEF Failed, LibraryTypeOK
  <1>2. q \in Sync /\ q.todo \subseteq sync[s].todo /\ q.answer = NoAnswer
    BY <1>1 DEF Sync
  <1> HIDE DEF q
  <1>3. lib' \in [Ids -> List \cup {NoList}] /\ LibraryInv' /\ OwnLibrary'
    BY <1>1 DEF LibraryTypeOK, LibraryInv, OwnLibrary, Used
  <1>4. \A c \in q.todo : Fitting(c)
    BY <1>2 DEF SyncInv
  <1> QED BY <1>1, <1>2, <1>3, <1>4, SyncStepKeeps

(* A sync that ends, or that gives up, holds no copies.                     *)
LEMMA GiveUpKeepsIInv ==
  ASSUME LibraryIInv, NEW s \in Syncs, sync' = [sync EXCEPT ![s] = Idle],
         UNCHANGED <<row, lib, edit, stock, born, exposed>>
  PROVE  LibraryIInv'
  <1>1. lib' \in [Ids -> List \cup {NoList}] /\ LibraryInv' /\ OwnLibrary'
    BY DEF LibraryIInv, LibraryTypeOK, LibraryInv, OwnLibrary, Used
  <1>2. Idle.todo = {} /\ Idle.answer = NoAnswer
    BY DEF Idle
  <1> QED BY <1>1, <1>2, NothingTyped, SyncStepKeeps

(* ReplaceLibrary writes the answer under the id of the copy, which is      *)
(* still that instance's, or exposed.                                       *)
LEMMA ReplaceKeepsIInv ==
  ASSUME LibraryIInv, NEW s \in Syncs, Replace(s)
  PROVE  LibraryIInv'
  <1> USE DEF LibraryIInv
  <1> DEFINE c == First(s)
             list == sync[s].answer
             l == IF list = 0 THEN NoList ELSE [url |-> c.url, at |-> list, of |-> c.of]
             q == [sync[s] EXCEPT !.todo = @ \ {c}, !.answer = NoAnswer]
  <1>1. /\ UNCHANGED <<row, edit, stock, born, exposed>>
        /\ sync[s] \in Sync /\ list \in 0 .. MaxStock /\ c \in sync[s].todo /\ c \in Copy
    <2>1. sync[s] \in Sync /\ list # NoAnswer
      BY DEF Replace, LibraryTypeOK
    <2>2. sync[s].todo # {}
      BY <2>1 DEF SyncInv
    <2> QED BY <2>1, <2>2, FirstIsHeld DEF Replace, Sync
  <1>2. CASE Refused(c, list)
    BY <1>1, <1>2, GiveUpKeepsIInv DEF Replace
  <1>3. CASE ~Refused(c, list)
    <2>1. lib' = [lib EXCEPT ![c.id] = l]
      BY <1>3 DEF Replace
    <2>2. sync' = [sync EXCEPT ![s] = q]
      BY <1>3 DEF Replace, LibraryTypeOK
    <2>3. q \in Sync /\ q.todo \subseteq sync[s].todo /\ q.answer = NoAnswer
      BY <1>1 DEF Sync
    <2>4. /\ l \in List \cup {NoList}
          /\ l # NoList => l.of = c.of /\ c.id \in Used
      BY <1>1, <1>3, NothingTyped DEF List, Refused
    <2>5. c.id \in Ids /\ Fitting(c)
      BY <1>1, NothingTyped DEF SyncInv
    <2> HIDE DEF q, l, c
    <2>6. /\ lib' \in [Ids -> List \cup {NoList}] /\ lib'[c.id] = l
          /\ \A i \in Ids \ {c.id} : lib'[i] = lib[i]
      BY <2>1, <2>4, <2>5 DEF LibraryTypeOK
    <2>7. LibraryInv'
      BY <1>1, <2>4, <2>6 DEF LibraryInv, Used
    <2>8. OwnLibrary'
      BY <1>1, <2>4, <2>5, <2>6 DEF OwnLibrary, Fitting, Used
    <2>9. \A d \in q.todo : Fitting(d)
      BY <2>3 DEF SyncInv
    <2> QED BY <1>1, <2>2, <2>3, <2>6, <2>7, <2>8, <2>9, SyncStepKeeps
  <1> QED BY <1>2, <1>3

-----------------------------------------------------------------------------
(* Every step keeps the inductive invariant.                                *)
LEMMA NextKeepsLibraryIInv == LibraryIInv /\ [LibraryNext]_libraryVars => LibraryIInv'
  <1> SUFFICES ASSUME LibraryIInv, [LibraryNext]_libraryVars PROVE LibraryIInv'
    OBVIOUS
  <1>1. ASSUME NEW u \in Urls, NEW active \in BOOLEAN, Create(u, active) PROVE LibraryIInv'
    BY <1>1, CreateKeepsIInv
  <1>2. ASSUME NEW e \in Edits, NEW i \in Ids, NEW u \in Urls, NEW active \in BOOLEAN,
               EditBegin(e, i, u, active)
        PROVE  LibraryIInv'
    BY <1>2, EditBeginKeepsIInv
  <1>3. ASSUME NEW e \in Edits, EditWrite(e) PROVE LibraryIInv'
    BY <1>3, EditWriteKeepsIInv
  <1>4. ASSUME NEW i \in Ids, Delete(i) PROVE LibraryIInv'
    BY <1>4, DeleteKeepsIInv
  <1>5. ASSUME NEW s \in Syncs, SyncBegin(s) \/ SyncStep(s) PROVE LibraryIInv'
    <2>1. CASE SyncEnd(s)
      BY <2>1, GiveUpKeepsIInv DEF SyncEnd
    <2> QED BY <1>5, <2>1, SyncBeginKeepsIInv, AnsweredKeepsIInv, FailedKeepsIInv, ReplaceKeepsIInv
            DEF SyncStep
  <1>6. ASSUME NEW u \in Urls, Restock(u) PROVE LibraryIInv'
    <2> USE DEF LibraryIInv
    <2>1. stock' \in [Urls -> 0 .. MaxStock] /\ UNCHANGED <<row, lib, edit, sync, born, exposed>>
      BY <1>6 DEF Restock, LibraryTypeOK
    <2>2. LibraryTypeOK'
      BY <2>1 DEF LibraryTypeOK
    <2>3. OwnLibrary' /\ LibraryInv' /\ EditInv' /\ SyncInv'
      BY <2>1 DEF OwnLibrary, LibraryInv, EditInv, SyncInv, Fitting, Used
    <2> QED BY <2>2, <2>3
  <1>7. CASE UNCHANGED libraryVars
    <2> USE DEF LibraryIInv, libraryVars
    <2>1. LibraryTypeOK'
      BY <1>7 DEF LibraryTypeOK
    <2>2. OwnLibrary' /\ LibraryInv' /\ EditInv' /\ SyncInv'
      BY <1>7 DEF OwnLibrary, LibraryInv, EditInv, SyncInv, Fitting, Used
    <2> QED BY <2>1, <2>2
  <1> QED BY <1>1, <1>2, <1>3, <1>4, <1>5, <1>6, <1>7 DEF LibraryNext

-----------------------------------------------------------------------------
(* The theorems.                                                            *)

(* The invariant holds in every reachable state, however syncs, edits,      *)
(* deletions and reused ids follow each other.                              *)
THEOREM LibraryInvariance == LibrarySpec => []LibraryIInv
  BY InitLibraryIInv, NextKeepsLibraryIInv, PTL DEF LibrarySpec

(* Rows, lists and local variables keep their types; in particular the      *)
(* first instance of a sync that has any is well defined.                   *)
THEOREM LibraryTypes == LibrarySpec => []LibraryTypeOK
  <1>1. LibraryIInv => LibraryTypeOK
    BY DEF LibraryIInv
  <1> QED BY <1>1, LibraryInvariance, PTL

(* An instance has the URL that was entered for it and the library fetched  *)
(* for it (engine.go SyncLibraries, admin.go handleInstanceUpdate), for any *)
(* number of syncs and edits; only an id deleted while one of them held a   *)
(* copy of its row is an exception.                                         *)
THEOREM LibraryOfInstance == LibrarySpec => []OwnLibrary
  <1>1. LibraryIInv => OwnLibrary
    BY DEF LibraryIInv
  <1> QED BY <1>1, LibraryInvariance, PTL
=============================================================================
