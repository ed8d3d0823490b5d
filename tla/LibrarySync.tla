---------------------------- MODULE LibrarySync ----------------------------
(***************************************************************************)
(* The library snapshot and the instances it is taken from (SyncLibraries  *)
(* and schedule in internal/engine/engine.go, the instance handlers in     *)
(* internal/server/admin.go, ReplaceLibrary in internal/store/store.go).   *)
(*                                                                         *)
(* A sync reads the instances once, then for minutes fetches one list      *)
(* after another and replaces the rows of that id.  Meanwhile admins edit  *)
(* and delete instances, and another sync may run: the scheduler never     *)
(* overlaps with itself, but "Sync library" does not ask.                  *)
(*                                                                         *)
(* One type of instance is modelled: both give a list of artists, and the  *)
(* type takes part in nothing but the UNIQUE constraint next to the URL.   *)
(* Name, user, key and profiles are written together with the URL.         *)
(***************************************************************************)
EXTENDS Integers, FiniteSets

CONSTANTS
  Urls,       \* base URLs, each a server with a list of artists
  NoUrl,
  Reliable,   \* servers that always answer; the others may also fail
  Edits,      \* bound: PUT handlers in flight at one time
  Syncs,      \* bound: syncs in flight at one time
  Scheduler,  \* the sync that the timer starts
  MaxId,      \* bound: row ids
  MaxBorn,    \* bound: instances ever created
  MaxStock    \* bound: changes of a server's list

ConstantsAssumption ==
  /\ NoUrl \notin Urls
  /\ Scheduler \in Syncs
  /\ Reliable \subseteq Urls
  /\ MaxId \in Nat /\ MaxBorn \in Nat /\ MaxStock \in Nat

ASSUME LibraryAssumption == ConstantsAssumption

VARIABLES
  row,     \* row[i]: the instances row with id i, or NoRow
  lib,     \* lib[i]: the rows of library_artists with instance_id i, or NoList
  edit,    \* edit[e]: a PUT between its read and its write, or NoEdit
  sync,    \* sync[s]: the local variables of SyncLibraries
  stock,   \* external: stock[u] numbers the lists of server u; 0 is empty
  (* history variables: no guard but the bound on born reads them *)
  born,    \* instances ever created; the n-th one is instance n
  exposed  \* ids deleted while an edit or a sync held a copy of the row

libraryVars == <<row, lib, edit, sync, stock, born, exposed>>

Ids == 1 .. MaxId

(* of is history: the instance that the URL or the list was meant for.      *)
NoRow == [url |-> NoUrl, active |-> FALSE, born |-> 0, of |-> 0]
Row   == [url : Urls, active : BOOLEAN, born : 1 .. MaxBorn, of : 1 .. MaxBorn]

NoList == [url |-> NoUrl, at |-> 0, of |-> 0]
List   == [url : Urls, at : 1 .. MaxStock, of : 1 .. MaxBorn]

NoEdit == [id |-> 0, url |-> NoUrl, active |-> FALSE, of |-> 0]
Edit   == [id : Ids, url : Urls, active : BOOLEAN, of : 1 .. MaxBorn]

(* todo holds copies of rows; answer the list that the first of them gave.  *)
Copy == [id : Ids, url : Urls, of : 1 .. MaxBorn]
NoAnswer == -1
Idle == [on |-> FALSE, todo |-> {}, answer |-> NoAnswer]
Sync == [on : BOOLEAN, todo : SUBSET Copy, answer : {NoAnswer} \cup 0 .. MaxStock]
-----------------------------------------------------------------------------
Used == {i \in Ids : row[i] # NoRow}

(* rowid of the next INSERT: INTEGER PRIMARY KEY without AUTOINCREMENT.     *)
NextId == IF Used = {} THEN 1 ELSE 1 + (CHOOSE i \in Used : \A j \in Used : j <= i)

(* UNIQUE (base_url, type)                                                  *)
Taken(u, i) == \E j \in Used \ {i} : row[j].url = u

Create(u, active) ==
  /\ ~Taken(u, 0)
  /\ NextId \in Ids /\ born < MaxBorn
  /\ born' = born + 1
  /\ row' = [row EXCEPT ![NextId] = [url |-> u, active |-> active, born |-> born', of |-> born']]
  /\ UNCHANGED <<lib, edit, sync, stock, exposed>>

(* handleInstanceUpdate: InstanceByID, then the body is laid over the copy. *)
(* An omitted URL or is_active keeps what the copy has.                     *)
EditBegin(e, i, u, active) ==
  /\ edit[e] = NoEdit /\ i \in Used
  /\ edit' = [edit EXCEPT ![e] = [id |-> i, url |-> u, active |-> active, of |-> row[i].born]]
  /\ UNCHANGED <<row, lib, sync, stock, born, exposed>>

Slip_EditWrite(e) ==  \* an upsert: writes the row also when it is gone
  LET d == edit[e] IN
  /\ d # NoEdit
  /\ row' = IF ~Taken(d.url, d.id)
              THEN [row EXCEPT ![d.id].url = d.url, ![d.id].active = d.active, ![d.id].of = d.of]
              ELSE row
  /\ edit' = [edit EXCEPT ![e] = NoEdit]
  /\ UNCHANGED <<lib, sync, stock, born, exposed>>

(* UpdateInstance: by id; no row is no error, a URL in use is one.          *)
EditWrite(e) ==
  LET d == edit[e] IN
  /\ d # NoEdit
  /\ row' = IF d.id \in Used /\ ~Taken(d.url, d.id)
              THEN [row EXCEPT ![d.id].url = d.url, ![d.id].active = d.active, ![d.id].of = d.of]
              ELSE row
  /\ edit' = [edit EXCEPT ![e] = NoEdit]
  /\ UNCHANGED <<lib, sync, stock, born, exposed>>

Held(i) == \/ \E e \in Edits : edit[e].id = i
           \/ \E s \in Syncs : \E c \in sync[s].todo : c.id = i

Slip_Delete(i) ==  \* without the cascade
  /\ i \in Used
  /\ row' = [row EXCEPT ![i] = NoRow]
  /\ exposed' = IF Held(i) THEN exposed \cup {i} ELSE exposed
  /\ UNCHANGED <<lib, edit, sync, stock, born>>

(* DELETE, which cascades to the library.                                   *)
Delete(i) ==
  /\ i \in Used
  /\ row' = [row EXCEPT ![i] = NoRow]
  /\ lib' = [lib EXCEPT ![i] = NoList]
  /\ exposed' = IF Held(i) THEN exposed \cup {i} ELSE exposed
  /\ UNCHANGED <<edit, sync, stock, born>>
-----------------------------------------------------------------------------
SyncBegin(s) ==
  /\ ~sync[s].on
  /\ sync' = [sync EXCEPT ![s] =
       [on |-> TRUE, todo |-> {[id |-> i, url |-> row[i].url, of |-> row[i].born] :
                             i \in {j \in Used : row[j].active}},
        answer |-> NoAnswer]]
  /\ UNCHANGED <<row, lib, edit, stock, born, exposed>>

First(s) == CHOOSE c \in sync[s].todo : \A d \in sync[s].todo : c.id <= d.id  \* ORDER BY id

Answered(s) ==
  /\ sync[s].todo # {} /\ sync[s].answer = NoAnswer
  /\ sync' = [sync EXCEPT ![s].answer = stock[First(s).url]]
  /\ UNCHANGED <<row, lib, edit, stock, born, exposed>>

Slip_Failed(s) ==  \* return err in place of continue
  /\ sync[s].todo # {} /\ sync[s].answer = NoAnswer
  /\ First(s).url \notin Reliable
  /\ sync' = [sync EXCEPT ![s] = Idle]
  /\ UNCHANGED <<row, lib, edit, stock, born, exposed>>

(* An error of GetArtists or Artists moves on to the next instance.         *)
Failed(s) ==
  /\ sync[s].todo # {} /\ sync[s].answer = NoAnswer
  /\ First(s).url \notin Reliable
  /\ sync' = [sync EXCEPT ![s].todo = @ \ {First(s)}]
  /\ UNCHANGED <<row, lib, edit, stock, born, exposed>>

Refused(c, list) == c.id \notin Used /\ list # 0  \* an empty list inserts nothing

(* ReplaceLibrary: one transaction.  Its error ends the whole sync.         *)
Replace(s) ==
  LET c == First(s)
      list == sync[s].answer
  IN
  /\ list # NoAnswer
  /\ IF Refused(c, list)
       THEN sync' = [sync EXCEPT ![s] = Idle] /\ UNCHANGED lib
       ELSE /\ lib' = [lib EXCEPT ![c.id] =
                 IF list = 0 THEN NoList ELSE [url |-> c.url, at |-> list, of |-> c.of]]
            /\ sync' = [sync EXCEPT ![s].todo = @ \ {c}, ![s].answer = NoAnswer]
  /\ UNCHANGED <<row, edit, stock, born, exposed>>

(* Genres and recommendations follow; they have a specification of their    *)
(* own.  The scheduler's timer is set again, whatever came out.             *)
SyncEnd(s) ==
  /\ sync[s].on /\ sync[s].todo = {}
  /\ sync' = [sync EXCEPT ![s] = Idle]
  /\ UNCHANGED <<row, lib, edit, stock, born, exposed>>

SyncStep(s) == Answered(s) \/ Failed(s) \/ Replace(s) \/ SyncEnd(s)
-----------------------------------------------------------------------------
(* The list of a server changes.                                            *)
Restock(u) ==
  /\ stock[u] < MaxStock /\ stock' = [stock EXCEPT ![u] = @ + 1]
  /\ UNCHANGED <<row, lib, edit, sync, born, exposed>>

LibraryInit ==
  /\ row = [i \in Ids |-> NoRow] /\ lib = [i \in Ids |-> NoList]
  /\ edit = [e \in Edits |-> NoEdit] /\ sync = [s \in Syncs |-> Idle]
  /\ stock = [u \in Urls |-> 0] /\ born = 0 /\ exposed = {}

LibraryNext ==
  \/ \E u \in Urls, active \in BOOLEAN : Create(u, active)
  \/ \E e \in Edits, i \in Ids, u \in Urls, active \in BOOLEAN : EditBegin(e, i, u, active)
  \/ \E e \in Edits : EditWrite(e)
  \/ \E i \in Ids : Delete(i)
  \/ \E s \in Syncs : SyncBegin(s) \/ SyncStep(s)
  \/ \E u \in Urls : Restock(u)

(* schedule sets its timer after every run; a fetch ends, with an answer or *)
(* by the client's timeout.                                                 *)
LibrarySpec ==
  /\ LibraryInit /\ [][LibraryNext]_libraryVars
  /\ WF_libraryVars(SyncBegin(Scheduler))
  /\ \A s \in Syncs : WF_libraryVars(SyncStep(s))
-----------------------------------------------------------------------------
LibraryTypeOK ==
  /\ row \in [Ids -> Row \cup {NoRow}]
  /\ lib \in [Ids -> List \cup {NoList}]
  /\ edit \in [Edits -> Edit \cup {NoEdit}]
  /\ sync \in [Syncs -> Sync]
  /\ stock \in [Urls -> 0 .. MaxStock] 
  /\ born \in 0 .. MaxBorn
  /\ exposed \subseteq Ids

(* The URL of an instance was entered for that instance, and its library    *)
(* fetched for it: "Snapshot of artists present in each ... instance"       *)
(* (schema.sql:45).  Ids are handed out again, so this needs the exception  *)
(* of ids whose last owner was deleted under an edit or a sync.             *)
OwnLibrary ==
  \A i \in Used \ exposed :
    /\ row[i].of = row[i].born
    /\ lib[i] # NoList => lib[i].of = row[i].born

(* An active instance whose server answers gets that server's present list  *)
(* and keeps it, whatever becomes of the other instances: a sync goes on    *)
(* after a failure, and the scheduler after a sync that gave up.            *)
LibraryCatchesUp ==
  \A i \in Ids, u \in Reliable :
    <>[](row[i].url = u /\ row[i].active) =>
      <>[](lib[i].at = stock[u] /\ lib[i].url = IF stock[u] = 0 THEN NoUrl ELSE u)
=============================================================================
