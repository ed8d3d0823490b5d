--------------------------- MODULE PostgresImport ---------------------------
(***************************************************************************)
(* musicseer migrate <dsn> (FromPostgres in internal/migrate/postgres.go): *)
(* users, server instances and requests of the original program, copied    *)
(* row by row into the SQLite file, statement by statement, while the      *)
(* server may be running on the same file and the old program on its own   *)
(* database.  It may be run again, be cut off by its two minutes, or die.  *)
(*                                                                         *)
(* Passwords, roles, keys and times of creation are copied and matter to   *)
(* nothing here; a request is about one artist.                            *)
(***************************************************************************)
EXTENDS Integers, Sequences, FiniteSets

CONSTANTS
  Logins,       \* user names and e-mail addresses, letter case folded
  NoMail,
  OldUsers,     \* external: <<[name, mail], ...>> by time of creation
  OldServers,   \* external: <<[url, supported], ...>>
  OldRequests,  \* external: <<[user, artist, noted], ...>>
  Artists, Urls,
  Locals,       \* accounts, [name, mail], that the server's admins may create
  MaxUser, MaxRequest,  \* bounds: row ids
  MaxWrites     \* bound: writes by others

ConstantsAssumption ==
  /\ NoMail \notin Logins
  /\ OldUsers \in Seq([name : Logins, mail : Logins \cup {NoMail}])
  /\ Locals \subseteq [name : Logins, mail : Logins \cup {NoMail}]
  /\ OldServers \in Seq([url : Urls, supported : BOOLEAN])
  /\ OldRequests \in Seq([user : Logins, artist : Artists, noted : BOOLEAN])
  /\ \A k \in DOMAIN OldRequests : \E j \in DOMAIN OldUsers : OldUsers[j].name = OldRequests[k].user
  /\ MaxUser \in Nat \ {0} /\ MaxRequest \in Nat \ {0} /\ MaxWrites \in Nat

ASSUME ImportAssumption == ConstantsAssumption

VARIABLES
  user,     \* user[i]: the users row with id i, or NoUser
  server,   \* base URLs in instances
  request,  \* request[i]: the requests row with id i, or NoRequest
  old,      \* external: old[k], the status of OldRequests[k] in the old program
  run,      \* the local variables of FromPostgres
  writes,
  (* history variables: no guard reads them *)
  quiet,    \* nobody else wrote to either database since the run began
  stale,    \* old users whose local account was deleted while a run held its id
  raced     \* ids of requests that others wrote between a run's INSERT and UPDATE

vars == <<user, server, request, old, run, writes, quiet, stale, raced>>

UserIds    == 1 .. MaxUser
RequestIds == 1 .. MaxRequest

NoUser == [name |-> NoMail, mail |-> NoMail]
User   == [name : Logins, mail : Logins \cup {NoMail}]

Status    == {"pending", "approved", "rejected", "sent", "failed"}
Open      == {"pending", "approved", "sent"}
OldStatus == {"pending", "approved", "completed", "rejected", "other"}

(* from is history: the old request it was copied from; 0: made here.       *)
NoRequest == [owner |-> 0, artist |-> 0, status |-> "none", from |-> 0]
Request   == [owner : UserIds, artist : Artists, status : Status, from : 0 .. Len(OldRequests)]

(* k is the next row of the current result set, id the request just copied, *)
(* ids the map userIDByName; 0 where there is no entry.                     *)
Phases == {"idle", "users", "adduser", "servers", "requests", "notes", "done"}
Run == [pc : Phases, k : Nat, id : 0 .. MaxRequest, ids : [Logins -> 0 .. MaxUser], whole : BOOLEAN]
Idle == [pc |-> "idle", k |-> 1, id |-> 0, ids |-> [n \in Logins |-> 0], whole |-> TRUE]
-----------------------------------------------------------------------------
UsedUsers    == {i \in UserIds : user[i] # NoUser}
UsedRequests == {i \in RequestIds : request[i] # NoRequest}

(* The id of the next INSERT: one more than the largest in use.             *)
IsNextId(i, used) == i \notin used /\ (\A j \in used : j < i) /\ (i = 1 \/ i - 1 \in used)

(* UserByLogin: by name or by e-mail; with two such rows, either of them.   *)
Accounts(login) == {i \in UsedUsers : login \in {user[i].name, user[i].mail}}

Unique(u) ==
  \A i \in UsedUsers : user[i].name # u.name /\ (u.mail = NoMail \/ user[i].mail # u.mail)

(* idx_requests_unique_open2, where the imported rows have no album.        *)
IndexAllows(i, r) ==
  r.status \in Open =>
    \A j \in UsedRequests \ {i} : request[j].status \in Open =>
      <<request[j].owner, request[j].artist>> # <<r.owner, r.artist>>

Slip_Mapped(status) == IF status = "completed" THEN "sent" ELSE status
Mapped(status) == CASE status = "completed" -> "sent"
                    [] status = "other" -> "pending"
                    [] OTHER -> status
-----------------------------------------------------------------------------
Begin ==
  /\ run.pc \in {"idle", "done"}
  /\ run' = [Idle EXCEPT !.pc = "users"] /\ quiet' = TRUE
  /\ UNCHANGED <<user, server, request, old, writes, stale, raced>>

At(phase, rows) == run.pc = phase /\ run.k <= Len(rows)
Past(phase, rows) == run.pc = phase /\ run.k > Len(rows)

Slip_FindUser ==  \* skipped without an entry in the map
  /\ At("users", OldUsers)
  /\ LET found == Accounts(OldUsers[run.k].name) IN
       run' = IF found # {} THEN [run EXCEPT !.k = @ + 1] ELSE [run EXCEPT !.pc = "adduser"]
  /\ UNCHANGED <<user, server, request, old, writes, quiet, stale, raced>>

FindUser ==
  /\ At("users", OldUsers)
  /\ LET name  == OldUsers[run.k].name
         found == Accounts(name)
     IN \/ \E i \in found : run' = [run EXCEPT !.ids[name] = i, !.k = @ + 1]
        \/ found = {} /\ run' = [run EXCEPT !.pc = "adduser"]
  /\ UNCHANGED <<user, server, request, old, writes, quiet, stale, raced>>

Slip_AddUser ==  \* a taken address is taken for the same person
  LET u == OldUsers[run.k] IN
  /\ run.pc = "adduser"
  /\ \E i \in UserIds :
       IF Unique(u)
         THEN /\ IsNextId(i, UsedUsers)
              /\ user' = [user EXCEPT ![i] = u]
              /\ run' = [run EXCEPT !.pc = "users", !.k = @ + 1, !.ids[u.name] = i]
         ELSE /\ user[i] # NoUser /\ (user[i].name = u.name \/ user[i].mail = u.mail)
              /\ run' = [run EXCEPT !.pc = "users", !.k = @ + 1, !.ids[u.name] = i]
              /\ UNCHANGED user
  /\ UNCHANGED <<server, request, old, writes, quiet, stale, raced>>

(* CreateUser; a name or an address in use is a warning.                    *)
AddUser ==
  LET u == OldUsers[run.k] IN
  /\ run.pc = "adduser"
  /\ \/ /\ Unique(u)
        /\ \E i \in UserIds :
             /\ IsNextId(i, UsedUsers)
             /\ user' = [user EXCEPT ![i] = u]
             /\ run' = [run EXCEPT !.pc = "users", !.k = @ + 1, !.ids[u.name] = i]
     \/ /\ ~Unique(u)
        /\ run' = [run EXCEPT !.pc = "users", !.k = @ + 1]
        /\ UNCHANGED user
  /\ UNCHANGED <<server, request, old, writes, quiet, stale, raced>>

(* The next query of the old database.                                      *)
NextQuery ==
  /\ \/ Past("users", OldUsers) /\ run' = [run EXCEPT !.pc = "servers", !.k = 1]
     \/ Past("servers", OldServers) /\ run' = [run EXCEPT !.pc = "requests", !.k = 1]
     \/ Past("requests", OldRequests) /\ run' = [run EXCEPT !.pc = "done"]
  /\ UNCHANGED <<user, server, request, old, writes, quiet, stale, raced>>

(* A type other than navidrome and lidarr is skipped, UNIQUE (base_url,     *)
(* type) refuses an instance that is there.                                 *)
AddServer ==
  /\ At("servers", OldServers)
  /\ LET s == OldServers[run.k] IN
       server' = IF s.supported THEN server \cup {s.url} ELSE server
  /\ run' = [run EXCEPT !.k = @ + 1]
  /\ UNCHANGED <<user, request, old, writes, quiet, stale, raced>>

Copied(k, uid) == [owner |-> uid, artist |-> OldRequests[k].artist, status |-> Mapped(old[k]), from |-> k]

Slip_AddRequest ==  \* INSERT OR REPLACE
  /\ At("requests", OldRequests)
  /\ LET k == run.k
         r == Copied(k, run.ids[OldRequests[k].user])
         clash == {j \in UsedRequests : request[j].status \in Open /\ r.status \in Open /\
                     <<request[j].owner, request[j].artist>> = <<r.owner, r.artist>>}
     IN IF r.owner \in UsedUsers
          THEN \E i \in RequestIds :
                 /\ IF clash = {} THEN IsNextId(i, UsedRequests) ELSE i \in clash
                 /\ request' = [request EXCEPT ![i] = r]
                 /\ run' = [run EXCEPT !.k = @ + 1]
          ELSE run' = [run EXCEPT !.k = @ + 1] /\ UNCHANGED request
  /\ UNCHANGED <<user, server, old, writes, quiet, stale, raced>>

(* CreateRequest, unless the user was not imported; the index or the        *)
(* foreign key may refuse it.  A note is written by a second statement.     *)
AddRequest ==
  /\ At("requests", OldRequests)
  /\ LET k == run.k
         r == Copied(k, run.ids[OldRequests[k].user])
         accepted == r.owner \in UsedUsers /\ IndexAllows(0, r)
     IN \/ /\ accepted
           /\ \E i \in RequestIds :
                /\ IsNextId(i, UsedRequests)
                /\ request' = [request EXCEPT ![i] = r]
                /\ run' = IF OldRequests[k].noted THEN [run EXCEPT !.pc = "notes", !.id = i]
                                                  ELSE [run EXCEPT !.k = @ + 1]
        \/ /\ ~accepted
           /\ run' = [run EXCEPT !.k = @ + 1]
           /\ UNCHANGED request
  /\ UNCHANGED <<user, server, old, writes, quiet, stale, raced>>

(* UpdateRequestStatus: by id, with the status read from the old database.  *)
WriteNotes ==
  /\ run.pc = "notes"
  /\ LET r == [request[run.id] EXCEPT !.status = Mapped(old[run.k])] IN
       request' = IF run.id \in UsedRequests /\ IndexAllows(run.id, r)
                    THEN [request EXCEPT ![run.id] = r] ELSE request
  /\ run' = [run EXCEPT !.pc = "requests", !.k = @ + 1, !.id = 0]
  /\ UNCHANGED <<user, server, old, writes, quiet, stale, raced>>

(* The two minutes are over: the rows end.  Before the last query the next  *)
(* one fails and so does the run; in the last one nothing asks rows.Err.    *)
Cut ==
  /\ \/ run.pc \in {"users", "servers"} /\ run' = Idle
     \/ At("requests", OldRequests) /\ run' = [run EXCEPT !.pc = "done", !.whole = FALSE]
  /\ UNCHANGED <<user, server, request, old, writes, quiet, stale, raced>>

Crash ==
  /\ run.pc \notin {"idle", "done"} /\ run' = Idle
  /\ UNCHANGED <<user, server, request, old, writes, quiet, stale, raced>>

ImportStep == FindUser \/ AddUser \/ NextQuery \/ AddServer \/ AddRequest \/ WriteNotes
-----------------------------------------------------------------------------
(* The server on the same file, and the old program.                        *)

Others == writes < MaxWrites /\ writes' = writes + 1 /\ quiet' = FALSE /\ UNCHANGED run

Touched(i) == raced' = IF run.pc = "notes" /\ run.id = i THEN raced \cup {i} ELSE raced

CreateUser(u) ==
  /\ Unique(u)
  /\ \E i \in UserIds : IsNextId(i, UsedUsers) /\ user' = [user EXCEPT ![i] = u]
  /\ Others /\ UNCHANGED <<server, request, old, stale, raced>>

DeleteUser(i) ==  \* cascades
  /\ i \in UsedUsers
  /\ user' = [user EXCEPT ![i] = NoUser]
  /\ request' = [j \in RequestIds |-> IF request[j].owner = i THEN NoRequest ELSE request[j]]
  /\ stale' = stale \cup {n \in Logins : run.pc # "idle" /\ run.ids[n] = i}
  /\ raced' = IF run.pc = "notes" /\ request[run.id].owner = i THEN raced \cup {run.id} ELSE raced
  /\ Others /\ UNCHANGED <<server, old>>

Ask(i, artist) ==
  LET r == [owner |-> i, artist |-> artist, status |-> "pending", from |-> 0] IN
  /\ i \in UsedUsers /\ IndexAllows(0, r)
  /\ \E j \in RequestIds : IsNextId(j, UsedRequests) /\ request' = [request EXCEPT ![j] = r]
  /\ Others /\ UNCHANGED <<user, server, old, stale, raced>>

(* Approve, reject, retry, or the end of a push.                            *)
Decide(i, status) ==
  LET r == [request[i] EXCEPT !.status = status] IN
  /\ i \in UsedRequests /\ status \notin {"pending", request[i].status} /\ IndexAllows(i, r)
  /\ request' = [request EXCEPT ![i] = r]
  /\ Touched(i) /\ Others /\ UNCHANGED <<user, server, old, stale>>

DeleteRequest(i) ==
  /\ i \in UsedRequests
  /\ request' = [request EXCEPT ![i] = NoRequest]
  /\ Touched(i) /\ Others /\ UNCHANGED <<user, server, old, stale>>

DeleteServer(u) ==
  /\ u \in server /\ server' = server \ {u}
  /\ Others /\ UNCHANGED <<user, request, old, stale, raced>>

(* A query reads a snapshot: what changes during it is seen by the next run.*)
OldChange(k, status) ==
  /\ run.pc \notin {"requests", "notes"}
  /\ old[k] # status /\ old' = [old EXCEPT ![k] = status]
  /\ Others /\ UNCHANGED <<user, server, request, stale, raced>>

Init ==
  /\ user = [i \in UserIds |-> NoUser] /\ server = {}
  /\ request = [i \in RequestIds |-> NoRequest]
  /\ old \in [DOMAIN OldRequests -> OldStatus]
  /\ run = Idle /\ writes = 0
  /\ quiet = TRUE /\ stale = {} /\ raced = {}

Next ==
  \/ Begin \/ ImportStep \/ Cut \/ Crash
  \/ \E u \in Locals : CreateUser(u)
  \/ \E i \in UserIds : DeleteUser(i)
  \/ \E i \in UserIds, artist \in Artists : Ask(i, artist)
  \/ \E i \in RequestIds, status \in Status : Decide(i, status)
  \/ \E i \in RequestIds : DeleteRequest(i)
  \/ \E u \in Urls : DeleteServer(u)
  \/ \E k \in DOMAIN OldRequests, status \in OldStatus : OldChange(k, status)

Spec == Init /\ [][Next]_vars
-----------------------------------------------------------------------------
TypeOK ==
  /\ user \in [UserIds -> User \cup {NoUser}]
  /\ server \subseteq Urls
  /\ request \in [RequestIds -> Request \cup {NoRequest}]
  /\ old \in [DOMAIN OldRequests -> OldStatus]
  /\ run \in Run
  /\ writes \in 0 .. MaxWrites
  /\ quiet \in BOOLEAN /\ stale \subseteq Logins /\ raced \subseteq RequestIds

(* "existing rows are skipped, never overwritten" (postgres.go:6): an       *)
(* import leaves every row it finds as it is.  The exception is the row it  *)
(* inserted itself and others wrote before its note was added.              *)
NothingOverwritten ==
  [][ ImportStep =>
        /\ \A i \in UsedUsers : user'[i] = user[i]
        /\ \A i \in UsedRequests \ raced : request'[i] = request[i]
        /\ server \subseteq server' ]_vars

(* History goes to the person: a copied request belongs to the account with *)
(* the old user's name, or that has the name as its e-mail address (the     *)
(* importer "treats them as the same person", docs/MIGRATION.md:52), unless *)
(* the account was deleted under the import and its id given away.          *)
HistoryOfNamesake ==
  \A i \in UsedRequests :
    LET k == request[i].from IN
    k # 0 /\ OldRequests[k].user \notin stale =>
      OldRequests[k].user \in {user[request[i].owner].name, user[request[i].owner].mail}

(* A later old user has the name as address and brings it in.               *)
Shadowed(n) ==
  \E j, m \in DOMAIN OldUsers : j < m /\ OldUsers[j].name = n /\ OldUsers[m].mail = n

(* A run that was neither cut nor disturbed leaves nothing behind, whatever *)
(* earlier runs were: every supported instance is there, and every request  *)
(* of an old user with an account is there or has an open one in its place. *)
(* The exception is a user refused because somebody has the address, whose  *)
(* name a later old user then brings in as an address: only the next run    *)
(* finds the account.                                                       *)
CompleteWhenDone ==
  run.pc = "done" /\ run.whole /\ quiet =>
    /\ \A k \in DOMAIN OldServers : OldServers[k].supported => OldServers[k].url \in server
    /\ \A k \in DOMAIN OldRequests :
         LET n == OldRequests[k].user IN
         Accounts(n) # {} /\ ~Shadowed(n) =>
           \E i \in UsedRequests : /\ request[i].artist = OldRequests[k].artist
                                   /\ request[i].owner \in Accounts(n)
                                   /\ request[i].from = k \/ request[i].status \in Open

(* "The command is idempotent" (README.md:69), "skips anything that already *)
(* exists" (docs/MIGRATION.md:82): no old request is there twice.           *)
CopiedOnce ==
  \A i, j \in UsedRequests : request[i].from = request[j].from /\ i # j => request[i].from = 0
=============================================================================
