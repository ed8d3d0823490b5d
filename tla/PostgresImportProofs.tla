------------------------ MODULE PostgresImportProofs ------------------------
(***************************************************************************)
(* Theorems about PostgresImport, for any old database and any number of   *)
(* runs, writes by others and rows.                                        *)
(*                                                                         *)
(* What a run knows is in its local map and its place in the result set:   *)
(* the inductive invariant IInv ties both to the tables, the map as long   *)
(* as nobody deletes an account in it, the place as long as nobody else    *)
(* writes at all.                                                          *)
(***************************************************************************)
EXTENDS PostgresImport, TLAPS

(* The row that is next is there while a step is about it.                  *)
RunInv ==
  /\ run.k >= 1
  /\ run.pc = "adduser" => run.k <= Len(OldUsers)
  /\ run.pc = "notes" => run.k <= Len(OldRequests) /\ run.id >= 1
  /\ run.pc = "idle" => \A n \in Logins : run.ids[n] = 0

(* The foreign key from requests to users.                                  *)
OwnerInv == \A i \in UsedRequests : request[i].owner \in UsedUsers

(* The map leads to the old user's namesake.                                *)
IdsInv ==
  \A n \in Logins :
    run.ids[n] # 0 /\ (quiet \/ n \notin stale) =>
      n \in {user[run.ids[n]].name, user[run.ids[n]].mail}

(* Between INSERT and UPDATE the row is as it was inserted, and the UPDATE  *)
(* is about to write the status it has.                                     *)
NotesInv ==
  run.pc = "notes" /\ (quiet \/ run.id \notin raced) =>
    request[run.id] = Copied(run.k, run.ids[OldRequests[run.k].user])

(* Old users before the current one are in the map if they have an account. *)
LookedUp(j) == run.pc \in {"users", "adduser"} => j < run.k

UsersInv ==
  quiet /\ run.pc # "idle" =>
    /\ run.pc = "adduser" => Accounts(OldUsers[run.k].name) = {}
    /\ \A j \in DOMAIN OldUsers :
         LET n == OldUsers[j].name IN
         LookedUp(j) /\ Accounts(n) # {} /\ ~Shadowed(n) => run.ids[n] # 0

(* Instances before the current one are there.                              *)
ServersInv ==
  quiet /\ run.pc \in {"servers", "requests", "notes", "done"} =>
    \A j \in DOMAIN OldServers :
      (run.pc = "servers" => j < run.k) /\ OldServers[j].supported => OldServers[j].url \in server

(* Requests before the current one are there, or an open one is.            *)
Kept(k) ==
  LET n == OldRequests[k].user IN
  Accounts(n) # {} /\ ~Shadowed(n) =>
    \E i \in UsedRequests : /\ request[i].artist = OldRequests[k].artist
                            /\ request[i].owner \in Accounts(n)
                            /\ request[i].from = k \/ request[i].status \in Open

RequestsInv ==
  quiet /\ run.pc \in {"requests", "notes", "done"} /\ run.whole =>
    \A j \in DOMAIN OldRequests : (run.pc = "done" \/ j < run.k) => Kept(j)

IInv ==
  /\ TypeOK /\ RunInv
  /\ OwnerInv /\ HistoryOfNamesake /\ IdsInv /\ NotesInv
  /\ UsersInv /\ ServersInv /\ RequestsInv
-----------------------------------------------------------------------------
(* The elements of a sequence.                                              *)
LEMMA SeqRows ==
  ASSUME NEW S, NEW s \in Seq(S)
  PROVE  Len(s) \in Nat /\ DOMAIN s = 1 .. Len(s) /\ \A k \in DOMAIN s : s[k] \in S
  OBVIOUS

(* The bounds.                                                              *)
LEMMA Limits == MaxUser \in Nat \ {0} /\ MaxRequest \in Nat \ {0} /\ MaxWrites \in Nat
  BY ImportAssumption DEF ConstantsAssumption

(* The rows of the old database.                                            *)
LEMMA OldRows ==
  /\ Len(OldUsers) \in Nat /\ DOMAIN OldUsers = 1 .. Len(OldUsers)
  /\ Len(OldServers) \in Nat /\ DOMAIN OldServers = 1 .. Len(OldServers)
  /\ Len(OldRequests) \in Nat /\ DOMAIN OldRequests = 1 .. Len(OldRequests)
  /\ \A k \in DOMAIN OldUsers : OldUsers[k] \in User
  /\ \A k \in DOMAIN OldServers : OldServers[k].url \in Urls /\ OldServers[k].supported \in BOOLEAN
  /\ \A k \in DOMAIN OldRequests : /\ OldRequests[k].user \in Logins
                                   /\ OldRequests[k].artist \in Artists
                                   /\ \E j \in DOMAIN OldUsers :
                                        OldUsers[j].name = OldRequests[k].user
  <1>1. OldUsers \in Seq(User) /\ OldServers \in Seq([url : Urls, supported : BOOLEAN])
    BY ImportAssumption DEF User, ConstantsAssumption
  <1>2. OldRequests \in Seq([user : Logins, artist : Artists, noted : BOOLEAN])
    BY ImportAssumption DEF ConstantsAssumption
  <1>3. ASSUME NEW k \in DOMAIN OldServers
        PROVE  OldServers[k].url \in Urls /\ OldServers[k].supported \in BOOLEAN
    <2>1. OldServers[k] \in [url : Urls, supported : BOOLEAN]
      BY <1>1, SeqRows
    <2> QED BY <2>1
  <1>4. ASSUME NEW k \in DOMAIN OldRequests
        PROVE  OldRequests[k].user \in Logins /\ OldRequests[k].artist \in Artists
    <2>1. OldRequests[k] \in [user : Logins, artist : Artists, noted : BOOLEAN]
      BY <1>2, SeqRows
    <2> QED BY <2>1
  <1>5. \A k \in DOMAIN OldRequests : \E j \in DOMAIN OldUsers : OldUsers[j].name = OldRequests[k].user
    BY ImportAssumption DEF ConstantsAssumption
  <1>6. /\ Len(OldUsers) \in Nat /\ DOMAIN OldUsers = 1 .. Len(OldUsers)
        /\ Len(OldServers) \in Nat /\ DOMAIN OldServers = 1 .. Len(OldServers)
        /\ Len(OldRequests) \in Nat /\ DOMAIN OldRequests = 1 .. Len(OldRequests)
        /\ \A k \in DOMAIN OldUsers : OldUsers[k] \in User
    BY <1>1, <1>2, SeqRows
  <1> QED BY <1>3, <1>4, <1>5, <1>6

(* No row has the values of an empty one.                                   *)
LEMMA Rows ==
  /\ \A u \in User : u # NoUser /\ u.name \in Logins
  /\ NoUser.name \notin Logins /\ NoUser.mail \notin Logins
  /\ \A r \in Request : r # NoRequest
  /\ NoRequest.from = 0
  <1>1. \A u \in User : u # NoUser /\ u.name \in Logins
    BY ImportAssumption DEF User, NoUser, ConstantsAssumption
  <1>2. NoUser.name \notin Logins /\ NoUser.mail \notin Logins /\ NoRequest.from = 0
    BY ImportAssumption DEF NoUser, NoRequest, ConstantsAssumption
  <1>3. \A r \in Request : r # NoRequest
    BY DEF Request, NoRequest, UserIds
  <1> QED BY <1>1, <1>2, <1>3

(* The parts of a run.                                                      *)
LEMMA RunParts ==
  ASSUME NEW x \in Run
  PROVE  /\ x.pc \in Phases /\ x.k \in Nat /\ x.id \in 0 .. MaxRequest
         /\ x.ids \in [Logins -> 0 .. MaxUser] /\ x.whole \in BOOLEAN
         /\ \A n \in Logins : x.ids[n] # 0 => x.ids[n] \in UserIds
         /\ x.id # 0 => x.id \in RequestIds
  <1>1. /\ x.pc \in Phases /\ x.k \in Nat /\ x.id \in 0 .. MaxRequest
        /\ x.ids \in [Logins -> 0 .. MaxUser] /\ x.whole \in BOOLEAN
    BY DEF Run
  <1>2. \A n \in Logins : x.ids[n] \in 0 .. MaxUser
    BY <1>1
  <1> QED BY <1>1, <1>2, Limits DEF UserIds, RequestIds

(* A step to another row, or to another phase.                              *)
LEMMA RunChanged ==
  ASSUME NEW x \in Run, NEW k \in Nat, NEW m \in [Logins -> 0 .. MaxUser]
  PROVE  /\ [x EXCEPT !.ids = m, !.k = k] \in Run
         /\ \A p \in Phases : [x EXCEPT !.pc = p, !.ids = m, !.k = k] \in Run
  BY DEF Run

(* The run that has not begun.                                              *)
LEMMA IdleRun ==
  /\ Idle \in Run /\ Idle.pc = "idle" /\ Idle.k = 1 /\ \A n \in Logins : Idle.ids[n] = 0
  /\ [Idle EXCEPT !.pc = "users"] \in Run
  <1>1. [n \in Logins |-> 0] \in [Logins -> 0 .. MaxUser]
    BY Limits
  <1>2. Idle \in Run /\ Idle.pc = "idle" /\ Idle.k = 1 /\ \A n \in Logins : Idle.ids[n] = 0
    BY <1>1, Limits DEF Idle, Run, Phases
  <1> QED BY <1>2 DEF Run, Phases

(* Every old status has one here.                                           *)
LEMMA MappedStatus == \A s \in OldStatus : Mapped(s) \in Status
  BY DEF OldStatus, Mapped, Status

(* What a copied request says.                                              *)
LEMMA CopiedRow ==
  ASSUME TypeOK, NEW k \in DOMAIN OldRequests, NEW uid \in UserIds
  PROVE  /\ Copied(k, uid) \in Request /\ Copied(k, uid).owner = uid
         /\ Copied(k, uid).artist = OldRequests[k].artist
         /\ Copied(k, uid).from = k /\ Copied(k, uid).status = Mapped(old[k])
  <1>1. /\ Mapped(old[k]) \in Status /\ OldRequests[k].artist \in Artists
        /\ k \in 0 .. Len(OldRequests)
    BY MappedStatus, OldRows DEF TypeOK
  <1> QED BY <1>1 DEF Copied, Request

(* Nor is it an empty row.                                                  *)
LEMMA CopiedIsARow == \A k \in Nat \ {0} : \A uid : Copied(k, uid) # NoRequest
  BY DEF Copied, NoRequest

(* Nothing is imported and nothing runs.                                    *)
LEMMA InitIInv == Init => IInv
  <1> SUFFICES ASSUME Init PROVE IInv
    OBVIOUS
  <1>1. TypeOK
    BY IdleRun, Limits DEF Init, TypeOK
  <1>2. UsedRequests = {}
    BY DEF Init, UsedRequests
  <1>3. RunInv /\ NotesInv /\ UsersInv /\ ServersInv /\ RequestsInv /\ IdsInv
    BY IdleRun DEF Init, RunInv, NotesInv, UsersInv, ServersInv, RequestsInv, IdsInv
  <1> QED BY <1>1, <1>2, <1>3 DEF IInv, OwnerInv, HistoryOfNamesake

-----------------------------------------------------------------------------
(* One row changes.                                                         *)

(* A request is written or deleted.                                         *)
LEMMA RequestWritten ==
  ASSUME IInv, NEW i \in RequestIds, NEW r \in Request \cup {NoRequest},
         request' = [request EXCEPT ![i] = r], UNCHANGED <<user, stale>>,
         r # NoRequest =>
           /\ r.owner \in UsedUsers
           /\ r.from # 0 /\ OldRequests[r.from].user \notin stale =>
                OldRequests[r.from].user \in {user[r.owner].name, user[r.owner].mail}
  PROVE  /\ request' \in [RequestIds -> Request \cup {NoRequest}]
         /\ \A j \in RequestIds : request'[j] = IF j = i THEN r ELSE request[j]
         /\ OwnerInv' /\ HistoryOfNamesake'
  <1>1. /\ request' \in [RequestIds -> Request \cup {NoRequest}]
        /\ \A j \in RequestIds : request'[j] = IF j = i THEN r ELSE request[j]
    BY DEF IInv, TypeOK
  <1>2. OwnerInv'
    BY <1>1 DEF IInv, OwnerInv, UsedRequests, UsedUsers
  <1>3. HistoryOfNamesake'
    BY <1>1 DEF IInv, HistoryOfNamesake, UsedRequests
  <1> QED BY <1>1, <1>2, <1>3

(* An account is added under an id that no account has.                     *)
LEMMA UserAdded ==
  ASSUME IInv, NEW u \in User, NEW i \in UserIds, i \notin UsedUsers,
         user' = [user EXCEPT ![i] = u], UNCHANGED <<request, stale>>
  PROVE  /\ user' \in [UserIds -> User \cup {NoUser}]
         /\ \A j \in UserIds : user'[j] = IF j = i THEN u ELSE user[j]
         /\ OwnerInv' /\ HistoryOfNamesake'
         /\ \A n \in Logins : Accounts(n)' = IF n \in {u.name, u.mail} THEN Accounts(n) \cup {i}
                                             ELSE Accounts(n)
  <1>1. /\ user' \in [UserIds -> User \cup {NoUser}]
        /\ \A j \in UserIds : user'[j] = IF j = i THEN u ELSE user[j]
    BY DEF IInv, TypeOK
  <1>2. UsedUsers' = UsedUsers \cup {i}
    BY <1>1, Rows DEF UsedUsers
  <1>3. \A j \in UsedUsers : user'[j] = user[j]
    BY <1>1 DEF UsedUsers
  <1>4. OwnerInv' /\ UsedRequests' = UsedRequests
    BY <1>2 DEF IInv, OwnerInv, UsedRequests
  <1>5. HistoryOfNamesake'
    <2>1. \A j \in UsedRequests : user'[request[j].owner] = user[request[j].owner]
      BY <1>3 DEF IInv, OwnerInv
    <2> QED BY <1>4, <2>1 DEF IInv, HistoryOfNamesake
  <1>6. user'[i] = u
    BY <1>1
  <1>7. \A n \in Logins : Accounts(n)' = IF n \in {u.name, u.mail} THEN Accounts(n) \cup {i}
                                        ELSE Accounts(n)
    BY <1>2, <1>3, <1>6 DEF Accounts
  <1> QED BY <1>1, <1>4, <1>5, <1>7

-----------------------------------------------------------------------------
(* The server on the same file, and the old program.                        *)

(* Their writes end the quiet, and with it what is said of a quiet run.     *)
LEMMA OthersFrame ==
  ASSUME IInv, Others
  PROVE  /\ UNCHANGED run /\ quiet' = FALSE /\ writes' \in 0 .. MaxWrites
         /\ RunInv' /\ UsersInv' /\ ServersInv' /\ RequestsInv'
         /\ user' = user /\ stale' = stale => IdsInv'
  <1>1. UNCHANGED run /\ quiet' = FALSE /\ writes' \in 0 .. MaxWrites
    BY Limits DEF Others, IInv, TypeOK
  <1>2. RunInv' /\ UsersInv' /\ ServersInv' /\ RequestsInv'
    BY <1>1 DEF IInv, RunInv, UsersInv, ServersInv, RequestsInv
  <1>3. user' = user /\ stale' = stale => IdsInv'
    BY <1>1 DEF IInv, IdsInv
  <1> QED BY <1>1, <1>2, <1>3

(* Another admin's account gets an id that is not in the map.               *)
LEMMA CreateUserKeepsIInv ==
  ASSUME IInv, NEW u \in Locals, CreateUser(u)
  PROVE  IInv'
  <1>1. u \in User
    BY ImportAssumption DEF User, ConstantsAssumption
  <1>2. PICK i \in UserIds : IsNextId(i, UsedUsers) /\ user' = [user EXCEPT ![i] = u]
    BY DEF CreateUser
  <1>3. i \notin UsedUsers /\ UNCHANGED <<server, request, old, stale, raced>> /\ Others
    BY <1>2 DEF CreateUser, IsNextId
  <1>4. /\ user' \in [UserIds -> User \cup {NoUser}] /\ OwnerInv' /\ HistoryOfNamesake'
        /\ \A j \in UserIds : user'[j] = IF j = i THEN u ELSE user[j]
    <2>1. UNCHANGED <<request, stale>>
      BY <1>3
    <2> QED BY <1>1, <1>2, <1>3, <2>1, UserAdded
  <1>5. /\ UNCHANGED run /\ quiet' = FALSE /\ writes' \in 0 .. MaxWrites
        /\ RunInv' /\ UsersInv' /\ ServersInv' /\ RequestsInv'
    BY <1>3, OthersFrame
  <1>6. TypeOK'
    BY <1>3, <1>4, <1>5 DEF IInv, TypeOK
  <1>7. IdsInv'
    <2> SUFFICES ASSUME NEW n \in Logins, run.ids[n] # 0, n \notin stale
                 PROVE  n \in {user'[run.ids[n]].name, user'[run.ids[n]].mail}
      BY <1>3, <1>5 DEF IdsInv
    <2>1. run.ids[n] \in UserIds
      BY RunParts DEF IInv, TypeOK
    <2>2. n \in {user[run.ids[n]].name, user[run.ids[n]].mail}
      BY DEF IInv, IdsInv
    <2>3. run.ids[n] # i
      BY <1>3, <2>2, Rows DEF UsedUsers
    <2> QED BY <1>4, <2>1, <2>2, <2>3
  <1>8. NotesInv'
    BY <1>3, <1>5 DEF IInv, NotesInv, Copied
  <1> QED BY <1>4, <1>5, <1>6, <1>7, <1>8 DEF IInv

(* The requests go with the account; a run that has its id, or has just     *)
(* copied one of them, makes the user or the request an exception.          *)
LEMMA DeleteUserKeepsIInv ==
  ASSUME IInv, NEW i \in UserIds, DeleteUser(i)
  PROVE  IInv'
  <1>1. /\ user' = [user EXCEPT ![i] = NoUser] /\ UNCHANGED <<server, old>> /\ Others
        /\ request' = [j \in RequestIds |-> IF request[j].owner = i THEN NoRequest ELSE request[j]]
        /\ stale' = stale \cup {n \in Logins : run.pc # "idle" /\ run.ids[n] = i}
        /\ raced' = IF run.pc = "notes" /\ request[run.id].owner = i THEN raced \cup {run.id}
                    ELSE raced
    BY DEF DeleteUser
  <1>2. /\ UNCHANGED run /\ quiet' = FALSE /\ writes' \in 0 .. MaxWrites
        /\ RunInv' /\ UsersInv' /\ ServersInv' /\ RequestsInv'
    BY <1>1, OthersFrame
  <1>3. /\ user' \in [UserIds -> User \cup {NoUser}]
        /\ \A j \in UserIds : user'[j] = IF j = i THEN NoUser ELSE user[j]
        /\ request' \in [RequestIds -> Request \cup {NoRequest}]
        /\ \A j \in RequestIds : request'[j] = IF request[j].owner = i THEN NoRequest ELSE request[j]
    BY <1>1 DEF IInv, TypeOK
  <1>4. run \in Run /\ (run.pc = "notes" => run.id \in RequestIds)
    BY RunParts DEF IInv, TypeOK, RunInv
  <1>5. stale' \subseteq Logins /\ raced' \subseteq RequestIds
    BY <1>1, <1>4 DEF IInv, TypeOK
  <1>6. TypeOK'
    BY <1>1, <1>2, <1>3, <1>5 DEF IInv, TypeOK
  <1>7. \A j \in UsedRequests' : /\ j \in UsedRequests /\ request'[j] = request[j]
                                 /\ request[j].owner \in UsedUsers \ {i}
    BY <1>3 DEF UsedRequests, IInv, OwnerInv
  <1>8. OwnerInv'
    BY <1>3, <1>7 DEF OwnerInv, UsedUsers
  <1>9. HistoryOfNamesake'
    <2> SUFFICES ASSUME NEW j \in UsedRequests', request'[j].from # 0,
                        OldRequests[request'[j].from].user \notin stale'
                 PROVE  OldRequests[request'[j].from].user
                          \in {user'[request'[j].owner].name, user'[request'[j].owner].mail}
      BY Zenon DEF HistoryOfNamesake
    <2>1. stale \subseteq stale'
      BY <1>1
    <2>2. OldRequests[request[j].from].user
            \in {user[request[j].owner].name, user[request[j].owner].mail}
      BY <1>7, <2>1 DEF IInv, HistoryOfNamesake
    <2>3. request'[j] = request[j] /\ request[j].owner \in UserIds \ {i}
      BY <1>7 DEF UsedUsers
    <2>4. user'[request[j].owner] = user[request[j].owner]
      BY <1>3, <2>3
    <2> QED BY <2>2, <2>3, <2>4, Zenon
  <1>10. IdsInv'
    <2> SUFFICES ASSUME NEW n \in Logins, run.ids[n] # 0, n \notin stale'
                 PROVE  n \in {user'[run.ids[n]].name, user'[run.ids[n]].mail}
      BY <1>2 DEF IdsInv
    <2>1. run.ids[n] \in UserIds
      BY <1>4, RunParts
    <2>2. n \notin stale /\ run.ids[n] # i
      BY <1>1 DEF IInv, RunInv
    <2>3. n \in {user[run.ids[n]].name, user[run.ids[n]].mail}
      BY <2>2 DEF IInv, IdsInv
    <2> QED BY <1>3, <2>1, <2>2, <2>3
  <1>11. NotesInv'
    BY <1>1, <1>2, <1>3, <1>4 DEF IInv, NotesInv, Copied
  <1> QED BY <1>2, <1>6, <1>8, <1>9, <1>10, <1>11 DEF IInv

(* A request made here gets an id that no request has.                      *)
LEMMA AskKeepsIInv ==
  ASSUME IInv, NEW i \in UserIds, NEW artist \in Artists, Ask(i, artist)
  PROVE  IInv'
  <1> DEFINE r == [owner |-> i, artist |-> artist, status |-> "pending", from |-> 0]
  <1>1. PICK j \in RequestIds : IsNextId(j, UsedRequests) /\ request' = [request EXCEPT ![j] = r]
    BY DEF Ask
  <1>2. /\ i \in UsedUsers /\ UNCHANGED <<user, server, old, stale, raced>> /\ Others
        /\ j \notin UsedRequests
    BY <1>1 DEF Ask, IsNextId
  <1>3. r \in Request /\ r.owner = i /\ r.from = 0
    BY OldRows DEF Request, Status
  <1> HIDE DEF r
  <1>4. /\ request' \in [RequestIds -> Request \cup {NoRequest}] /\ OwnerInv' /\ HistoryOfNamesake'
        /\ \A l \in RequestIds : request'[l] = IF l = j THEN r ELSE request[l]
    BY <1>1, <1>2, <1>3, RequestWritten
  <1>5. /\ UNCHANGED run /\ quiet' = FALSE /\ writes' \in 0 .. MaxWrites
        /\ RunInv' /\ UsersInv' /\ ServersInv' /\ RequestsInv' /\ IdsInv'
    BY <1>2, OthersFrame
  <1>6. TypeOK'
    BY <1>2, <1>4, <1>5 DEF IInv, TypeOK
  <1>7. NotesInv'
    <2> SUFFICES ASSUME run.pc = "notes", run.id \notin raced
                 PROVE  (request[run.id] = Copied(run.k, run.ids[OldRequests[run.k].user]))'
      BY <1>2, <1>5 DEF NotesInv
    <2>1. /\ run.id \in RequestIds /\ run.k \in Nat \ {0}
          /\ request[run.id] = Copied(run.k, run.ids[OldRequests[run.k].user])
      <3>1. run.id \in RequestIds /\ run.k \in Nat \ {0}
        BY RunParts DEF IInv, TypeOK, RunInv
      <3> QED BY <3>1 DEF IInv, NotesInv
    <2>2. run.id # j
      BY <1>2, <2>1, Rows, CopiedIsARow DEF UsedRequests
    <2> QED BY <1>2, <1>4, <1>5, <2>1, <2>2 DEF Copied
  <1> QED BY <1>4, <1>5, <1>6, <1>7 DEF IInv

(* A row that others write while its note is pending is an exception.       *)
LEMMA TouchedKeeps ==
  ASSUME IInv, NEW i \in RequestIds, Touched(i), UNCHANGED <<run, old>>, quiet' = FALSE,
         \A l \in RequestIds : l # i => request'[l] = request[l]
  PROVE  NotesInv' /\ raced' \subseteq RequestIds
  <1>1. run.pc = "notes" => run.id \in RequestIds
    BY RunParts DEF IInv, TypeOK, RunInv
  <1>2. raced' \subseteq RequestIds
    BY DEF Touched, IInv, TypeOK
  <1>3. NotesInv'
    BY <1>1 DEF Touched, IInv, NotesInv, Copied
  <1> QED BY <1>2, <1>3

(* A request moves on, with its owner and its origin.                       *)
LEMMA DecideKeepsIInv ==
  ASSUME IInv, NEW i \in RequestIds, NEW status \in Status, Decide(i, status)
  PROVE  IInv'
  <1> DEFINE r == [request[i] EXCEPT !.status = status]
  <1>1. /\ i \in UsedRequests /\ request' = [request EXCEPT ![i] = r]
        /\ Touched(i) /\ Others /\ UNCHANGED <<user, server, old, stale>>
    BY DEF Decide
  <1>2. request[i] \in Request
    BY <1>1 DEF UsedRequests, IInv, TypeOK
  <1>3. r \in Request /\ r.owner = request[i].owner /\ r.from = request[i].from
    BY <1>2 DEF Request
  <1> HIDE DEF r
  <1>4. /\ r.owner \in UsedUsers
        /\ r.from # 0 /\ OldRequests[r.from].user \notin stale =>
             OldRequests[r.from].user \in {user[r.owner].name, user[r.owner].mail}
    BY <1>1, <1>3 DEF IInv, OwnerInv, HistoryOfNamesake
  <1>5. /\ request' \in [RequestIds -> Request \cup {NoRequest}] /\ OwnerInv' /\ HistoryOfNamesake'
        /\ \A l \in RequestIds : request'[l] = IF l = i THEN r ELSE request[l]
    BY <1>1, <1>3, <1>4, RequestWritten
  <1>6. /\ UNCHANGED run /\ quiet' = FALSE /\ writes' \in 0 .. MaxWrites
        /\ RunInv' /\ UsersInv' /\ ServersInv' /\ RequestsInv' /\ IdsInv'
    BY <1>1, OthersFrame
  <1>7. NotesInv' /\ raced' \subseteq RequestIds
    BY <1>1, <1>5, <1>6, TouchedKeeps
  <1>8. TypeOK'
    BY <1>1, <1>5, <1>6, <1>7 DEF IInv, TypeOK
  <1> QED BY <1>5, <1>6, <1>7, <1>8 DEF IInv

(* A request is gone.                                                       *)
LEMMA DeleteRequestKeepsIInv ==
  ASSUME IInv, NEW i \in RequestIds, DeleteRequest(i)
  PROVE  IInv'
  <1>1. /\ request' = [request EXCEPT ![i] = NoRequest]
        /\ Touched(i) /\ Others /\ UNCHANGED <<user, server, old, stale>>
    BY DEF DeleteRequest
  <1>2. /\ request' \in [RequestIds -> Request \cup {NoRequest}] /\ OwnerInv' /\ HistoryOfNamesake'
        /\ \A l \in RequestIds : request'[l] = IF l = i THEN NoRequest ELSE request[l]
    BY <1>1, RequestWritten
  <1>3. /\ UNCHANGED run /\ quiet' = FALSE /\ writes' \in 0 .. MaxWrites
        /\ RunInv' /\ UsersInv' /\ ServersInv' /\ RequestsInv' /\ IdsInv'
    BY <1>1, OthersFrame
  <1>4. NotesInv' /\ raced' \subseteq RequestIds
    BY <1>1, <1>2, <1>3, TouchedKeeps
  <1>5. TypeOK'
    BY <1>1, <1>2, <1>3, <1>4 DEF IInv, TypeOK
  <1> QED BY <1>2, <1>3, <1>4, <1>5 DEF IInv

(* An instance is gone, or a request changes in the old program.            *)
LEMMA OtherTablesKeepIInv ==
  ASSUME IInv, \/ \E u \in Urls : DeleteServer(u)
               \/ \E k \in DOMAIN OldRequests, status \in OldStatus : OldChange(k, status)
  PROVE  IInv'
  <1>1. /\ Others /\ UNCHANGED <<user, request, stale, raced>> /\ server' \subseteq Urls
        /\ old' \in [DOMAIN OldRequests -> OldStatus]
        /\ old' # old => run.pc # "notes"
    BY DEF DeleteServer, OldChange, IInv, TypeOK
  <1>2. /\ UNCHANGED run /\ quiet' = FALSE /\ writes' \in 0 .. MaxWrites
        /\ RunInv' /\ UsersInv' /\ ServersInv' /\ RequestsInv' /\ IdsInv'
    BY <1>1, OthersFrame
  <1>3. TypeOK'
    BY <1>1, <1>2 DEF IInv, TypeOK
  <1>4. OwnerInv' /\ HistoryOfNamesake'
    BY <1>1 DEF IInv, OwnerInv, HistoryOfNamesake, UsedRequests, UsedUsers
  <1>5. NotesInv'
    BY <1>1, <1>2 DEF IInv, NotesInv, Copied
  <1> QED BY <1>2, <1>3, <1>4, <1>5 DEF IInv

-----------------------------------------------------------------------------
(* The run.                                                                 *)

(* What is said of the tables alone stays while they and the history do.    *)
LEMMA TablesFrame ==
  ASSUME IInv, UNCHANGED <<user, request, old, stale>>
  PROVE  /\ OwnerInv' /\ HistoryOfNamesake'
         /\ UNCHANGED run.ids /\ (quiet' => quiet) => IdsInv'
         /\ UsedUsers' = UsedUsers /\ UsedRequests' = UsedRequests
         /\ \A n : Accounts(n)' = Accounts(n)
         /\ \A k : Kept(k)' = Kept(k)
  <1>1. UsedUsers' = UsedUsers /\ UsedRequests' = UsedRequests
    BY DEF UsedUsers, UsedRequests
  <1>2. \A n : Accounts(n)' = Accounts(n)
    BY <1>1 DEF Accounts
  <1>3. \A k : Kept(k)' = Kept(k)
    BY <1>1, <1>2 DEF Kept
  <1>4. OwnerInv' /\ HistoryOfNamesake'
    BY <1>1 DEF IInv, OwnerInv, HistoryOfNamesake
  <1>5. UNCHANGED run.ids /\ (quiet' => quiet) => IdsInv'
    BY DEF IInv, IdsInv
  <1> QED BY <1>1, <1>2, <1>3, <1>4, <1>5

(* A run that has not begun, or is given up, has nothing in its map.        *)
LEMMA FreshRunKeepsIInv ==
  ASSUME IInv, UNCHANGED <<user, server, request, old, writes, stale, raced>>, quiet' \in BOOLEAN,
         run' \in {Idle, [Idle EXCEPT !.pc = "users"]}
  PROVE  IInv'
  <1>1. /\ run' \in Run /\ run'.pc \in {"idle", "users"} /\ run'.k = 1
        /\ \A n \in Logins : run'.ids[n] = 0
    <2>1. /\ [Idle EXCEPT !.pc = "users"].pc = "users" /\ [Idle EXCEPT !.pc = "users"].k = Idle.k
          /\ [Idle EXCEPT !.pc = "users"].ids = Idle.ids
      BY DEF Idle
    <2> QED BY <2>1, IdleRun
  <1>2. TypeOK'
    BY <1>1 DEF IInv, TypeOK
  <1>3. RunInv' /\ IdsInv' /\ NotesInv' /\ ServersInv' /\ RequestsInv'
    BY <1>1 DEF RunInv, IdsInv, NotesInv, ServersInv, RequestsInv
  <1>4. UsersInv'
    BY <1>1, OldRows DEF UsersInv, LookedUp
  <1> QED BY <1>2, <1>3, <1>4, TablesFrame DEF IInv

(* A run begins, is cut off before its last query, or dies.                 *)
LEMMA BeginKeepsIInv == IInv /\ Begin => IInv'
  BY FreshRunKeepsIInv DEF Begin

(* A run that dies keeps no map.                                            *)
LEMMA CrashKeepsIInv == IInv /\ Crash => IInv'
  BY FreshRunKeepsIInv DEF Crash, IInv, TypeOK

(* Cut off in the last query it ends, but not as a whole.                   *)
LEMMA CutKeepsIInv ==
  ASSUME IInv, Cut
  PROVE  IInv'
  <1> USE DEF IInv
  <1>1. UNCHANGED <<user, server, request, old, writes, quiet, stale, raced>>
    BY DEF Cut
  <1>2. CASE run' = Idle
    BY <1>1, <1>2, FreshRunKeepsIInv DEF TypeOK
  <1>3. CASE run.pc = "requests" /\ run' = [run EXCEPT !.pc = "done", !.whole = FALSE]
    <2>1. /\ run' \in Run /\ run'.pc = "done" /\ run'.k = run.k /\ run'.ids = run.ids
          /\ ~run'.whole
      BY <1>3 DEF TypeOK, Run, Phases
    <2>2. TypeOK'
      BY <1>1, <2>1 DEF TypeOK
    <2>3. OwnerInv' /\ HistoryOfNamesake' /\ IdsInv' /\ \A n : Accounts(n)' = Accounts(n)
      BY <1>1, <2>1, TablesFrame
    <2>4. RunInv' /\ NotesInv' /\ RequestsInv'
      BY <2>1 DEF RunInv, NotesInv, RequestsInv
    <2>5. UsersInv'
      BY <1>1, <1>3, <2>1, <2>3 DEF UsersInv, LookedUp
    <2>6. ServersInv'
      BY <1>1, <1>3, <2>1 DEF ServersInv
    <2> QED BY <2>2, <2>3, <2>4, <2>5, <2>6
  <1> QED BY <1>2, <1>3 DEF Cut, At

(* An account with the name, or with the name as its address, enters the map.*)
LEMMA FindUserKeepsIInv ==
  ASSUME IInv, FindUser
  PROVE  IInv'
  <1> USE DEF IInv
  <1> DEFINE name == OldUsers[run.k].name
             found == Accounts(name)
  <1>1. /\ UNCHANGED <<user, server, request, old, writes, quiet, stale, raced>>
        /\ run.pc = "users" /\ run.k <= Len(OldUsers)
        /\ \/ \E i \in found : run' = [run EXCEPT !.ids[name] = i, !.k = @ + 1]
           \/ found = {} /\ run' = [run EXCEPT !.pc = "adduser"]
    BY DEF FindUser, At
  <1>2. run \in Run /\ run.k \in DOMAIN OldUsers /\ name \in Logins /\ run.k \in Nat
    <2>1. run \in Run /\ run.k \in Nat /\ run.k >= 1 /\ run.k <= Len(OldUsers)
      BY <1>1, RunParts DEF TypeOK, RunInv
    <2>2. run.k \in DOMAIN OldUsers
      BY <2>1, OldRows
    <2>3. name \in Logins
      BY <2>2, OldRows, Rows
    <2> QED BY <2>1, <2>2, <2>3
  <1>3. /\ OwnerInv' /\ HistoryOfNamesake' /\ \A n : Accounts(n)' = Accounts(n)
        /\ UNCHANGED run.ids => IdsInv'
    BY <1>1, TablesFrame
  <1> HIDE DEF name
  <1>4. CASE found = {} /\ run' = [run EXCEPT !.pc = "adduser"]
    <2>1. run' \in Run /\ run'.pc = "adduser" /\ run'.k = run.k /\ run'.ids = run.ids
      BY <1>2, <1>4 DEF Run, Phases
    <2>2. TypeOK' /\ RunInv' /\ NotesInv' /\ ServersInv' /\ RequestsInv'
      BY <1>1, <2>1 DEF TypeOK, RunInv, NotesInv, ServersInv, RequestsInv
    <2>3. UsersInv'
      BY <1>1, <1>3, <1>4, <2>1 DEF UsersInv, LookedUp, name
    <2> QED BY <1>3, <2>1, <2>2, <2>3
  <1>5. ASSUME NEW i \in found, run' = [run EXCEPT !.ids[name] = i, !.k = @ + 1]
        PROVE  IInv'
    <2>1. i \in UserIds /\ name \in {user[i].name, user[i].mail}
      BY DEF Accounts, UsedUsers
    <2>2. i \in 0 .. MaxUser /\ i # 0
      BY <2>1 DEF UserIds
    <2>3. run' \in Run
      <3>1. [run.ids EXCEPT ![name] = i] \in [Logins -> 0 .. MaxUser]
        BY <1>2, <2>2, RunParts
      <3>2. run' = [run EXCEPT !.ids = [run.ids EXCEPT ![name] = i], !.k = run.k + 1]
        BY <1>2, <1>5 DEF Run
      <3>3. run.k + 1 \in Nat
        BY <1>2
      <3> QED BY <1>2, <3>1, <3>2, <3>3, RunChanged
    <2>4. /\ run'.pc = run.pc /\ run'.k = run.k + 1 /\ run'.ids = [run.ids EXCEPT ![name] = i]
      BY <1>2, <1>5 DEF Run
    <2>5. \A n \in Logins : run'.ids[n] = IF n = name THEN i ELSE run.ids[n]
      BY <1>2, <2>4, RunParts
    <2>6. TypeOK' /\ RunInv' /\ NotesInv' /\ ServersInv' /\ RequestsInv'
      <3>1. run'.k \in Nat /\ run'.k >= 1
        BY <1>2, <2>4
      <3> QED BY <1>1, <2>3, <2>4, <3>1 DEF TypeOK, RunInv, NotesInv, ServersInv, RequestsInv
    <2>7. IdsInv'
      BY <1>1, <2>1, <2>5 DEF IdsInv
    <2>8. UsersInv'
      <3> SUFFICES ASSUME quiet, NEW j \in DOMAIN OldUsers, j < run.k + 1,
                          Accounts(OldUsers[j].name) # {}, ~Shadowed(OldUsers[j].name)
                   PROVE  run'.ids[OldUsers[j].name] # 0
        BY <1>1, <1>3, <2>4 DEF UsersInv, LookedUp
      <3>1. OldUsers[j].name \in Logins /\ j \in Nat
        BY OldRows, Rows
      <3>2. CASE OldUsers[j].name = name
        BY <2>2, <2>5, <3>1, <3>2
      <3>3. CASE OldUsers[j].name # name
        <4>1. j < run.k
          BY <1>2, <3>1, <3>3 DEF name
        <4> QED BY <1>1, <2>5, <3>1, <3>3, <4>1 DEF UsersInv, LookedUp
      <3> QED BY <3>2, <3>3
    <2> QED BY <1>3, <2>6, <2>7, <2>8
  <1> QED BY <1>1, <1>4, <1>5

(* An old user without an account gets one, or is refused: nobody has the   *)
(* name then, nor gets it from a later old user unless that shadows it.     *)
LEMMA AddUserKeepsIInv ==
  ASSUME IInv, AddUser
  PROVE  IInv'
  <1> USE DEF IInv
  <1> DEFINE u == OldUsers[run.k]
  <1>1. /\ UNCHANGED <<server, request, old, writes, quiet, stale, raced>> /\ run.pc = "adduser"
        /\ \/ \E i \in UserIds : /\ IsNextId(i, UsedUsers) /\ user' = [user EXCEPT ![i] = u]
                                 /\ run' = [run EXCEPT !.pc = "users", !.k = @ + 1, !.ids[u.name] = i]
           \/ run' = [run EXCEPT !.pc = "users", !.k = @ + 1] /\ UNCHANGED user
    BY DEF AddUser
  <1>2. /\ run \in Run /\ run.k \in DOMAIN OldUsers /\ u \in User /\ u.name \in Logins
        /\ run.k \in Nat /\ run.k + 1 \in Nat
    <2>1. run \in Run /\ run.k \in Nat /\ run.k >= 1 /\ run.k <= Len(OldUsers)
      BY <1>1, RunParts DEF TypeOK, RunInv
    <2>2. run.k \in DOMAIN OldUsers
      BY <2>1, OldRows
    <2> QED BY <2>1, <2>2, OldRows, Rows
  <1>3. quiet => Accounts(u.name) = {}
    BY <1>1 DEF UsersInv
  <1>4. ASSUME quiet, NEW j \in DOMAIN OldUsers, j < run.k, ~Shadowed(OldUsers[j].name),
               Accounts(OldUsers[j].name) # {}
        PROVE  run.ids[OldUsers[j].name] # 0
    BY <1>1, <1>4 DEF UsersInv, LookedUp
  <1>5. ASSUME NEW j \in DOMAIN OldUsers, j < run.k, ~Shadowed(OldUsers[j].name)
        PROVE  OldUsers[j].name # u.mail
    BY <1>2, <1>5 DEF Shadowed
  <1>6. \A j \in DOMAIN OldUsers : j \in Nat /\ OldUsers[j].name \in Logins
    BY OldRows, Rows
  <1>7. u = OldUsers[run.k]
    OBVIOUS
  <1> HIDE DEF u
  <1>8. CASE run' = [run EXCEPT !.pc = "users", !.k = @ + 1] /\ UNCHANGED user
    <2>1. run' \in Run /\ run'.pc = "users" /\ run'.k = run.k + 1 /\ run'.ids = run.ids
      <3>1. run'.pc = "users" /\ run'.k = run.k + 1 /\ run'.ids = run.ids
        BY <1>2, <1>8, Zenon DEF Run
      <3>2. run' = [run EXCEPT !.pc = "users", !.ids = run.ids, !.k = run.k + 1]
        BY <1>2, <1>8, Zenon DEF Run
      <3>3. run' \in Run
        BY <1>2, <3>2, RunChanged, RunParts, Zenon DEF Phases
      <3> QED BY <3>1, <3>3
    <2>2. /\ OwnerInv' /\ HistoryOfNamesake' /\ IdsInv' /\ \A n : Accounts(n)' = Accounts(n)
      BY <1>1, <1>8, <2>1, TablesFrame
    <2>3. TypeOK' /\ RunInv' /\ NotesInv' /\ ServersInv' /\ RequestsInv'
      BY <1>1, <1>2, <1>8, <2>1 DEF TypeOK, RunInv, NotesInv, ServersInv, RequestsInv
    <2>4. UsersInv'
      <3> SUFFICES ASSUME quiet, NEW j \in DOMAIN OldUsers, j < run.k + 1,
                          Accounts(OldUsers[j].name) # {}, ~Shadowed(OldUsers[j].name)
                   PROVE  run.ids[OldUsers[j].name] # 0
        BY <1>1, <2>1, <2>2 DEF UsersInv, LookedUp
      <3>1. j # run.k
        BY <1>3, <1>7
      <3>2. j < run.k
        BY <1>2, <1>6, <3>1
      <3> QED BY <1>4, <3>2
    <2> QED BY <2>2, <2>3, <2>4
  <1>9. ASSUME NEW i \in UserIds, IsNextId(i, UsedUsers), user' = [user EXCEPT ![i] = u],
               run' = [run EXCEPT !.pc = "users", !.k = @ + 1, !.ids[u.name] = i]
        PROVE  IInv'
    <2>1. i \notin UsedUsers /\ i \in 0 .. MaxUser /\ i # 0
      <3>1. i \notin UsedUsers
        BY <1>9 DEF IsNextId
      <3>2. i \in 0 .. MaxUser /\ i # 0
        BY DEF UserIds
      <3> QED BY <3>1, <3>2
    <2>2. run' \in Run
      <3>1. [run.ids EXCEPT ![u.name] = i] \in [Logins -> 0 .. MaxUser]
        BY <1>2, <2>1, RunParts
      <3>2. run' = [run EXCEPT !.pc = "users", !.ids = [run.ids EXCEPT ![u.name] = i],
                               !.k = run.k + 1]
        BY <1>2, <1>9, Zenon DEF Run
      <3> QED BY <1>2, <3>1, <3>2, RunChanged, Zenon DEF Phases
    <2>3. /\ run'.pc = "users" /\ run'.k = run.k + 1
          /\ run'.ids = [run.ids EXCEPT ![u.name] = i]
      BY <1>2, <1>9 DEF Run
    <2>4. \A n \in Logins : run'.ids[n] = IF n = u.name THEN i ELSE run.ids[n]
      BY <1>2, <2>3, RunParts
    <2>5. /\ user' \in [UserIds -> User \cup {NoUser}] /\ OwnerInv' /\ HistoryOfNamesake'
          /\ \A j \in UserIds : user'[j] = IF j = i THEN u ELSE user[j]
          /\ \A n \in Logins : Accounts(n)' = IF n \in {u.name, u.mail} THEN Accounts(n) \cup {i}
                                              ELSE Accounts(n)
      <3>1. UNCHANGED <<request, stale>>
        BY <1>1
      <3> QED BY <1>2, <1>9, <2>1, <3>1, UserAdded
    <2>6. TypeOK'
      BY <1>1, <2>2, <2>5 DEF TypeOK
    <2>7. RunInv' /\ NotesInv' /\ ServersInv' /\ RequestsInv'
      BY <1>2, <2>3 DEF RunInv, NotesInv, ServersInv, RequestsInv
    <2>8. IdsInv'
      <3> SUFFICES ASSUME NEW n \in Logins, run'.ids[n] # 0, quiet \/ n \notin stale
                   PROVE  n \in {user'[run'.ids[n]].name, user'[run'.ids[n]].mail}
        BY <1>1 DEF IdsInv
      <3>1. CASE n = u.name
        BY <2>4, <2>5, <3>1
      <3>2. CASE n # u.name
        <4>1. run'.ids[n] = run.ids[n] /\ run.ids[n] \in UserIds
          BY <1>2, <2>4, <3>2, RunParts
        <4>2. n \in {user[run.ids[n]].name, user[run.ids[n]].mail}
          BY <4>1 DEF IdsInv
        <4>3. run.ids[n] # i
          BY <2>1, <4>1, <4>2, Rows DEF UsedUsers
        <4> QED BY <2>5, <4>1, <4>2, <4>3
      <3> QED BY <3>1, <3>2
    <2>9. UsersInv'
      <3> SUFFICES ASSUME quiet, NEW j \in DOMAIN OldUsers, j < run.k + 1,
                          Accounts(OldUsers[j].name)' # {}, ~Shadowed(OldUsers[j].name)
                   PROVE  run'.ids[OldUsers[j].name] # 0
        BY <1>1, <2>3 DEF UsersInv, LookedUp
      <3>1. CASE OldUsers[j].name = u.name
        BY <1>6, <2>1, <2>4, <3>1
      <3>2. CASE OldUsers[j].name # u.name
        <4>1. j < run.k
          BY <1>2, <1>6, <1>7, <3>2
        <4>2. Accounts(OldUsers[j].name) # {}
          BY <1>5, <1>6, <2>5, <3>2, <4>1
        <4> QED BY <1>4, <1>6, <2>4, <3>2, <4>1, <4>2
      <3> QED BY <3>1, <3>2
    <2> QED BY <2>5, <2>6, <2>7, <2>8, <2>9
  <1> QED BY <1>1, <1>8, <1>9

(* The next result set: of the one before no row is left.                   *)
LEMMA NextQueryKeepsIInv ==
  ASSUME IInv, NextQuery
  PROVE  IInv'
  <1> USE DEF IInv
  <1>1. /\ UNCHANGED <<user, server, request, old, writes, quiet, stale, raced>>
        /\ run \in Run /\ run.k \in Nat
    BY RunParts DEF NextQuery, TypeOK
  <1>2. /\ run' \in Run /\ run'.ids = run.ids /\ run'.whole = run.whole
        /\ \/ /\ run.pc = "users" /\ run.k > Len(OldUsers)
              /\ run'.pc = "servers" /\ run'.k = 1
           \/ /\ run.pc = "servers" /\ run.k > Len(OldServers)
              /\ run'.pc = "requests" /\ run'.k = 1
           \/ /\ run.pc = "requests" /\ run.k > Len(OldRequests)
              /\ run'.pc = "done" /\ run'.k = run.k
    <2>1. CASE Past("users", OldUsers) /\ run' = [run EXCEPT !.pc = "servers", !.k = 1]
      BY <1>1, <2>1 DEF Past, Run, Phases
    <2>2. CASE Past("servers", OldServers) /\ run' = [run EXCEPT !.pc = "requests", !.k = 1]
      BY <1>1, <2>2 DEF Past, Run, Phases
    <2>3. CASE Past("requests", OldRequests) /\ run' = [run EXCEPT !.pc = "done"]
      BY <1>1, <2>3 DEF Past, Run, Phases
    <2> QED BY <2>1, <2>2, <2>3 DEF NextQuery
  <1>3. /\ OwnerInv' /\ HistoryOfNamesake' /\ IdsInv'
        /\ \A n : Accounts(n)' = Accounts(n) /\ \A k : Kept(k)' = Kept(k)
    BY <1>1, <1>2, TablesFrame
  <1>4. TypeOK' /\ RunInv' /\ NotesInv'
    BY <1>1, <1>2 DEF TypeOK, RunInv, NotesInv
  <1>5. UsersInv'
    <2>1. run.pc = "users" => \A j \in DOMAIN OldUsers : j < run.k
      BY <1>1, <1>2, OldRows
    <2> QED BY <1>1, <1>2, <1>3, <2>1 DEF UsersInv, LookedUp
  <1>6. ServersInv'
    <2>1. run.pc = "servers" => \A j \in DOMAIN OldServers : j < run.k
      BY <1>1, <1>2, OldRows
    <2>2. \A j \in DOMAIN OldServers : ~(j < 1)
      BY OldRows
    <2> QED BY <1>1, <1>2, <2>1, <2>2 DEF ServersInv
  <1>7. RequestsInv'
    <2>1. run.pc = "requests" => \A j \in DOMAIN OldRequests : j < run.k
      BY <1>1, <1>2, OldRows
    <2>2. \A j \in DOMAIN OldRequests : ~(j < 1)
      BY OldRows
    <2> QED BY <1>1, <1>2, <1>3, <2>1, <2>2 DEF RequestsInv
  <1> QED BY <1>3, <1>4, <1>5, <1>6, <1>7

(* A supported instance is there afterwards, whether it was before or not.  *)
LEMMA AddServerKeepsIInv ==
  ASSUME IInv, AddServer
  PROVE  IInv'
  <1> USE DEF IInv
  <1>1. /\ UNCHANGED <<user, request, old, writes, quiet, stale, raced>>
        /\ run.pc = "servers" /\ run.k <= Len(OldServers) /\ run \in Run /\ run.k \in Nat
        /\ run.k >= 1
        /\ run' = [run EXCEPT !.k = @ + 1]
        /\ server' = IF OldServers[run.k].supported THEN server \cup {OldServers[run.k].url}
                     ELSE server
    BY RunParts DEF AddServer, At, TypeOK, RunInv
  <1>2. run.k \in DOMAIN OldServers /\ OldServers[run.k].url \in Urls
    BY <1>1, OldRows
  <1>3. /\ run'.pc = run.pc /\ run'.k = run.k + 1 /\ run'.ids = run.ids /\ run'.whole = run.whole
    BY <1>1 DEF Run
  <1>4. run' \in Run
    <2>1. run.k + 1 \in Nat
      BY <1>1
    <2> QED BY <1>1, <2>1 DEF Run
  <1>5. /\ OwnerInv' /\ HistoryOfNamesake' /\ IdsInv' /\ \A n : Accounts(n)' = Accounts(n)
    BY <1>1, <1>3, TablesFrame
  <1>6. TypeOK'
    BY <1>1, <1>2, <1>4 DEF TypeOK
  <1>7. RunInv' /\ NotesInv' /\ RequestsInv'
    BY <1>1, <1>3 DEF RunInv, NotesInv, RequestsInv
  <1>8. UsersInv'
    BY <1>1, <1>3, <1>5 DEF UsersInv, LookedUp
  <1>9. ServersInv'
    <2>1. \A j \in DOMAIN OldServers : j < run.k + 1 => j < run.k \/ j = run.k
      BY <1>1, OldRows
    <2>2. quiet => \A j \in DOMAIN OldServers :
                     j < run.k /\ OldServers[j].supported => OldServers[j].url \in server
      BY <1>1 DEF ServersInv
    <2> QED BY <1>1, <1>3, <2>1, <2>2 DEF ServersInv
  <1> QED BY <1>5, <1>6, <1>7, <1>8, <1>9

(* An old user in the map has the account there; so has one who has any.    *)
LEMMA MapLeadsHome ==
  ASSUME IInv, quiet, NEW n \in Logins, run.ids[n] # 0
  PROVE  run.ids[n] \in Accounts(n) /\ run.ids[n] \in UsedUsers
  <1>1. run.ids[n] \in UserIds
    BY RunParts DEF IInv, TypeOK
  <1>2. n \in {user[run.ids[n]].name, user[run.ids[n]].mail}
    BY DEF IInv, IdsInv
  <1> QED BY <1>1, <1>2, Rows DEF Accounts, UsedUsers

(* What is kept stays kept while the rows there are stay.                   *)
LEMMA KeptStays ==
  ASSUME user' = user, \A i \in UsedRequests : i \in UsedRequests' /\ request'[i] = request[i]
  PROVE  \A k : Kept(k) => Kept(k)'
  <1>1. \A n : Accounts(n)' = Accounts(n)
    BY DEF Accounts, UsedUsers
  <1> QED BY <1>1 DEF Kept

(* A request enters the table, or something is there in its place.          *)
LEMMA AddRequestKeepsIInv ==
  ASSUME IInv, AddRequest
  PROVE  IInv'
  <1> SUFFICES ASSUME NEW k, k = run.k PROVE IInv'
    BY Zenon
  <1> DEFINE n == OldRequests[k].user
             r == Copied(k, run.ids[n])
             accepted == r.owner \in UsedUsers /\ IndexAllows(0, r)
  <1>1. /\ UNCHANGED <<user, server, old, writes, quiet, stale, raced>>
        /\ run.pc = "requests" /\ k <= Len(OldRequests) /\ run \in Run /\ k \in Nat /\ k >= 1
    <2>1. /\ UNCHANGED <<user, server, old, writes, quiet, stale, raced>>
          /\ run.pc = "requests" /\ run.k <= Len(OldRequests)
      BY Zenon DEF AddRequest, At
    <2>2. run \in Run /\ run.k \in Nat /\ run.k >= 1
      BY RunParts DEF IInv, TypeOK, RunInv
    <2> QED BY <2>1, <2>2
  <1>2. k \in DOMAIN OldRequests /\ k + 1 \in Nat
    <2>1. k \in Nat /\ k >= 1 /\ k <= Len(OldRequests)
      BY <1>1
    <2> QED BY <2>1, OldRows
  <1>3. n \in Logins /\ \E m \in DOMAIN OldUsers : OldUsers[m].name = n
    BY <1>2, OldRows
  <1>4. /\ r.owner = run.ids[n] /\ r.artist = OldRequests[k].artist
        /\ accepted <=> r.owner \in UsedUsers /\ IndexAllows(0, r)
    BY Zenon DEF Copied
  <1>5. \A j \in DOMAIN OldRequests : j < k + 1 => j < k \/ j = k
    <2>1. k \in Nat
      BY <1>1
    <2> QED BY <2>1, OldRows
  <1>6. \/ /\ accepted
           /\ \E i \in RequestIds :
                /\ IsNextId(i, UsedRequests) /\ request' = [request EXCEPT ![i] = r]
                /\ run' = IF OldRequests[k].noted THEN [run EXCEPT !.pc = "notes", !.id = i]
                          ELSE [run EXCEPT !.k = @ + 1]
        \/ ~accepted /\ run' = [run EXCEPT !.k = @ + 1] /\ UNCHANGED request
    BY Zenon DEF AddRequest
  <1>7. r = Copied(k, run.ids[n])
    OBVIOUS
  <1> HIDE DEF r, accepted
  <1>8. CASE ~accepted /\ run' = [run EXCEPT !.k = @ + 1] /\ UNCHANGED request
    <2>1. /\ run'.pc = run.pc /\ run'.k = k + 1 /\ run'.ids = run.ids /\ run'.whole = run.whole
      BY <1>1, <1>8 DEF Run
    <2>2. run' \in Run
      BY <1>1, <1>2, <1>8 DEF Run
    <2>3. /\ OwnerInv' /\ HistoryOfNamesake' /\ IdsInv'
          /\ \A x : Accounts(x)' = Accounts(x) /\ \A j : Kept(j)' = Kept(j)
      BY <1>1, <1>8, <2>1, TablesFrame
    <2>4. TypeOK' /\ RunInv' /\ NotesInv' /\ ServersInv'
      <3>1. TypeOK'
        BY <1>1, <1>8, <2>2 DEF IInv, TypeOK
      <3>2. run'.k >= 1
        BY <1>1, <2>1
      <3> QED BY <1>1, <2>1, <3>1, <3>2 DEF IInv, RunInv, NotesInv, ServersInv
    <2>5. UsersInv'
      BY <1>1, <2>1, <2>3 DEF IInv, UsersInv, LookedUp
    <2>6. quiet => Kept(k)
      <3> SUFFICES ASSUME quiet, Accounts(n) # {}, ~Shadowed(n)
                   PROVE  \E i \in UsedRequests : /\ request[i].artist = OldRequests[k].artist
                                                  /\ request[i].owner \in Accounts(n)
                                                  /\ request[i].status \in Open
        BY DEF Kept
      <3>1. run.ids[n] # 0
        BY <1>1, <1>3 DEF IInv, UsersInv, LookedUp
      <3>2. run.ids[n] \in Accounts(n) /\ run.ids[n] \in UsedUsers
        BY <1>3, <3>1, MapLeadsHome
      <3>3. PICK j \in UsedRequests : /\ request[j].status \in Open
                                      /\ <<request[j].owner, request[j].artist>> = <<r.owner, r.artist>>
        BY <1>4, <1>8, <3>2 DEF IndexAllows
      <3> QED BY <1>4, <3>2, <3>3
    <2>7. RequestsInv'
      BY <1>1, <1>5, <2>1, <2>3, <2>6 DEF IInv, RequestsInv
    <2> QED BY <2>3, <2>4, <2>5, <2>7 DEF IInv
  <1>9. ASSUME accepted, NEW i \in RequestIds, IsNextId(i, UsedRequests),
               request' = [request EXCEPT ![i] = r],
               run' = IF OldRequests[k].noted THEN [run EXCEPT !.pc = "notes", !.id = i]
                      ELSE [run EXCEPT !.k = @ + 1]
        PROVE  IInv'
    <2>1. run.ids[n] \in UsedUsers /\ run.ids[n] \in UserIds /\ run.ids[n] # 0
      BY <1>4, <1>9 DEF UsedUsers, UserIds
    <2>2. /\ r \in Request /\ r.owner = run.ids[n] /\ r.from = k
          /\ r.artist = OldRequests[k].artist
      BY <1>2, <1>7, <2>1, CopiedRow DEF IInv
    <2>3. /\ run'.ids = run.ids /\ run'.whole = run.whole
          /\ \/ run'.pc = "notes" /\ run'.k = k /\ run'.id = i
             \/ run'.pc = "requests" /\ run'.k = k + 1
      BY <1>1, <1>9 DEF Run
    <2>4. run' \in Run
      <3>1. i \in 0 .. MaxRequest
        BY DEF RequestIds
      <3> QED BY <1>1, <1>2, <1>9, <3>1 DEF Run, Phases
    <2>5. n \notin stale => n \in {user[r.owner].name, user[r.owner].mail}
      BY <1>3, <2>1, <2>2 DEF IInv, IdsInv
    <2>6. /\ request' \in [RequestIds -> Request \cup {NoRequest}] /\ OwnerInv' /\ HistoryOfNamesake'
          /\ \A j \in RequestIds : request'[j] = IF j = i THEN r ELSE request[j]
      BY <1>1, <1>9, <2>1, <2>2, <2>5, RequestWritten
    <2>7. TypeOK' /\ ServersInv'
      <3>1. TypeOK'
        BY <1>1, <2>4, <2>6 DEF IInv, TypeOK
      <3>2. ServersInv'
        BY <1>1, <2>3 DEF IInv, ServersInv
      <3> QED BY <3>1, <3>2
    <2>8. RunInv'
      BY <1>1, <1>2, <2>3 DEF RunInv, RequestIds
    <2>9. IdsInv'
      BY <1>1, <2>3 DEF IInv, IdsInv
    <2>10. NotesInv'
      <3>1. request'[i] = r
        BY <2>6
      <3> QED BY <1>1, <1>7, <2>3, <3>1 DEF NotesInv, Copied
    <2>11. UsersInv'
      <3>1. \A x : Accounts(x)' = Accounts(x)
        BY <1>1 DEF Accounts, UsedUsers
      <3> QED BY <1>1, <2>3, <3>1 DEF IInv, UsersInv, LookedUp
    <2>12. \A j \in UsedRequests : j \in UsedRequests' /\ request'[j] = request[j]
      BY <1>9, <2>6 DEF IsNextId, UsedRequests
    <2>13. \A j : Kept(j) => Kept(j)'
      BY <1>1, <2>12, KeptStays
    <2>14. quiet => Kept(k)'
      <3>1. quiet => run.ids[n] \in Accounts(n)
        <4> HIDE DEF n
        <4> QED BY <1>3, <2>1, MapLeadsHome
      <3>2. Accounts(n)' = Accounts(n)
        BY <1>1 DEF Accounts, UsedUsers
      <3>3. i \in UsedRequests' /\ request'[i] = r
        BY <2>2, <2>6, Rows DEF UsedRequests
      <3> QED BY <2>2, <3>1, <3>2, <3>3 DEF Kept
    <2>15. RequestsInv'
      BY <1>1, <1>5, <2>3, <2>13, <2>14 DEF IInv, RequestsInv
    <2> QED BY <2>6, <2>7, <2>8, <2>9, <2>10, <2>11, <2>15 DEF IInv
  <1> QED BY <1>8, <1>9, <1>6

(* The UPDATE of a row that nobody else wrote changes nothing in it.        *)
LEMMA NoteChangesNothing ==
  ASSUME IInv, WriteNotes, quiet \/ run.id \notin raced
  PROVE  request' = request
  <1> DEFINE r == [request[run.id] EXCEPT !.status = Mapped(old[run.k])]
  <1>1. /\ run.pc = "notes"
        /\ request' = IF run.id \in UsedRequests /\ IndexAllows(run.id, r)
                        THEN [request EXCEPT ![run.id] = r] ELSE request
    BY DEF WriteNotes
  <1>2. request[run.id] = Copied(run.k, run.ids[OldRequests[run.k].user])
    BY <1>1 DEF IInv, NotesInv
  <1>3. r = request[run.id]
    BY <1>2 DEF Copied
  <1>4. request \in [RequestIds -> Request \cup {NoRequest}] /\ UsedRequests \subseteq RequestIds
    BY DEF IInv, TypeOK, UsedRequests
  <1> QED BY <1>1, <1>3, <1>4

(* The note is written; the request of the row is dealt with.               *)
LEMMA WriteNotesKeepsIInv ==
  ASSUME IInv, WriteNotes
  PROVE  IInv'
  <1> USE DEF IInv
  <1> DEFINE i == run.id
             k == run.k
             n == OldRequests[k].user
             r == [request[i] EXCEPT !.status = Mapped(old[k])]
  <1>1. /\ UNCHANGED <<user, server, old, writes, quiet, stale, raced>>
        /\ run.pc = "notes" /\ run \in Run /\ k \in Nat /\ k >= 1 /\ i \in RequestIds
        /\ k <= Len(OldRequests)
        /\ run' = [run EXCEPT !.pc = "requests", !.k = @ + 1, !.id = 0]
        /\ request' = IF i \in UsedRequests /\ IndexAllows(i, r)
                        THEN [request EXCEPT ![i] = r] ELSE request
    BY RunParts DEF WriteNotes, TypeOK, RunInv
  <1>2. k \in DOMAIN OldRequests /\ n \in Logins /\ Mapped(old[k]) \in Status
    BY <1>1, OldRows, MappedStatus DEF TypeOK
  <1>3. /\ run'.pc = "requests" /\ run'.k = k + 1 /\ run'.ids = run.ids /\ run'.whole = run.whole
    BY <1>1 DEF Run
  <1>4. run' \in Run
    <2>1. k + 1 \in Nat /\ 0 \in 0 .. MaxRequest
      BY <1>1, Limits
    <2> QED BY <1>1, <2>1 DEF Run, Phases
  <1>5. request' \in [RequestIds -> Request \cup {NoRequest}] /\ OwnerInv' /\ HistoryOfNamesake'
    <2>1. CASE i \in UsedRequests /\ request' = [request EXCEPT ![i] = r]
      <3>1. request[i] \in Request
        BY <2>1 DEF UsedRequests, TypeOK
      <3>2. r \in Request /\ r.owner = request[i].owner /\ r.from = request[i].from
        BY <1>2, <3>1 DEF Request
      <3> HIDE DEF r
      <3>3. /\ r.owner \in UsedUsers
            /\ r.from # 0 /\ OldRequests[r.from].user \notin stale =>
                 OldRequests[r.from].user \in {user[r.owner].name, user[r.owner].mail}
        BY <2>1, <3>2 DEF OwnerInv, HistoryOfNamesake
      <3> QED BY <1>1, <2>1, <3>2, <3>3, RequestWritten
    <2>2. CASE request' = request
      BY <1>1, <2>2, TablesFrame DEF TypeOK
    <2> QED BY <1>1, <2>1, <2>2
  <1>6. TypeOK' /\ NotesInv' /\ ServersInv' /\ IdsInv'
    BY <1>1, <1>3, <1>4, <1>5 DEF TypeOK, NotesInv, ServersInv, IdsInv
  <1>7. RunInv'
    BY <1>1, <1>3 DEF RunInv
  <1>8. UsersInv'
    <2>1. \A x : Accounts(x)' = Accounts(x)
      BY <1>1 DEF Accounts, UsedUsers
    <2> QED BY <1>1, <1>3, <2>1 DEF UsersInv, LookedUp
  <1>9. RequestsInv'
    <2> SUFFICES ASSUME quiet, run.whole, NEW j \in DOMAIN OldRequests, j < k + 1 PROVE Kept(j)'
      BY <1>1, <1>3 DEF RequestsInv
    <2>1. request' = request
      BY NoteChangesNothing
    <2>2. Kept(j)' = Kept(j)
      BY <1>1, <2>1, TablesFrame
    <2>3. CASE j < k
      BY <1>1, <2>2, <2>3 DEF RequestsInv
    <2>4. CASE j = k
      <3>1. request[i] = Copied(k, run.ids[n])
        BY <1>1 DEF NotesInv
      <3>2. i \in UsedRequests
        <4>1. k \in Nat \ {0}
          BY <1>1
        <4>2. request[i] # NoRequest
          BY <3>1, <4>1, CopiedIsARow
        <4> QED BY <1>1, <4>2 DEF UsedRequests
      <3>3. /\ request[i].owner = run.ids[n] /\ request[i].from = k
            /\ request[i].artist = OldRequests[k].artist
        BY <3>1 DEF Copied
      <3>4. run.ids[n] # 0
        <4>1. run.ids[n] \in UserIds
          BY <3>2, <3>3 DEF OwnerInv, UsedUsers
        <4> QED BY <4>1 DEF UserIds
      <3>5. run.ids[n] \in Accounts(n)
        BY <1>2, <3>4, MapLeadsHome
      <3> QED BY <2>2, <2>4, <3>2, <3>3, <3>5 DEF Kept
    <2>5. j < k \/ j = k
      BY <1>1, OldRows
    <2> QED BY <2>3, <2>4, <2>5
  <1> QED BY <1>5, <1>6, <1>7, <1>8, <1>9

(* Every step keeps the inductive invariant.                                *)
LEMMA NextKeepsIInv == IInv /\ [Next]_vars => IInv'
  <1> SUFFICES ASSUME IInv, [Next]_vars PROVE IInv'
    OBVIOUS
  <1>1. CASE Begin \/ Cut \/ Crash
    BY <1>1, BeginKeepsIInv, CutKeepsIInv, CrashKeepsIInv
  <1>2. CASE ImportStep
    BY <1>2, FindUserKeepsIInv, AddUserKeepsIInv, NextQueryKeepsIInv, AddServerKeepsIInv,
       AddRequestKeepsIInv, WriteNotesKeepsIInv DEF ImportStep
  <1>3. ASSUME NEW u \in Locals, CreateUser(u) PROVE IInv'
    BY <1>3, CreateUserKeepsIInv
  <1>4. ASSUME NEW i \in UserIds, DeleteUser(i) PROVE IInv'
    BY <1>4, DeleteUserKeepsIInv
  <1>5. ASSUME NEW i \in UserIds, NEW artist \in Artists, Ask(i, artist) PROVE IInv'
    BY <1>5, AskKeepsIInv
  <1>6. ASSUME NEW i \in RequestIds, NEW status \in Status, Decide(i, status) PROVE IInv'
    BY <1>6, DecideKeepsIInv
  <1>7. ASSUME NEW i \in RequestIds, DeleteRequest(i) PROVE IInv'
    BY <1>7, DeleteRequestKeepsIInv
  <1>8. CASE \/ \E u \in Urls : DeleteServer(u)
             \/ \E k \in DOMAIN OldRequests, status \in OldStatus : OldChange(k, status)
    BY <1>8, OtherTablesKeepIInv
  <1>9. CASE UNCHANGED vars
    <2>1. /\ UNCHANGED <<user, server, request, old, run, writes, quiet, stale, raced>>
      BY <1>9 DEF vars
    <2>2. /\ OwnerInv' /\ HistoryOfNamesake' /\ IdsInv'
          /\ \A n : Accounts(n)' = Accounts(n) /\ \A k : Kept(k)' = Kept(k)
      BY <2>1, TablesFrame
    <2>3. TypeOK' /\ RunInv' /\ NotesInv' /\ ServersInv'
      BY <2>1 DEF IInv, TypeOK, RunInv, NotesInv, ServersInv, Copied
    <2>4. UsersInv' /\ RequestsInv'
      BY <2>1, <2>2 DEF IInv, UsersInv, LookedUp, RequestsInv
    <2> QED BY <2>2, <2>3, <2>4 DEF IInv
  <1> QED BY <1>1, <1>2, <1>3, <1>4, <1>5, <1>6, <1>7, <1>8, <1>9 DEF Next

(* A step of a run touches no row it finds.                                 *)
LEMMA ImportOverwritesNothing ==
  ASSUME IInv, ImportStep
  PROVE  /\ \A i \in UsedUsers : user'[i] = user[i]
         /\ \A i \in UsedRequests \ raced : request'[i] = request[i]
         /\ server \subseteq server'
  <1>1. CASE FindUser \/ NextQuery \/ AddServer
    BY <1>1 DEF FindUser, NextQuery, AddServer
  <1>2. CASE AddUser
    <2>1. CASE UNCHANGED user
      BY <1>2, <2>1 DEF AddUser
    <2>2. CASE \E i \in UserIds : /\ IsNextId(i, UsedUsers)
                                  /\ user' = [user EXCEPT ![i] = OldUsers[run.k]]
      <3>1. PICK i \in UserIds : IsNextId(i, UsedUsers) /\ user' = [user EXCEPT ![i] = OldUsers[run.k]]
        BY <2>2
      <3>2. i \notin UsedUsers
        BY <3>1 DEF IsNextId
      <3>3. \A j \in UsedUsers : user'[j] = user[j]
        BY <3>1, <3>2 DEF UsedUsers, IInv, TypeOK
      <3> QED BY <1>2, <3>3, Zenon DEF AddUser
    <2> QED BY <1>2, <2>1, <2>2 DEF AddUser
  <1>3. CASE AddRequest
    <2>1. /\ UNCHANGED <<user, server>>
          /\ \/ UNCHANGED request
             \/ \E i \in RequestIds : \E r : /\ IsNextId(i, UsedRequests)
                                             /\ request' = [request EXCEPT ![i] = r]
      BY <1>3, Zenon DEF AddRequest
    <2>2. \A i \in UsedRequests : request'[i] = request[i]
      BY <2>1 DEF IsNextId, UsedRequests, IInv, TypeOK
    <2> QED BY <2>1, <2>2
  <1>4. CASE WriteNotes
    <2>1. UNCHANGED <<user, server>>
      BY <1>4 DEF WriteNotes
    <2>2. run.id \notin raced => request' = request
      BY <1>4, NoteChangesNothing
    <2>3. \A i \in UsedRequests \ {run.id} : request'[i] = request[i]
      BY <1>4 DEF WriteNotes, UsedRequests, IInv, TypeOK
    <2> QED BY <2>1, <2>2, <2>3
  <1> QED BY <1>1, <1>2, <1>3, <1>4 DEF ImportStep

-----------------------------------------------------------------------------
(* The theorems.                                                            *)

(* The invariant holds in every reachable state, for any old database, any  *)
(* number of runs, however they end, and any writes by others.              *)
THEOREM ImportInvariance == Spec => []IInv
  BY InitIInv, NextKeepsIInv, PTL DEF Spec

(* Tables and local variables keep their types; in particular every row a   *)
(* step is about is there.                                                  *)
THEOREM ImportTypes == Spec => []TypeOK
  <1>1. IInv => TypeOK
    BY DEF IInv
  <1> QED BY <1>1, ImportInvariance, PTL

(* "existing rows are skipped, never overwritten" (postgres.go:6), for any  *)
(* number of rows; the exception is the run's own row that others wrote     *)
(* before its note.                                                         *)
THEOREM ImportOnlyAdds == Spec => NothingOverwritten
  <1>1. IInv /\ [Next]_vars =>
          [ImportStep =>
             /\ \A i \in UsedUsers : user'[i] = user[i]
             /\ \A i \in UsedRequests \ raced : request'[i] = request[i]
             /\ server \subseteq server']_vars
    BY ImportOverwritesNothing
  <1> QED BY <1>1, ImportInvariance, PTL DEF Spec, NothingOverwritten

(* A copied request belongs to the old user's namesake (postgres.go         *)
(* FromPostgres, store.go UserByLogin), unless the account in the map was   *)
(* deleted under the run.                                                   *)
THEOREM HistoryGoesHome == Spec => []HistoryOfNamesake
  <1>1. IInv => HistoryOfNamesake
    BY DEF IInv
  <1> QED BY <1>1, ImportInvariance, PTL

(* A run that ends undisturbed and as a whole leaves nothing behind         *)
(* (postgres.go FromPostgres), for any old database; only who is refused    *)
(* and then shadowed by a later old user waits for the next run.            *)
THEOREM ImportComplete == Spec => []CompleteWhenDone
  <1>1. IInv => CompleteWhenDone
    BY DEF IInv, CompleteWhenDone, ServersInv, RequestsInv, Kept
  <1> QED BY <1>1, ImportInvariance, PTL
=============================================================================
