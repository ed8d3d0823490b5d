--------------------------- MODULE AccountsProofs ---------------------------
(***************************************************************************)
(* Theorems about Accounts, for any numbers of names, Plex accounts,       *)
(* tokens, tasks and ids.                                                  *)
(*                                                                         *)
(* What an account is known by outlives nothing but the account: ids are   *)
(* handed out again, so the inductive invariant IInv relates the key a     *)
(* task or a session remembers to the key its row holds now, and says what *)
(* follows when they still agree.                                          *)
(***************************************************************************)
EXTENDS Accounts, TLAPS

-----------------------------------------------------------------------------
(* The tables.                                                              *)

Own(i) == row[i].key \notin strayed

RowInv ==
  /\ \A i, j \in Ids : i # j /\ row[i] # NoRow => row[i].name # row[j].name
  /\ \A i \in Ids : row[i].key <= born

(* ON DELETE CASCADE: a session's account is the one it was opened for.     *)
SessionInv ==
  \A s \in Tokens : session[s] # NoSession =>
    /\ session[s].user \in Ids
    /\ row[session[s].user] # NoRow
    /\ row[session[s].user].key = session[s].key

-----------------------------------------------------------------------------
(* A task.                                                                  *)

About(t, i) == i = task[t].user /\ row[i].key = task[t].key

(* What the local variables hold at each step.                              *)
TaskShape(t) ==
  /\ task[t].key <= born
  /\ task[t].pc \in {"plexLink", "plexRead", "session", "update", "delete"} => task[t].user \in Ids
  /\ task[t].pc \in {"plexLink", "plexRead", "session"} => task[t].key > 0
  /\ task[t].pc \in {"plexLookup", "plexCreate", "plexLink", "plexRead"} => task[t].plex \in PlexIds
  /\ task[t].pc \in {"plexLookup", "plexCreate"} => task[t].name \in Names
  /\ task[t].pc \in {"setup", "create"} => task[t].name \in Names
  /\ task[t].pc \in {"create", "update"} => task[t].role # "none"
  (* "cannot demote yourself", "cannot delete yourself"                     *)
  /\ task[t].pc = "update" /\ task[t].role = "user" => task[t].user # task[t].actor
  /\ task[t].pc = "delete" => task[t].user # task[t].actor

(* An account created by a Plex sign-in is nobody's until it is linked, and *)
(* the signed-in Plex account's from then on, while the id is the same      *)
(* account and no other task has written to it by mistake.                  *)
TaskLink(t) ==
  \A i \in Ids : About(t, i) /\ Own(i) =>
    /\ task[t].pc = "plexLink" => row[i].plex = NoPlex /\ row[i].name = task[t].name
    /\ task[t].pc \in {"plexRead", "session"} /\ task[t].plex # NoPlex =>
         row[i].plex = task[t].plex

(* No two sign-ins wait to link the same account.                           *)
LinkersApart ==
  \A t, u \in Tasks :
    t # u /\ task[t].pc = "plexLink" /\ task[u].pc = "plexLink" => task[t].key # task[u].key

(* Before the first account nobody is there to create another one.          *)
Bootstrap ==
  born = 0 => ~plexOn /\ \A t \in Tasks : task[t].pc \in {"idle", "setup"}

TaskInv == \A t \in Tasks : TaskShape(t) /\ TaskLink(t)

(* The inductive invariant.  *)
IInv ==
  /\ TypeOK /\ RowInv /\ SessionInv /\ TaskInv /\ LinkersApart /\ Bootstrap
  /\ FirstAdminFirst /\ SessionEarned /\ AdminRemains
-----------------------------------------------------------------------------
USE AccountsAssumption DEF ConstantsAssumption

(* The records the tables and the slots are filled with have their types.   *)
LEMMA EmptyTyped ==
  /\ Idle \in Task
  /\ NoSession \in Session
  /\ Row \cap {NoRow} = {}
  /\ Ids \subseteq 0 .. MaxId /\ 0 \in Keys /\ Keys \subseteq Nat
  BY DEF Idle, Task, Step, NoSession, Session, Keys, Row, NoRow, Ids

(* The initial state satisfies the inductive invariant (an empty database). *)
LEMMA InitIInv == Init => IInv
  <1> SUFFICES ASSUME Init PROVE IInv
    OBVIOUS
  <1> USE DEF Init
  <1>1. TypeOK
    <2>1. row \in [Ids -> Row \cup {NoRow}] /\ task \in [Tasks -> Task]
      BY EmptyTyped
    <2>2. session \in [Tokens -> Session]
      BY EmptyTyped
    <2>3. born \in Keys
      BY DEF Keys
    <2> QED BY <2>1, <2>2, <2>3 DEF TypeOK
  <1>2. RowInv /\ FirstAdminFirst
    BY DEF RowInv, FirstAdminFirst, NoRow
  <1>3. TaskInv /\ Bootstrap /\ LinkersApart
    BY DEF Bootstrap, TaskInv, TaskShape, TaskLink, About, LinkersApart, NoRow, Idle
  <1>4. SessionInv /\ SessionEarned /\ AdminRemains
    BY DEF SessionInv, SessionEarned, AdminRemains, NoSession
  <1> QED BY <1>1, <1>2, <1>3, <1>4 DEF IInv

-----------------------------------------------------------------------------
(* Frames: what a step that leaves the tables, or a task, alone keeps.      *)

(* A step that leaves the tables as they are and opens no session keeps     *)
(* what is said of them (every handler's first statement, logout).          *)
LEMMA TablesFrame ==
  ASSUME IInv, UNCHANGED <<row, born, crossed, strayed>>,
         \A s \in Tokens : session'[s] \in {session[s], NoSession}
  PROVE  RowInv' /\ SessionInv' /\ FirstAdminFirst' /\ SessionEarned' /\ AdminRemains'
  <1> USE DEF IInv
  <1>1. RowInv' /\ FirstAdminFirst' /\ AdminRemains'
    BY DEF RowInv, FirstAdminFirst, AdminRemains, Own, IsAdmin
  <1>2. SessionInv'
    BY DEF SessionInv
  <1>3. SessionEarned'
    BY DEF SessionEarned
  <1> QED BY <1>1, <1>2, <1>3

(* A step of one task keeps the facts about all the tasks if it keeps those *)
(* about the others, and leaves its own task in order.                      *)
LEMMA OneTask ==
  ASSUME IInv, NEW t \in Tasks, NEW q \in Task, task' = [task EXCEPT ![t] = q],
         born' >= born, born' \in Nat, plexOn' = plexOn,
         \A u \in Tasks \ {t} : TaskLink(u)',
         TaskShape(t)', TaskLink(t)',
         q.pc = "plexLink" => q.key > born,
         born = born' => q.pc \in {"idle", "setup"} \/ task[t].pc \notin {"idle", "setup"}
                         \/ born # 0
  PROVE  TaskInv' /\ LinkersApart' /\ Bootstrap' /\ task' \in [Tasks -> Task]
  <1> USE DEF IInv
  <1>1. task' \in [Tasks -> Task] /\ born \in Nat
    BY DEF TypeOK, Keys
  <1>2. \A u \in Tasks : task'[u] = IF u = t THEN q ELSE task[u]
    BY DEF TypeOK
  <1>3. \A u \in Tasks : task[u].key <= born /\ task[u].key \in Nat /\ q.key \in Nat
    BY DEF TaskInv, TaskShape, TypeOK, Task, Keys
  <1>4. TaskInv'
    <2>1. \A u \in Tasks \ {t} : TaskShape(u)'
      BY <1>1, <1>2, <1>3 DEF TaskInv, TaskShape
    <2> QED BY <2>1 DEF TaskInv
  <1>5. LinkersApart'
    BY <1>1, <1>2, <1>3 DEF LinkersApart
  <1>6. Bootstrap'
    BY <1>1, <1>2 DEF Bootstrap
  <1> QED BY <1>1, <1>4, <1>5, <1>6

(* Tables that stay as they are keep the links of a task that does, too.    *)
LEMMA LinkFrame ==
  ASSUME IInv, NEW u \in Tasks, task'[u] = task[u], UNCHANGED <<row, strayed>>
  PROVE  TaskLink(u)'
  BY DEF IInv, TaskInv, TaskLink, About, Own

(* A task that becomes idle has nothing left to say.                        *)
LEMMA IdleShape ==
  ASSUME IInv, NEW t \in Tasks, task'[t] = Idle, born' \in Nat
  PROVE  TaskShape(t)' /\ TaskLink(t)'
  BY DEF TaskShape, TaskLink, Idle

-----------------------------------------------------------------------------
(* Inserting an account.                                                    *)

(* INSERT INTO users: the row was free, and every other row stays.          *)
LEMMA InsertAdds ==
  ASSUME IInv, NEW i \in Ids, NEW n \in Names, NEW r \in {"user", "admin"}, NEW first \in BOOLEAN,
         InsertUser(i, n, r, first)
  PROVE  /\ born \in Nat /\ born' = born + 1 /\ born' \in Keys \ {0}
         /\ row[i] = NoRow
         /\ row' \in [Ids -> Row \cup {NoRow}]
         /\ row'[i] = [name |-> n, role |-> r, plex |-> NoPlex, key |-> born', first |-> first]
         /\ row'[i] # NoRow
         /\ \A j \in Ids \ {i} : row'[j] = row[j]
  <1> DEFINE new == [name |-> n, role |-> r, plex |-> NoPlex, key |-> born', first |-> first]
  <1>1. born \in Nat /\ born' = born + 1 /\ born' \in Keys \ {0} /\ row' = [row EXCEPT ![i] = new]
    BY DEF IInv, TypeOK, InsertUser, Keys
  <1>2. row[i] = NoRow
    BY DEF InsertUser, IsNextId, Ids
  <1>3. new \in Row
    BY <1>1 DEF Row
  <1>4. new # NoRow
    BY <1>3, EmptyTyped
  <1>5. row \in [Ids -> Row \cup {NoRow}]
    BY DEF IInv, TypeOK
  <1> QED BY <1>1, <1>2, <1>3, <1>4, <1>5

(* A new account with a free name, made by an admin or as the first one,    *)
(* keeps what is said of the accounts and the sessions, and every task      *)
(* still is about the account it was about.                                 *)
LEMMA InsertKeeps ==
  ASSUME IInv, NEW i \in Ids, NEW n \in Names, NEW r \in {"user", "admin"}, NEW first \in BOOLEAN,
         InsertUser(i, n, r, first), NameFree(n), UNCHANGED <<session, crossed, strayed>>,
         first => r = "admin" /\ \A j \in Ids : row[j] = NoRow,
         ~first => born > 0
  PROVE  /\ RowInv' /\ SessionInv' /\ FirstAdminFirst' /\ SessionEarned' /\ AdminRemains'
         /\ \A u \in Tasks : task'[u] = task[u] => TaskLink(u)'
  <1> USE DEF IInv
  <1>1. /\ born \in Nat /\ born' = born + 1 /\ born' \in Keys \ {0}
        /\ row[i] = NoRow
        /\ row'[i] = [name |-> n, role |-> r, plex |-> NoPlex, key |-> born', first |-> first]
        /\ row'[i] # NoRow
        /\ \A j \in Ids \ {i} : row'[j] = row[j]
    BY InsertAdds
  <1>2. \A j \in Ids : row[j].key <= born /\ row[j].key \in Nat
    BY DEF RowInv, TypeOK, Row, NoRow, Keys
  <1>3. RowInv'
    <2>1. \A j, k \in Ids : j # k /\ row'[j] # NoRow => row'[j].name # row'[k].name
      BY <1>1 DEF RowInv, NameFree, NoRow
    <2>2. \A j \in Ids : row'[j].key <= born'
      BY <1>1, <1>2
    <2> QED BY <2>1, <2>2 DEF RowInv
  <1>4. SessionInv'
    BY <1>1 DEF SessionInv
  <1>5. FirstAdminFirst'
    <2> SUFFICES ASSUME NEW j \in Ids, NEW k \in Ids, row'[j].first, row'[k] # NoRow
                 PROVE  row'[j].key <= row'[k].key
      BY DEF FirstAdminFirst
    <2>1. CASE j = i
      <3>1. first
        BY <1>1, <2>1
      <3>2. k = i
        BY <1>1, <3>1
      <3> QED BY <1>1, <2>1, <3>2
    <2>2. CASE j # i /\ k = i
      BY <1>1, <1>2, <2>2
    <2>3. CASE j # i /\ k # i
      BY <1>1, <2>3 DEF FirstAdminFirst
    <2> QED BY <2>1, <2>2, <2>3
  <1>6. SessionEarned'
    BY <1>1 DEF SessionEarned, SessionInv
  <1>7. AdminRemains'
    <2>1. CASE first
      BY <1>1, <2>1 DEF AdminRemains, IsAdmin
    <2>2. CASE ~first /\ ~crossed
      <3>1. PICK j \in Ids : row[j].role = "admin"
        BY <2>2 DEF AdminRemains, IsAdmin
      <3>2. j # i
        BY <1>1, <3>1 DEF NoRow
      <3> QED BY <1>1, <3>1, <3>2 DEF AdminRemains, IsAdmin
    <2> QED BY <2>1, <2>2 DEF AdminRemains
  <1>8. ASSUME NEW u \in Tasks, task'[u] = task[u] PROVE TaskLink(u)'
    <2> SUFFICES ASSUME NEW j \in Ids, About(u, j)', Own(j)'
                 PROVE  /\ task'[u].pc = "plexLink" =>
                             row'[j].plex = NoPlex /\ row'[j].name = task'[u].name
                        /\ task'[u].pc \in {"plexRead", "session"} /\ task'[u].plex # NoPlex =>
                             row'[j].plex = task'[u].plex
      BY DEF TaskLink
    <2>1. task[u].key <= born /\ task[u].key \in Nat
      BY DEF TaskInv, TaskShape, TypeOK, Task, Keys
    <2>2. j # i
      BY <1>1, <1>8, <2>1 DEF About
    <2> QED BY <1>1, <1>8, <2>2 DEF TaskInv, TaskLink, About, Own
  <1> QED BY <1>3, <1>4, <1>5, <1>6, <1>7, <1>8

-----------------------------------------------------------------------------
(* The handlers' first statements, which only read.                         *)

(* A handler that starts, or goes on without writing a table, keeps the     *)
(* invariant if its new local variables agree with the tables,              *)
LEMMA LookKeepsIInv ==
  ASSUME IInv, NEW t \in Tasks, NEW q \in Task, task' = [task EXCEPT ![t] = q],
         UNCHANGED <<row, session, plexOn, born, crossed, strayed>>, renamed' \subseteq PlexIds,
         TaskShape(t)', TaskLink(t)', q.pc # "plexLink",
         q.pc \in {"idle", "setup"} \/ task[t].pc \notin {"idle", "setup"} \/ born # 0
  PROVE  IInv'
  <1> USE DEF IInv
  <1>1. RowInv' /\ SessionInv' /\ FirstAdminFirst' /\ SessionEarned' /\ AdminRemains'
    BY TablesFrame
  <1>2. \A u \in Tasks \ {t} : TaskLink(u)'
    BY LinkFrame DEF TypeOK
  <1>3. born' \in Nat /\ born' >= born /\ born' = born /\ plexOn' = plexOn
    BY DEF TypeOK, Keys
  <1>4. TaskInv' /\ LinkersApart' /\ Bootstrap' /\ task' \in [Tasks -> Task]
    BY <1>2, <1>3, OneTask
  <1>5. TypeOK'
    BY <1>4 DEF TypeOK
  <1> QED BY <1>1, <1>4, <1>5

(* and most of them leave the history alone as well.                        *)
LEMMA ReadKeepsIInv ==
  ASSUME IInv, NEW t \in Tasks, NEW q \in Task, task' = [task EXCEPT ![t] = q],
         UNCHANGED <<row, session, plexOn, born, crossed, strayed, renamed>>,
         TaskShape(t)', TaskLink(t)', q.pc # "plexLink",
         q.pc \in {"idle", "setup"} \/ task[t].pc \notin {"idle", "setup"} \/ born # 0
  PROVE  IInv'
  <1>1. renamed' \subseteq PlexIds
    BY DEF IInv, TypeOK
  <1> QED BY <1>1, LookKeepsIInv

(* handleSetup starts while there is no account (auth.go handleSetup).      *)
LEMMA SetupBeginKeepsIInv ==
  ASSUME IInv, NEW t \in Tasks, NEW n \in Names, SetupBegin(t, n)
  PROVE  IInv'
  <1> DEFINE q == [Idle EXCEPT !.pc = "setup", !.name = n]
  <1>1. q \in Task /\ q.pc = "setup" /\ q.key = 0 /\ q.name = n
    BY EmptyTyped DEF Task, Step, Idle, Keys
  <1>2. task' = [task EXCEPT ![t] = q] /\ task'[t] = q
    BY DEF SetupBegin, Begin, IInv, TypeOK
  <1>3. UNCHANGED <<row, session, plexOn, born, crossed, strayed, renamed>>
    BY DEF SetupBegin
  <1>4. TaskShape(t)' /\ TaskLink(t)'
    BY <1>1, <1>2, <1>3 DEF TaskShape, TaskLink, IInv, TypeOK, Keys
  <1> HIDE DEF q
  <1> QED BY <1>1, <1>2, <1>3, <1>4, ReadKeepsIInv

(* handleLogin reads the account it will open a session for.                *)
LEMMA LoginKeepsIInv ==
  ASSUME IInv, NEW t \in Tasks, NEW i \in Ids, Login(t, i)
  PROVE  IInv'
  <1> DEFINE q == [Idle EXCEPT !.pc = "session", !.user = i, !.key = row[i].key]
  <1>1. /\ row[i] \in Row /\ row[i].key \in Keys \ {0} /\ row[i].key <= born /\ born \in Nat
    BY DEF Login, IInv, TypeOK, RowInv, Row, Keys
  <1>2. /\ q \in Task /\ q.pc = "session" /\ q.user = i /\ q.key = row[i].key
        /\ q.plex = NoPlex
    BY <1>1, EmptyTyped DEF Task, Step, Idle
  <1>3. task' = [task EXCEPT ![t] = q] /\ task'[t] = q
    BY DEF Login, Begin, IInv, TypeOK
  <1>4. UNCHANGED <<row, session, plexOn, born, crossed, strayed, renamed>>
    BY DEF Login
  <1> HIDE DEF q
  <1>5. TaskShape(t)' /\ TaskLink(t)'
    BY <1>1, <1>2, <1>3, <1>4 DEF TaskShape, TaskLink, Keys
  <1>6. born # 0
    BY <1>1 DEF Keys
  <1> QED BY <1>2, <1>3, <1>4, <1>5, <1>6, ReadKeepsIInv

(* handlePlexPoll only runs when an admin has switched Plex sign-in on.     *)
LEMMA PlexBeginKeepsIInv ==
  ASSUME IInv, NEW t \in Tasks, NEW x \in PlexIds, NEW n \in Names, PlexBegin(t, x, n)
  PROVE  IInv'
  <1> DEFINE q == [Idle EXCEPT !.pc = "plexLookup", !.name = n, !.plex = x]
  <1>1. /\ q \in Task /\ q.pc = "plexLookup" /\ q.key = 0 /\ q.name = n /\ q.plex = x
    BY EmptyTyped DEF Task, Step, Idle, Keys
  <1>2. task' = [task EXCEPT ![t] = q] /\ task'[t] = q
    BY DEF PlexBegin, Begin, IInv, TypeOK
  <1>3. UNCHANGED <<row, session, plexOn, born, crossed, strayed, renamed>> /\ born # 0
    BY DEF PlexBegin, IInv, Bootstrap
  <1> HIDE DEF q
  <1>4. TaskShape(t)' /\ TaskLink(t)'
    BY <1>1, <1>2, <1>3 DEF TaskShape, TaskLink, IInv, TypeOK, Keys
  <1> QED BY <1>1, <1>2, <1>3, <1>4, ReadKeepsIInv

(* An admin who is signed in has an account.                                *)
LEMMA SomebodyIsThere ==
  ASSUME IInv, NEW s \in Tokens, session[s] # NoSession
  PROVE  born # 0 /\ session[s].user \in Ids
  <1>1. session[s].user \in Ids /\ row[session[s].user] # NoRow
    BY DEF IInv, SessionInv
  <1>2. row[session[s].user].key \in Nat \ {0} /\ row[session[s].user].key <= born /\ born \in Nat
    BY <1>1 DEF IInv, TypeOK, RowInv, Row, Keys
  <1> QED BY <1>1, <1>2

(* requireAdmin, then the three admin handlers' first statements.           *)
LEMMA CreateBeginKeepsIInv ==
  ASSUME IInv, NEW t \in Tasks, NEW s \in Tokens, NEW n \in Names, NEW r \in {"user", "admin"},
         CreateBegin(t, s, n, r)
  PROVE  IInv'
  <1> DEFINE q == [Idle EXCEPT !.pc = "create", !.name = n, !.role = r]
  <1>1. /\ q \in Task /\ q.pc = "create" /\ q.key = 0 /\ q.name = n /\ q.role = r
    BY EmptyTyped DEF Task, Step, Idle, Keys
  <1>2. task' = [task EXCEPT ![t] = q] /\ task'[t] = q
    BY DEF CreateBegin, AdminBegin, Begin, IInv, TypeOK
  <1>3. UNCHANGED <<row, session, plexOn, born, crossed, strayed, renamed>> /\ born # 0
    BY SomebodyIsThere DEF CreateBegin, AdminBegin
  <1> HIDE DEF q
  <1>4. TaskShape(t)' /\ TaskLink(t)'
    BY <1>1, <1>2, <1>3 DEF TaskShape, TaskLink, IInv, TypeOK, Keys
  <1> QED BY <1>1, <1>2, <1>3, <1>4, ReadKeepsIInv

(* The update of an account carries the key of the row it has read.         *)
LEMMA UpdateBeginKeepsIInv ==
  ASSUME IInv, NEW t \in Tasks, NEW s \in Tokens, NEW i \in Ids, NEW r \in {"user", "admin"},
         UpdateBegin(t, s, i, r)
  PROVE  IInv'
  <1> DEFINE actor == IF r = "user" THEN session[s].user ELSE 0
             q == [Idle EXCEPT !.pc = "update", !.user = i, !.key = row[i].key, !.role = r,
                               !.actor = actor]
  <1>1. row[i].key \in Keys /\ row[i].key <= born /\ actor \in 0 .. MaxId
    BY DEF IInv, TypeOK, RowInv, Row, NoRow, Keys, Session
  <1>2. /\ q \in Task /\ q.pc = "update" /\ q.actor = actor /\ q.user = i
        /\ q.key = row[i].key /\ q.role = r
    BY <1>1, EmptyTyped DEF Task, Step, Idle
  <1>3. task' = [task EXCEPT ![t] = q] /\ task'[t] = q
    BY DEF UpdateBegin, AdminBegin, Begin, IInv, TypeOK
  <1>4. UNCHANGED <<row, session, plexOn, born, crossed, strayed, renamed>> /\ born # 0
    BY SomebodyIsThere DEF UpdateBegin, AdminBegin
  <1>5. r = "user" => i # actor
    BY DEF UpdateBegin
  <1> HIDE DEF q, actor
  <1>6. TaskShape(t)' /\ TaskLink(t)'
    BY <1>1, <1>2, <1>3, <1>4, <1>5 DEF TaskShape, TaskLink
  <1> QED BY <1>2, <1>3, <1>4, <1>6, ReadKeepsIInv

(* Nobody begins to delete himself.                                         *)
LEMMA DeleteBeginKeepsIInv ==
  ASSUME IInv, NEW t \in Tasks, NEW s \in Tokens, NEW i \in Ids, DeleteBegin(t, s, i)
  PROVE  IInv'
  <1> DEFINE q == [Idle EXCEPT !.pc = "delete", !.actor = session[s].user, !.user = i]
  <1>1. session[s].user \in 0 .. MaxId
    BY DEF IInv, TypeOK, Session
  <1>2. q \in Task /\ q.pc = "delete" /\ q.actor = session[s].user /\ q.user = i /\ q.key = 0
    BY <1>1, EmptyTyped DEF Task, Step, Idle
  <1>3. task' = [task EXCEPT ![t] = q] /\ task'[t] = q
    BY DEF DeleteBegin, AdminBegin, Begin, IInv, TypeOK
  <1>4. UNCHANGED <<row, session, plexOn, born, crossed, strayed, renamed>> /\ born # 0
    BY SomebodyIsThere DEF DeleteBegin, AdminBegin
  <1>5. i # session[s].user
    BY DEF DeleteBegin
  <1> HIDE DEF q
  <1>6. TaskShape(t)' /\ TaskLink(t)'
    BY <1>2, <1>3, <1>4, <1>5 DEF TaskShape, TaskLink, IInv, TypeOK, Keys
  <1> QED BY <1>2, <1>3, <1>4, <1>6, ReadKeepsIInv

(* plexUserFromAccount finds the account linked to the Plex id, or none.    *)
LEMMA PlexLookupKeepsIInv ==
  ASSUME IInv, NEW t \in Tasks, PlexLookup(t)
  PROVE  IInv'
  <1> DEFINE found == {i \in Ids : row[i].plex = task[t].plex}
  <1>1. task[t] \in Task /\ task[t].pc = "plexLookup" /\ TaskShape(t)
    BY DEF IInv, TypeOK, PlexLookup, PlexFinds, TaskInv
  <1>2. /\ UNCHANGED <<row, session, plexOn, born, crossed, strayed>>
        /\ renamed' \subseteq PlexIds
    BY <1>1 DEF PlexLookup, PlexFinds, TaskShape, IInv, TypeOK
  <1>3. CASE found # {}
    <2>1. PICK i \in Ids :
            /\ row[i].plex = task[t].plex
            /\ Become(t, [task[t] EXCEPT !.pc = "session", !.user = i, !.key = row[i].key,
                                         !.name = NoName])
      BY <1>3 DEF PlexLookup, PlexFinds
    <2> DEFINE q == [task[t] EXCEPT !.pc = "session", !.user = i, !.key = row[i].key,
                               !.name = NoName]
    <2>2. row[i] \in Row /\ row[i].key \in Keys \ {0} /\ row[i].key <= born
      BY <1>1, <2>1 DEF IInv, TypeOK, RowInv, TaskShape, NoRow, Row
    <2>3. /\ q \in Task /\ q.pc = "session" /\ q.user = i /\ q.key = row[i].key
          /\ q.plex = task[t].plex
      BY <1>1, <2>2, EmptyTyped DEF Task, Step
    <2>4. task' = [task EXCEPT ![t] = q] /\ task'[t] = q
      BY <2>1 DEF Become, IInv, TypeOK
    <2> HIDE DEF q
    <2>5. TaskShape(t)' /\ TaskLink(t)'
      BY <1>2, <2>1, <2>2, <2>3, <2>4 DEF TaskShape, TaskLink, About, Keys
    <2> QED BY <1>1, <1>2, <2>3, <2>4, <2>5, LookKeepsIInv
  <1>4. CASE found = {}
    <2> DEFINE q == [task[t] EXCEPT !.pc = "plexCreate"]
    <2>1. /\ q \in Task /\ q.pc = "plexCreate" /\ q.plex = task[t].plex
          /\ q.name = task[t].name /\ q.key = task[t].key
      BY <1>1 DEF Task, Step
    <2>2. task' = [task EXCEPT ![t] = q] /\ task'[t] = q
      BY <1>4 DEF PlexLookup, PlexFinds, Become, IInv, TypeOK
    <2> HIDE DEF q
    <2>3. TaskShape(t)' /\ TaskLink(t)'
      BY <1>1, <1>2, <2>1, <2>2 DEF TaskShape, TaskLink
    <2> QED BY <1>1, <1>2, <2>1, <2>2, <2>3, LookKeepsIInv
  <1> QED BY <1>3, <1>4

(* UserByID after the link: a deleted account is not signed in.             *)
LEMMA PlexReadKeepsIInv ==
  ASSUME IInv, NEW t \in Tasks, PlexRead(t)
  PROVE  IInv'
  <1>1. task[t] \in Task /\ task[t].pc = "plexRead" /\ TaskShape(t) /\ TaskLink(t) /\ born \in Nat
    BY DEF IInv, TypeOK, PlexRead, TaskInv, Keys
  <1>2. UNCHANGED <<row, session, plexOn, born, crossed, strayed, renamed>>
    BY DEF PlexRead
  <1>3. CASE row[task[t].user] = NoRow
    <2>1. task' = [task EXCEPT ![t] = Idle] /\ task'[t] = Idle
      BY <1>3 DEF PlexRead, End, IInv, TypeOK
    <2>2. TaskShape(t)' /\ TaskLink(t)' /\ Idle.pc = "idle"
      BY <1>1, <1>2, <2>1, IdleShape DEF Idle
    <2> QED BY <1>2, <2>1, <2>2, EmptyTyped, ReadKeepsIInv
  <1>4. CASE row[task[t].user] # NoRow
    <2> DEFINE q == [task[t] EXCEPT !.pc = "session"]
    <2>1. /\ q \in Task /\ q.pc = "session" /\ q.plex = task[t].plex
          /\ q.name = task[t].name /\ q.key = task[t].key /\ q.user = task[t].user
      BY <1>1 DEF Task, Step
    <2>2. task' = [task EXCEPT ![t] = q] /\ task'[t] = q
      BY <1>4 DEF PlexRead, Become, IInv, TypeOK
    <2> HIDE DEF q
    <2>3. TaskShape(t)' /\ TaskLink(t)'
      BY <1>1, <1>2, <2>1, <2>2 DEF TaskShape, TaskLink, About, Own
    <2> QED BY <1>1, <1>2, <2>1, <2>2, <2>3, ReadKeepsIInv
  <1> QED BY <1>3, <1>4

-----------------------------------------------------------------------------
(* The handlers that create an account.                                     *)

(* An insert by a task that then becomes idle, or goes on with the account  *)
(* it made, keeps the invariant.                                            *)
LEMMA InsertByTaskKeepsIInv ==
  ASSUME IInv, NEW i \in Ids, NEW n \in Names, NEW r \in {"user", "admin"}, NEW first \in BOOLEAN,
         InsertUser(i, n, r, first), NameFree(n), UNCHANGED <<session, plexOn, crossed, strayed, renamed>>,
         first => r = "admin" /\ \A j \in Ids : row[j] = NoRow,
         ~first => born > 0,
         NEW t \in Tasks, NEW q \in Task, task' = [task EXCEPT ![t] = q],
         TaskShape(t)', TaskLink(t)', q.pc = "plexLink" => q.key > born
  PROVE  IInv'
  <1>1. /\ born \in Nat /\ born' = born + 1 /\ born' \in Keys \ {0}
        /\ row' \in [Ids -> Row \cup {NoRow}]
    BY InsertAdds
  <1>2. /\ RowInv' /\ SessionInv' /\ FirstAdminFirst' /\ SessionEarned' /\ AdminRemains'
        /\ \A u \in Tasks : task'[u] = task[u] => TaskLink(u)'
    BY InsertKeeps
  <1>3. \A u \in Tasks \ {t} : TaskLink(u)'
    BY <1>2 DEF IInv, TypeOK
  <1>4. born' \in Nat /\ born' >= born /\ born # born' /\ plexOn' = plexOn
    BY <1>1
  <1>5. TaskInv' /\ LinkersApart' /\ Bootstrap' /\ task' \in [Tasks -> Task]
    BY <1>3, <1>4, OneTask
  <1>6. TypeOK'
    BY <1>1, <1>5 DEF IInv, TypeOK
  <1> QED BY <1>2, <1>5, <1>6 DEF IInv

(* A refused insert ends the handler.                                       *)
LEMMA EndKeepsIInv ==
  ASSUME IInv, NEW t \in Tasks, End(t),
         UNCHANGED <<row, session, plexOn, born, crossed, strayed, renamed>>
  PROVE  IInv'
  <1>1. task' = [task EXCEPT ![t] = Idle] /\ task'[t] = Idle /\ born' \in Nat
    BY DEF End, IInv, TypeOK, Keys
  <1>2. TaskShape(t)' /\ TaskLink(t)' /\ Idle.pc = "idle"
    BY <1>1, IdleShape DEF Idle
  <1> QED BY <1>1, <1>2, EmptyTyped, ReadKeepsIInv

(* CreateFirstAdmin counts again inside the INSERT.                         *)
LEMMA SetupInsertKeepsIInv ==
  ASSUME IInv, NEW t \in Tasks, SetupInsert(t)
  PROVE  IInv'
  <1>1. task[t].pc = "setup" /\ task[t].name \in Names
    BY DEF SetupInsert, IInv, TaskInv, TaskShape
  <1>2. CASE \A j \in Ids : row[j] = NoRow
    <2>1. PICK i \in Ids :
            /\ InsertUser(i, task[t].name, "admin", TRUE)
            /\ Become(t, [Idle EXCEPT !.pc = "session", !.user = i, !.key = born'])
      BY <1>2 DEF SetupInsert
    <2> DEFINE q == [Idle EXCEPT !.pc = "session", !.user = i, !.key = born']
    <2>2. born \in Nat /\ born' = born + 1 /\ born' \in Keys \ {0}
      BY <1>1, <2>1, InsertAdds
    <2>3. /\ q \in Task /\ q.pc = "session" /\ q.user = i /\ q.key = born' /\ q.plex = NoPlex
      BY <2>2, EmptyTyped DEF Task, Step, Idle
    <2>4. task' = [task EXCEPT ![t] = q] /\ task'[t] = q
      BY <2>1 DEF Become, IInv, TypeOK
    <2> HIDE DEF q
    <2>5. TaskShape(t)' /\ TaskLink(t)'
      BY <2>2, <2>3, <2>4 DEF TaskShape, TaskLink
    <2>6. NameFree(task[t].name)
      BY <1>1, <1>2 DEF NameFree, NoRow
    <2>7. UNCHANGED <<session, plexOn, crossed, strayed, renamed>>
      BY DEF SetupInsert
    <2> QED BY <1>1, <1>2, <2>1, <2>3, <2>4, <2>5, <2>6, <2>7, InsertByTaskKeepsIInv
  <1>3. CASE ~\A j \in Ids : row[j] = NoRow
    BY <1>3, EndKeepsIInv DEF SetupInsert
  <1> QED BY <1>2, <1>3

(* The account a Plex sign-in makes when its Plex id is linked to none.     *)
LEMMA PlexCreateKeepsIInv ==
  ASSUME IInv, NEW t \in Tasks, PlexCreate(t)
  PROVE  IInv'
  <1>1. /\ task[t] \in Task /\ task[t].pc = "plexCreate" /\ task[t].plex \in PlexIds
        /\ task[t].name \in Names
    BY DEF PlexCreate, IInv, TypeOK, TaskInv, TaskShape
  <1>2. born > 0
    BY <1>1 DEF IInv, Bootstrap, TypeOK, Keys
  <1>3. CASE NameFree(task[t].name)
    <2>1. PICK i \in Ids :
            /\ InsertUser(i, task[t].name, "user", FALSE)
            /\ Become(t, [task[t] EXCEPT !.pc = "plexLink", !.user = i, !.key = born'])
      BY <1>3 DEF PlexCreate
    <2> DEFINE q == [task[t] EXCEPT !.pc = "plexLink", !.user = i, !.key = born']
    <2>2. /\ born \in Nat /\ born' = born + 1 /\ born' \in Keys \ {0}
          /\ row'[i] = [name |-> task[t].name, role |-> "user", plex |-> NoPlex,
                        key |-> born', first |-> FALSE]
      BY <1>1, <2>1, InsertAdds
    <2>3. /\ q \in Task /\ q.pc = "plexLink" /\ q.user = i /\ q.key = born'
          /\ q.plex = task[t].plex /\ q.name = task[t].name
      BY <1>1, <2>2, EmptyTyped DEF Task, Step
    <2>4. task' = [task EXCEPT ![t] = q] /\ task'[t] = q
      BY <2>1 DEF Become, IInv, TypeOK
    <2> HIDE DEF q
    <2>5. TaskShape(t)' /\ TaskLink(t)'
      BY <1>1, <2>2, <2>3, <2>4 DEF TaskShape, TaskLink, About
    <2>6. UNCHANGED <<session, plexOn, crossed, strayed, renamed>>
      BY DEF PlexCreate
    <2>7. q.key > born
      BY <2>2, <2>3
    <2> QED BY <1>1, <1>2, <1>3, <2>1, <2>3, <2>4, <2>5, <2>6, <2>7, InsertByTaskKeepsIInv
  <1>4. CASE ~NameFree(task[t].name)
    BY <1>4, EndKeepsIInv DEF PlexCreate
  <1> QED BY <1>3, <1>4

(* handleUserCreate: an admin's INSERT.                                     *)
LEMMA CreateUserKeepsIInv ==
  ASSUME IInv, NEW t \in Tasks, CreateUser(t)
  PROVE  IInv'
  <1>1. task[t].pc = "create" /\ task[t].name \in Names /\ task[t].role \in {"user", "admin"}
    BY DEF CreateUser, IInv, TypeOK, Task, TaskInv, TaskShape
  <1>2. born > 0
    BY <1>1 DEF IInv, Bootstrap, TypeOK, Keys
  <1>3. CASE NameFree(task[t].name)
    <2>1. PICK i \in Ids : InsertUser(i, task[t].name, task[t].role, FALSE)
      BY <1>3 DEF CreateUser
    <2>2. task' = [task EXCEPT ![t] = Idle] /\ task'[t] = Idle
      BY DEF CreateUser, End, IInv, TypeOK
    <2>3. born' \in Nat
      <3>1. born' \in Keys
        BY <1>1, <2>1, InsertAdds
      <3> QED BY <3>1, EmptyTyped
    <2>4. TaskShape(t)' /\ TaskLink(t)' /\ Idle.pc = "idle"
      BY <2>2, <2>3, IdleShape DEF Idle
    <2>5. UNCHANGED <<session, plexOn, crossed, strayed, renamed>>
      BY DEF CreateUser
    <2> QED BY <1>1, <1>2, <1>3, <2>1, <2>2, <2>4, <2>5, EmptyTyped, InsertByTaskKeepsIInv
  <1>4. CASE ~NameFree(task[t].name)
    BY <1>4, EndKeepsIInv DEF CreateUser
  <1> QED BY <1>3, <1>4

-----------------------------------------------------------------------------
(* The handlers that change an account.                                     *)

(* An UPDATE of an account's role or link keeps what is said of accounts    *)
(* and sessions, unless it was meant for another account, which then counts *)
(* as strayed.  A link is only new to an account that had none.             *)
LEMMA WriteKeeps ==
  ASSUME IInv, NEW t \in Tasks, NEW i \in Ids, row[i] # NoRow,
         NEW v \in Row, row' = [row EXCEPT ![i] = v],
         v.name = row[i].name, v.key = row[i].key, v.first = row[i].first,
         UNCHANGED <<session, born>>, Stray(t, i),
         v.plex # row[i].plex =>
           task[t].pc = "plexLink" /\ task[t].user = i /\ v.plex = task[t].plex
  PROVE  /\ RowInv' /\ SessionInv' /\ FirstAdminFirst' /\ SessionEarned'
         /\ \A u \in Tasks \ {t} : task'[u] = task[u] => TaskLink(u)'
         /\ row' \in [Ids -> Row \cup {NoRow}] /\ strayed' \subseteq Keys
  <1> USE DEF IInv
  <1>1. /\ row[i] \in Row /\ v # NoRow /\ row[i].key \in Keys
        /\ row' \in [Ids -> Row \cup {NoRow}]
        /\ row'[i] = v /\ \A j \in Ids \ {i} : row'[j] = row[j]
    BY EmptyTyped DEF TypeOK, Row
  <1>2. /\ strayed \subseteq strayed' /\ strayed' \subseteq Keys
        /\ Own(i)' => row[i].key = task[t].key
    BY <1>1 DEF Stray, TypeOK, Own
  <1>3. \A j \in Ids : Own(j)' => Own(j)
    BY <1>1, <1>2 DEF Own
  (* a new link goes to an account without one                              *)
  <1>4. Own(i)' /\ v.plex # row[i].plex =>
          row[i].plex = NoPlex /\ task[t].pc = "plexLink" /\ task[t].key = row[i].key
    BY <1>2, <1>3 DEF About, TaskInv, TaskLink
  <1>5. RowInv'
    <2>1. \A j, k \in Ids : j # k /\ row'[j] # NoRow => row'[j].name # row'[k].name
      BY <1>1 DEF RowInv
    <2>2. \A j \in Ids : row'[j].key <= born'
      BY <1>1 DEF RowInv
    <2> QED BY <2>1, <2>2 DEF RowInv
  <1>6. SessionInv'
    BY <1>1 DEF SessionInv
  <1>7. FirstAdminFirst'
    BY <1>1 DEF FirstAdminFirst
  <1>8. SessionEarned'
    <2> SUFFICES ASSUME NEW s \in Tokens, session[s] # NoSession, ~session[s].astray
                 PROVE  LET j == session[s].user IN
                        /\ row'[j] # NoRow /\ row'[j].key = session[s].key
                        /\ session[s].plex # NoPlex /\ Own(j)' => row'[j].plex = session[s].plex
      BY DEF SessionEarned, Own
    <2>1. session[s].user \in Ids
      BY DEF SessionInv
    <2>2. /\ row[session[s].user] # NoRow /\ row[session[s].user].key = session[s].key
          /\ session[s].plex # NoPlex /\ Own(session[s].user)
               => row[session[s].user].plex = session[s].plex
      BY DEF SessionEarned, Own
    <2> QED BY <1>1, <1>3, <1>4, <2>1, <2>2
  <1>9. ASSUME NEW u \in Tasks \ {t}, task'[u] = task[u] PROVE TaskLink(u)'
    <2> SUFFICES ASSUME NEW j \in Ids, About(u, j)', Own(j)'
                 PROVE  /\ task'[u].pc = "plexLink" =>
                             row'[j].plex = NoPlex /\ row'[j].name = task'[u].name
                        /\ task'[u].pc \in {"plexRead", "session"} /\ task'[u].plex # NoPlex =>
                             row'[j].plex = task'[u].plex
      BY DEF TaskLink
    <2>1. About(u, j) /\ Own(j)
      BY <1>1, <1>3, <1>9 DEF About
    <2>2. /\ task[u].pc = "plexLink" => row[j].plex = NoPlex /\ row[j].name = task[u].name
          /\ task[u].pc \in {"plexRead", "session"} /\ task[u].plex # NoPlex =>
               row[j].plex = task[u].plex
      BY <2>1 DEF TaskInv, TaskLink
    <2>3. task[u].pc = "plexLink" /\ j = i => v.plex = row[i].plex
      BY <1>4, <2>1 DEF LinkersApart, About
    <2> QED BY <1>1, <1>4, <1>9, <2>2, <2>3
  <1> QED BY <1>1, <1>2, <1>5, <1>6, <1>7, <1>8, <1>9

(* store.SetPlexUserID by the id of the account just created.               *)
LEMMA PlexLinkKeepsIInv ==
  ASSUME IInv, NEW t \in Tasks, PlexLink(t)
  PROVE  IInv'
  <1> DEFINE i == task[t].user
             q == [task[t] EXCEPT !.pc = "plexRead", !.name = NoName]
  <1>1. /\ task[t] \in Task /\ task[t].pc = "plexLink" /\ TaskShape(t) /\ TaskLink(t)
        /\ i \in Ids /\ task[t].plex \in PlexIds /\ born > 0 /\ born \in Nat
    BY DEF IInv, TypeOK, PlexLink, TaskInv, TaskShape, Bootstrap, Keys
  <1>2. /\ q \in Task /\ q.pc = "plexRead" /\ q.plex = task[t].plex
        /\ q.key = task[t].key /\ q.user = i
    BY <1>1 DEF Task, Step
  <1>3. task' = [task EXCEPT ![t] = q] /\ task'[t] = q
    BY DEF PlexLink, Become, IInv, TypeOK
  <1>4. /\ row' = IF row[i] = NoRow THEN row ELSE [row EXCEPT ![i].plex = task[t].plex]
        /\ Stray(t, i) /\ UNCHANGED <<session, plexOn, born, crossed, renamed>>
    BY DEF PlexLink
  <1> HIDE DEF q
  <1>5. CASE row[i] = NoRow
    <2>1. UNCHANGED <<row, strayed>>
      BY <1>4, <1>5 DEF Stray
    <2>2. TaskShape(t)'
      BY <1>1, <1>2, <1>3, <1>4 DEF TaskShape
    <2>3. TaskLink(t)'
      BY <1>1, <1>2, <1>3, <1>5, <2>1 DEF TaskLink, TaskShape, About, NoRow
    <2> QED BY <1>1, <1>2, <1>3, <1>4, <2>1, <2>2, <2>3, ReadKeepsIInv
  <1>6. CASE row[i] # NoRow
    <2> DEFINE v == [row[i] EXCEPT !.plex = task[t].plex]
    <2>1. row[i] \in Row
      BY <1>1, <1>6 DEF IInv, TypeOK
    <2>2. /\ v \in Row /\ v.name = row[i].name /\ v.key = row[i].key /\ v.first = row[i].first
          /\ v.role = row[i].role /\ v.plex = task[t].plex
      BY <1>1, <2>1 DEF Row
    <2>3. row' = [row EXCEPT ![i] = v] /\ row'[i] = v /\ \A j \in Ids \ {i} : row'[j] = row[j]
      BY <1>1, <1>4, <1>6 DEF IInv, TypeOK
    <2> HIDE DEF v, i
    <2>4. /\ RowInv' /\ SessionInv' /\ FirstAdminFirst' /\ SessionEarned'
          /\ \A u \in Tasks \ {t} : task'[u] = task[u] => TaskLink(u)'
          /\ row' \in [Ids -> Row \cup {NoRow}] /\ strayed' \subseteq Keys
      <3>1. task[t].user = i
        BY DEF i
      <3>2. Stray(t, i) /\ UNCHANGED <<session, born>>
        BY <1>4
      <3> QED BY <1>1, <1>6, <2>2, <2>3, <3>1, <3>2, WriteKeeps
    <2>5. \A u \in Tasks \ {t} : TaskLink(u)'
      BY <1>3, <2>4 DEF IInv, TypeOK
    <2>6. TaskShape(t)' /\ TaskLink(t)'
      BY <1>1, <1>2, <1>3, <1>4, <2>2, <2>3 DEF TaskShape, TaskLink, About
    <2>7. TaskInv' /\ LinkersApart' /\ Bootstrap' /\ task' \in [Tasks -> Task]
      <3>1. born' \in Nat /\ born' >= born /\ plexOn' = plexOn
        BY <1>1, <1>4
      <3> QED BY <1>1, <1>2, <1>3, <2>5, <2>6, <3>1, OneTask
    <2>8. AdminRemains'
      <3>1. \A j \in Ids : row'[j].role = row[j].role
        BY <2>2, <2>3
      <3> QED BY <1>4, <3>1 DEF IInv, AdminRemains, IsAdmin
    <2>9. TypeOK'
      BY <1>4, <2>4, <2>7 DEF IInv, TypeOK
    <2> QED BY <2>4, <2>7, <2>8, <2>9 DEF IInv
  <1> QED BY <1>5, <1>6

(* handleUserUpdate: the role of whichever account has the id by now.       *)
LEMMA UpdateUserKeepsIInv ==
  ASSUME IInv, NEW t \in Tasks, UpdateUser(t)
  PROVE  IInv'
  <1> DEFINE i == task[t].user
             r == task[t].role
  <1>1. /\ task[t] \in Task /\ task[t].pc = "update" /\ i \in Ids /\ r \in {"user", "admin"}
        /\ r = "user" => i # task[t].actor
        /\ born \in Nat /\ born > 0
    BY DEF IInv, TypeOK, UpdateUser, TaskInv, TaskShape, Bootstrap, Keys, Task
  <1>2. task' = [task EXCEPT ![t] = Idle] /\ task'[t] = Idle
    BY DEF UpdateUser, End, IInv, TypeOK
  <1>3. /\ row' = IF row[i] = NoRow THEN row ELSE [row EXCEPT ![i].role = r]
        /\ IF r = "user" THEN Cross(t, i) ELSE UNCHANGED crossed
        /\ Stray(t, i) /\ UNCHANGED <<session, plexOn, born, renamed>>
    BY DEF UpdateUser
  <1>4. TaskShape(t)' /\ TaskLink(t)' /\ Idle.pc = "idle"
    BY <1>1, <1>2, <1>3, IdleShape DEF Idle
  <1>5. CASE row[i] = NoRow
    <2>1. UNCHANGED <<row, strayed, crossed>>
      BY <1>3, <1>5 DEF Stray, Cross, IsAdmin, NoRow, IInv, TypeOK
    <2> QED BY <1>2, <1>3, <1>4, <2>1, EmptyTyped, ReadKeepsIInv
  <1>6. CASE row[i] # NoRow
    <2> DEFINE v == [row[i] EXCEPT !.role = r]
    <2>1. row[i] \in Row
      BY <1>1, <1>6 DEF IInv, TypeOK
    <2>2. /\ v \in Row /\ v.name = row[i].name /\ v.key = row[i].key /\ v.first = row[i].first
          /\ v.role = r /\ v.plex = row[i].plex
      BY <1>1, <2>1 DEF Row
    <2>3. row' = [row EXCEPT ![i] = v] /\ row'[i] = v /\ \A j \in Ids \ {i} : row'[j] = row[j]
      BY <1>1, <1>3, <1>6 DEF IInv, TypeOK
    <2> HIDE DEF v, i, r
    <2>4. /\ RowInv' /\ SessionInv' /\ FirstAdminFirst' /\ SessionEarned'
          /\ \A u \in Tasks \ {t} : task'[u] = task[u] => TaskLink(u)'
          /\ row' \in [Ids -> Row \cup {NoRow}] /\ strayed' \subseteq Keys
      <3>1. Stray(t, i) /\ UNCHANGED <<session, born>>
        BY <1>3
      <3>2. /\ i \in Ids /\ row[i] # NoRow /\ v \in Row /\ row' = [row EXCEPT ![i] = v]
            /\ v.name = row[i].name /\ v.key = row[i].key /\ v.first = row[i].first
        BY <1>1, <1>6, <2>2, <2>3
      <3>3. v.plex # row[i].plex =>
              task[t].pc = "plexLink" /\ task[t].user = i /\ v.plex = task[t].plex
        BY <2>2
      <3> QED BY <3>1, <3>2, <3>3, WriteKeeps
    <2>5. \A u \in Tasks \ {t} : TaskLink(u)'
      BY <1>2, <2>4 DEF IInv, TypeOK
    <2>6. TaskInv' /\ LinkersApart' /\ Bootstrap' /\ task' \in [Tasks -> Task]
      <3>1. born' \in Nat /\ born' >= born /\ plexOn' = plexOn
        BY <1>1, <1>3
      <3> QED BY <1>2, <1>4, <2>5, <3>1, EmptyTyped, OneTask
    (* whoever takes an admin's role is himself one, or has crossed         *)
    <2>7. AdminRemains' /\ crossed' \in BOOLEAN
      <3>1. CASE r = "admin"
        BY <1>1, <1>3, <2>2, <2>3, <3>1 DEF AdminRemains, IsAdmin, IInv, TypeOK
      <3>2. CASE r = "user" /\ IsAdmin(i)
        <4>1. crossed' \in BOOLEAN /\ (~crossed' => IsAdmin(task[t].actor))
          BY <1>3, <3>2 DEF Cross, IInv, TypeOK
        <4>2. ~crossed' => task[t].actor \in Ids \ {i} /\ row'[task[t].actor].role = "admin"
          BY <1>1, <2>3, <3>2, <4>1 DEF IsAdmin
        <4> QED BY <4>1, <4>2 DEF AdminRemains, IsAdmin
      <3>3. CASE r = "user" /\ ~IsAdmin(i)
        <4>1. crossed' = crossed
          BY <1>3, <3>3 DEF Cross, IInv, TypeOK
        <4>2. \A j \in Ids : IsAdmin(j) => IsAdmin(j)'
          BY <2>3, <3>3 DEF IsAdmin
        <4> QED BY <1>3, <4>1, <4>2 DEF AdminRemains, IInv, TypeOK
      <3> QED BY <1>1, <3>1, <3>2, <3>3
    <2>8. TypeOK'
      BY <1>3, <2>4, <2>6, <2>7 DEF IInv, TypeOK
    <2> QED BY <2>4, <2>6, <2>7, <2>8 DEF IInv
  <1> QED BY <1>5, <1>6

(* handleUserDelete: the sessions of the account go with it.                *)
LEMMA DeleteUserKeepsIInv ==
  ASSUME IInv, NEW t \in Tasks, DeleteUser(t)
  PROVE  IInv'
  <1> DEFINE i == task[t].user
  <1> USE DEF IInv
  <1>1. /\ task[t].pc = "delete" /\ i \in Ids /\ i # task[t].actor /\ born \in Nat
        /\ born > 0
    BY DEF TypeOK, DeleteUser, TaskInv, TaskShape, Bootstrap, Keys
  <1>2. task' = [task EXCEPT ![t] = Idle] /\ task'[t] = Idle
    BY DEF DeleteUser, End, TypeOK
  <1>3. /\ row' = [row EXCEPT ![i] = NoRow]
        /\ session' = [s \in Tokens |-> IF session[s].user = i THEN NoSession ELSE session[s]]
        /\ Cross(t, i) /\ UNCHANGED <<plexOn, born, strayed, renamed>>
    BY DEF DeleteUser
  <1>4. /\ row' \in [Ids -> Row \cup {NoRow}] /\ session' \in [Tokens -> Session]
        /\ row'[i] = NoRow /\ \A j \in Ids \ {i} : row'[j] = row[j]
    BY <1>1, <1>3, EmptyTyped DEF TypeOK
  <1> HIDE DEF i
  <1>5. RowInv'
    <2>1. \A j, k \in Ids : j # k /\ row'[j] # NoRow => row'[j].name # row'[k].name
      <3> SUFFICES ASSUME NEW j \in Ids, NEW k \in Ids, j # k, row'[j] # NoRow
                   PROVE  row'[j].name # row'[k].name
        OBVIOUS
      <3>1. j # i /\ row[j] \in Row /\ row'[j] = row[j]
        BY <1>4 DEF TypeOK
      <3>2. CASE k = i
        BY <1>4, <3>1, <3>2 DEF Row, NoRow
      <3>3. CASE k # i
        BY <1>4, <3>1, <3>3 DEF RowInv
      <3> QED BY <3>2, <3>3
    <2>2. \A j \in Ids : row'[j].key <= born'
      BY <1>1, <1>3, <1>4 DEF RowInv, NoRow
    <2> QED BY <2>1, <2>2 DEF RowInv
  <1>6. SessionInv' /\ SessionEarned'
    BY <1>3, <1>4 DEF SessionInv, SessionEarned, NoSession
  <1>7. FirstAdminFirst'
    BY <1>4 DEF FirstAdminFirst, NoRow
  <1>8. \A u \in Tasks \ {t} : TaskLink(u)'
    <2> SUFFICES ASSUME NEW u \in Tasks \ {t}, NEW j \in Ids, About(u, j)', Own(j)'
                 PROVE  /\ task'[u].pc = "plexLink" =>
                             row'[j].plex = NoPlex /\ row'[j].name = task'[u].name
                        /\ task'[u].pc \in {"plexRead", "session"} /\ task'[u].plex # NoPlex =>
                             row'[j].plex = task'[u].plex
      BY DEF TaskLink
    <2>1. task'[u] = task[u]
      BY <1>2 DEF TypeOK
    <2>2. CASE j = i
      (* nobody links or has linked an account with key 0                   *)
      BY <1>4, <2>1, <2>2 DEF About, NoRow, TaskInv, TaskShape
    <2>3. CASE j # i
      BY <1>3, <1>4, <2>1, <2>3 DEF About, Own, TaskInv, TaskLink
    <2> QED BY <2>2, <2>3
  <1>9. TaskInv' /\ LinkersApart' /\ Bootstrap' /\ task' \in [Tasks -> Task]
    <2>1. born' \in Nat /\ born' >= born /\ plexOn' = plexOn
      BY <1>1, <1>3
    <2>2. TaskShape(t)' /\ TaskLink(t)' /\ Idle.pc = "idle"
      BY <1>2, <2>1, IdleShape DEF Idle
    <2> QED BY <1>2, <1>8, <2>1, <2>2, EmptyTyped, OneTask
  <1>10. AdminRemains' /\ crossed' \in BOOLEAN
    <2>1. CASE IsAdmin(i)
      <3>1. crossed' \in BOOLEAN /\ (~crossed' => IsAdmin(task[t].actor))
        BY <1>3, <2>1 DEF Cross, TypeOK
      <3>2. ~crossed' => task[t].actor \in Ids \ {i} /\ row'[task[t].actor].role = "admin"
        BY <1>1, <1>4, <3>1 DEF IsAdmin
      <3> QED BY <3>1, <3>2 DEF AdminRemains, IsAdmin
    <2>2. CASE ~IsAdmin(i)
      <3>1. crossed' = crossed
        BY <1>3, <2>2 DEF Cross, TypeOK
      <3>2. \A j \in Ids : IsAdmin(j) => IsAdmin(j)'
        BY <1>4, <2>2 DEF IsAdmin
      <3> QED BY <1>3, <3>1, <3>2 DEF AdminRemains, TypeOK
    <2> QED BY <2>1, <2>2
  <1>11. TypeOK'
    BY <1>3, <1>4, <1>9, <1>10 DEF TypeOK
  <1> QED BY <1>5, <1>6, <1>7, <1>9, <1>10, <1>11

-----------------------------------------------------------------------------
(* Sessions and the rest.                                                   *)

(* startSession: the foreign key refuses a session without its account, and *)
(* an account that is another one by now makes the session an astray one.   *)
LEMMA StartSessionKeepsIInv ==
  ASSUME IInv, NEW t \in Tasks, StartSession(t)
  PROVE  IInv'
  <1> DEFINE i == task[t].user
  <1> USE DEF IInv
  <1>1. /\ task[t] \in Task /\ task[t].pc = "session" /\ i \in Ids /\ TaskLink(t) /\ born \in Nat
        /\ born # 0
    BY DEF TypeOK, StartSession, TaskInv, TaskShape, Bootstrap, Keys
  <1>2. task' = [task EXCEPT ![t] = Idle] /\ task'[t] = Idle
    BY DEF StartSession, End, TypeOK
  <1>3. UNCHANGED <<row, plexOn, born, crossed, strayed, renamed>>
    BY DEF StartSession
  <1>4. TaskShape(t)' /\ TaskLink(t)' /\ Idle.pc = "idle"
    BY <1>1, <1>2, <1>3, IdleShape DEF Idle
  <1>5. CASE row[i] = NoRow
    <2>1. session' = session
      BY <1>5 DEF StartSession
    <2> QED BY <1>2, <1>3, <1>4, <2>1, EmptyTyped, ReadKeepsIInv
  <1>6. CASE row[i] # NoRow
    <2> DEFINE v == [user |-> i, key |-> row[i].key, plex |-> task[t].plex,
                     astray |-> row[i].key # task[t].key]
    <2>1. PICK s \in Tokens : session' = [session EXCEPT ![s] = v]
      BY <1>6 DEF StartSession
    <2>2. row[i] \in Row
      BY <1>1, <1>6 DEF TypeOK
    <2>3. v \in Session
      <3>1. row[i].key \in Keys /\ task[t].plex \in PlexIds \cup {NoPlex} /\ i \in 0 .. MaxId
        BY <1>1, <2>2, EmptyTyped DEF Row, Task
      <3>2. (row[i].key # task[t].key) \in BOOLEAN
        OBVIOUS
      <3> QED BY <3>1, <3>2 DEF Session
    <2>4. /\ v.user = i /\ v.key = row[i].key /\ v.plex = task[t].plex
          /\ ~v.astray => row[i].key = task[t].key
      OBVIOUS
    <2>5. session' \in [Tokens -> Session] /\ session'[s] = v
          /\ \A p \in Tokens \ {s} : session'[p] = session[p]
      BY <2>1, <2>3 DEF TypeOK
    <2> HIDE DEF v, i
    <2>6. SessionInv'
      BY <1>1, <1>3, <1>6, <2>4, <2>5 DEF SessionInv
    <2>7. SessionEarned'
      <3> SUFFICES ASSUME NEW p \in Tokens, session'[p] # NoSession, ~session'[p].astray
                   PROVE  LET j == session'[p].user IN
                          /\ row'[j] # NoRow /\ row'[j].key = session'[p].key
                          /\ session'[p].plex # NoPlex /\ row'[j].key \notin strayed'
                               => row'[j].plex = session'[p].plex
        BY DEF SessionEarned
      <3>1. CASE p # s
        BY <1>3, <2>5, <3>1 DEF SessionEarned
      <3>2. CASE p = s
        <4>1. i = task[t].user
          BY DEF i
        <4>2. About(t, i)
          BY <2>4, <2>5, <3>2, <4>1 DEF About
        <4>3. task[t].plex # NoPlex /\ Own(i) => row[i].plex = task[t].plex
          BY <1>1, <4>2 DEF TaskLink
        <4> QED BY <1>3, <1>6, <2>4, <2>5, <3>2, <4>3 DEF Own
      <3> QED BY <3>1, <3>2
    <2>8. RowInv' /\ FirstAdminFirst' /\ AdminRemains'
      BY <1>3 DEF RowInv, FirstAdminFirst, AdminRemains, Own, IsAdmin
    <2>9. \A u \in Tasks \ {t} : TaskLink(u)'
      BY <1>2, <1>3, LinkFrame DEF TypeOK
    <2>10. TaskInv' /\ LinkersApart' /\ Bootstrap' /\ task' \in [Tasks -> Task]
      <3>1. born' \in Nat /\ born' >= born /\ plexOn' = plexOn
        BY <1>1, <1>3
      <3> QED BY <1>2, <1>4, <2>9, <3>1, EmptyTyped, OneTask
    <2>11. TypeOK'
      BY <1>3, <2>5, <2>10 DEF TypeOK
    <2> QED BY <2>6, <2>7, <2>8, <2>10, <2>11
  <1> QED BY <1>5, <1>6

(* Logging out, or the end of a session's time to live.                     *)
LEMMA EndSessionKeepsIInv ==
  ASSUME IInv, NEW s \in Tokens, EndSession(s)
  PROVE  IInv'
  <1> USE DEF IInv
  <1>1. /\ \A p \in Tokens : session'[p] \in {session[p], NoSession}
        /\ session' \in [Tokens -> Session]
    BY EmptyTyped DEF EndSession, TypeOK
  <1>2. UNCHANGED <<row, plexOn, task, born, crossed, strayed, renamed>>
    BY DEF EndSession
  <1>3. RowInv' /\ SessionInv' /\ FirstAdminFirst' /\ SessionEarned' /\ AdminRemains'
    BY <1>1, <1>2, TablesFrame
  <1>4. TaskInv' /\ LinkersApart' /\ Bootstrap' /\ TypeOK'
    BY <1>1, <1>2 DEF TaskInv, TaskShape, TaskLink, About, Own, LinkersApart, Bootstrap, TypeOK
  <1> QED BY <1>3, <1>4

(* Only an admin, so not before the first account, switches Plex sign-in.   *)
LEMMA PlexConfigSetKeepsIInv ==
  ASSUME IInv, NEW s \in Tokens, NEW on \in BOOLEAN, PlexConfigSet(s, on)
  PROVE  IInv'
  <1> USE DEF IInv
  <1>1. UNCHANGED <<row, session, task, born, crossed, strayed, renamed>> /\ born # 0 /\ plexOn' \in BOOLEAN
    BY SomebodyIsThere DEF PlexConfigSet
  <1>2. RowInv' /\ SessionInv' /\ FirstAdminFirst' /\ SessionEarned' /\ AdminRemains'
    BY <1>1, TablesFrame
  <1>3. TaskInv' /\ LinkersApart' /\ Bootstrap' /\ TypeOK'
    BY <1>1 DEF TaskInv, TaskShape, TaskLink, About, Own, LinkersApart, Bootstrap, TypeOK
  <1> QED BY <1>2, <1>3

(* The handlers in flight die with the process.                             *)
LEMMA RestartKeepsIInv ==
  ASSUME IInv, Restart
  PROVE  IInv'
  <1> USE DEF IInv
  <1>1. /\ UNCHANGED <<row, session, plexOn, born, crossed, strayed, renamed>>
        /\ task' \in [Tasks -> Task] /\ \A t \in Tasks : task'[t] = Idle
    BY EmptyTyped DEF Restart
  <1>2. RowInv' /\ SessionInv' /\ FirstAdminFirst' /\ SessionEarned' /\ AdminRemains'
    BY <1>1, TablesFrame
  <1>3. TaskInv'
    <2>1. born' \in Nat
      BY <1>1 DEF TypeOK, Keys
    <2> QED BY <1>1, <2>1, IdleShape DEF TaskInv
  <1>4. LinkersApart' /\ Bootstrap'
    BY <1>1 DEF LinkersApart, Bootstrap, Idle
  <1>5. TypeOK'
    BY <1>1 DEF TypeOK
  <1> QED BY <1>2, <1>3, <1>4, <1>5

(* Nothing the invariant speaks of changes when no variable does.           *)
LEMMA StutterKeepsIInv == IInv /\ UNCHANGED vars => IInv'
  BY DEF IInv, vars, TypeOK, RowInv, SessionInv, TaskInv, TaskShape, TaskLink, About, Own,
         LinkersApart, Bootstrap, FirstAdminFirst, SessionEarned, AdminRemains, IsAdmin

(* Every step keeps the inductive invariant.                                *)
LEMMA NextKeepsIInv == IInv /\ [Next]_vars => IInv'
  <1> SUFFICES ASSUME IInv, [Next]_vars PROVE IInv'
    OBVIOUS
  <1>1. ASSUME NEW t \in Tasks, NEW n \in Names, SetupBegin(t, n) PROVE IInv'
    BY <1>1, SetupBeginKeepsIInv
  <1>2. ASSUME NEW t \in Tasks, NEW i \in Ids, Login(t, i) PROVE IInv'
    BY <1>2, LoginKeepsIInv
  <1>3. ASSUME NEW t \in Tasks, NEW x \in PlexIds, NEW n \in Names, PlexBegin(t, x, n) PROVE IInv'
    BY <1>3, PlexBeginKeepsIInv
  <1>4. ASSUME NEW t \in Tasks, NEW s \in Tokens, NEW n \in Names, NEW r \in {"user", "admin"},
               CreateBegin(t, s, n, r)
        PROVE  IInv'
    BY <1>4, CreateBeginKeepsIInv
  <1>5. ASSUME NEW t \in Tasks, NEW s \in Tokens, NEW i \in Ids, NEW r \in {"user", "admin"},
               UpdateBegin(t, s, i, r)
        PROVE  IInv'
    BY <1>5, UpdateBeginKeepsIInv
  <1>6. ASSUME NEW t \in Tasks, NEW s \in Tokens, NEW i \in Ids, DeleteBegin(t, s, i) PROVE IInv'
    BY <1>6, DeleteBeginKeepsIInv
  <1>7. ASSUME NEW t \in Tasks, TaskStep(t) PROVE IInv'
    <2>1. CASE SetupInsert(t)
      BY <2>1, SetupInsertKeepsIInv
    <2>2. CASE PlexLookup(t)
      BY <2>2, PlexLookupKeepsIInv
    <2>3. CASE PlexCreate(t)
      BY <2>3, PlexCreateKeepsIInv
    <2>4. CASE PlexLink(t)
      BY <2>4, PlexLinkKeepsIInv
    <2>5. CASE PlexRead(t)
      BY <2>5, PlexReadKeepsIInv
    <2>6. CASE StartSession(t)
      BY <2>6, StartSessionKeepsIInv
    <2>7. CASE CreateUser(t)
      BY <2>7, CreateUserKeepsIInv
    <2>8. CASE UpdateUser(t)
      BY <2>8, UpdateUserKeepsIInv
    <2>9. CASE DeleteUser(t)
      BY <2>9, DeleteUserKeepsIInv
    <2> QED BY <1>7, <2>1, <2>2, <2>3, <2>4, <2>5, <2>6, <2>7, <2>8, <2>9 DEF TaskStep
  <1>8. ASSUME NEW s \in Tokens, EndSession(s) PROVE IInv'
    BY <1>8, EndSessionKeepsIInv
  <1>9. ASSUME NEW s \in Tokens, NEW on \in BOOLEAN, PlexConfigSet(s, on) PROVE IInv'
    BY <1>9, PlexConfigSetKeepsIInv
  <1>10. CASE Restart
    BY <1>10, RestartKeepsIInv
  <1>11. CASE UNCHANGED vars
    BY <1>11, StutterKeepsIInv
  <1> QED BY <1>1, <1>2, <1>3, <1>4, <1>5, <1>6, <1>7, <1>8, <1>9, <1>10, <1>11 DEF Next

-----------------------------------------------------------------------------
(* One account per Plex account.                                            *)

(* The sign-ins that have found no account for a Plex id go by one name     *)
(* unless its owner has renamed himself between them.                       *)
OneNameInFlight ==
  \A t, u \in Tasks :
    Making(t) /\ Making(u) /\ task[t].plex = task[u].plex /\ task[t].plex \notin renamed =>
      task[t].name = task[u].name

(* The account one of them has linked bears that name, too, so that the     *)
(* INSERTs of the others fail: username is unique.                          *)
LinkedBearsName ==
  \A t \in Tasks, j \in Ids :
    Making(t) /\ task[t].plex \notin renamed /\ Own(j) /\ row[j].plex = task[t].plex =>
      row[j].name = task[t].name

(* Inductive, relative to IInv.  *)
PlexInv == OneNameInFlight /\ LinkedBearsName /\ OneAccountPerPlex

(* At first there are no accounts and no sign-ins.                          *)
LEMMA InitPlexInv == Init => PlexInv
  BY DEF Init, PlexInv, OneNameInFlight, LinkedBearsName, OneAccountPerPlex, Making, Idle, NoRow

(* A step that links no account, and lets no further sign-in go on to make  *)
(* one, keeps it, whatever else it does to the accounts but rename them.    *)
LEMMA PlexFrame ==
  ASSUME IInv, PlexInv, renamed \subseteq renamed', strayed \subseteq strayed',
         \A u \in Tasks : Making(u)' =>
            Making(u) /\ task'[u].plex = task[u].plex /\ task'[u].name = task[u].name,
         \A j \in Ids : row'[j].plex = NoPlex
                         \/ /\ row'[j].plex = row[j].plex
                            /\ row'[j].name = row[j].name
                            /\ row'[j].key = row[j].key
  PROVE  PlexInv'
  <1>1. \A u \in Tasks : Making(u) => task[u].plex \in PlexIds
    BY DEF IInv, TaskInv, TaskShape, Making
  <1>2. \A j \in Ids : row'[j].plex # NoPlex /\ Own(j)' =>
          Own(j) /\ row'[j].plex = row[j].plex /\ row'[j].name = row[j].name
    BY DEF Own
  <1>3. OneNameInFlight'
    BY DEF PlexInv, OneNameInFlight
  <1>4. LinkedBearsName'
    BY <1>1, <1>2 DEF PlexInv, LinkedBearsName
  <1>5. OneAccountPerPlex'
    <2> SUFFICES ASSUME NEW i \in Ids, NEW j \in Ids, i # j, row'[i].plex # NoPlex,
                        row'[i].plex \notin renamed', Own(i)', Own(j)',
                        row'[i].plex = row'[j].plex
                 PROVE  FALSE
      BY DEF OneAccountPerPlex, Own
    <2>1. /\ Own(i) /\ row'[i].plex = row[i].plex
          /\ Own(j) /\ row'[j].plex = row[j].plex
      BY <1>2
    <2>2. row[i].plex \notin {NoPlex} \cup renamed /\ row[i].plex = row[j].plex
      BY <2>1
    <2>3. row[i].key \notin strayed /\ row[j].key \notin strayed
      BY <2>1 DEF Own
    <2>4. OneAccountPerPlex
      BY DEF PlexInv
    <2> QED BY <2>2, <2>3, <2>4 DEF OneAccountPerPlex
  <1> QED BY <1>3, <1>4, <1>5 DEF PlexInv

(* One task moves on, the tables stay.                                      *)
LEMMA PlexReadFrame ==
  ASSUME IInv, PlexInv, NEW t \in Tasks, NEW q, task' = [task EXCEPT ![t] = q],
         UNCHANGED <<row, strayed, renamed>>,
         q.pc \notin {"plexCreate", "plexLink"}
  PROVE  PlexInv'
  <1>1. \A u \in Tasks : task'[u] = IF u = t THEN q ELSE task[u]
    BY DEF IInv, TypeOK
  <1>2. \A u \in Tasks : Making(u)' =>
          Making(u) /\ task'[u].plex = task[u].plex /\ task'[u].name = task[u].name
    BY <1>1 DEF Making
  <1> QED BY <1>2, PlexFrame

(* One task moves on after its insert: a new account is linked to nobody.   *)
LEMMA PlexInsertFrame ==
  ASSUME IInv, PlexInv, NEW t \in Tasks, NEW q, task' = [task EXCEPT ![t] = q],
         UNCHANGED <<strayed, renamed>>,
         \/ q.pc \notin {"plexCreate", "plexLink"}
         \/ Making(t) /\ q.plex = task[t].plex /\ q.name = task[t].name,
         NEW i \in Ids, NEW n \in Names, NEW r \in {"user", "admin"}, NEW first \in BOOLEAN,
         InsertUser(i, n, r, first)
  PROVE  PlexInv'
  <1>1. \A u \in Tasks : task'[u] = IF u = t THEN q ELSE task[u]
    BY DEF IInv, TypeOK
  <1>2. \A u \in Tasks : Making(u)' =>
          Making(u) /\ task'[u].plex = task[u].plex /\ task'[u].name = task[u].name
    BY <1>1 DEF Making
  <1>3. /\ row'[i] = [name |-> n, role |-> r, plex |-> NoPlex, key |-> born', first |-> first]
        /\ \A j \in Ids \ {i} : row'[j] = row[j]
    BY InsertAdds
  <1>4. row'[i].plex = NoPlex
    BY <1>3
  <1> QED BY <1>2, <1>3, <1>4, PlexFrame

(* A sign-in that finds no account: nobody has linked its Plex id, and a    *)
(* name unlike that of another one in flight is on record.                  *)
LEMMA PlexLookupKeepsPlexInv ==
  ASSUME IInv, PlexInv, NEW t \in Tasks, PlexLookup(t)
  PROVE  PlexInv'
  <1> DEFINE found == {i \in Ids : row[i].plex = task[t].plex}
  <1>1. UNCHANGED <<row, strayed>>
    BY DEF PlexLookup, PlexFinds
  <1>2. CASE found # {}
    <2>1. PICK i \in Ids :
            Become(t, [task[t] EXCEPT !.pc = "session", !.user = i, !.key = row[i].key,
                                      !.name = NoName])
      BY <1>2 DEF PlexLookup, PlexFinds
    <2> DEFINE q == [task[t] EXCEPT !.pc = "session", !.user = i, !.key = row[i].key,
                               !.name = NoName]
    <2>2. task[t] \in Task
      BY DEF IInv, TypeOK
    <2>3. q.pc = "session"
      BY <2>2 DEF Task
    <2>4. task' = [task EXCEPT ![t] = q] /\ UNCHANGED renamed
      BY <1>2, <2>1 DEF PlexLookup, PlexFinds, Become
    <2> HIDE DEF q
    <2> QED BY <1>1, <2>3, <2>4, PlexReadFrame
  <1>3. CASE found = {}
    <2> DEFINE q == [task[t] EXCEPT !.pc = "plexCreate"]
    <2>1. task[t] \in Task /\ task[t].plex \in PlexIds
      BY DEF IInv, TypeOK, TaskInv, TaskShape, PlexLookup, PlexFinds
    <2>2. q.pc = "plexCreate" /\ q.plex = task[t].plex /\ q.name = task[t].name
      BY <2>1 DEF Task
    <2>3. task' = [task EXCEPT ![t] = q]
      BY <1>3 DEF PlexLookup, PlexFinds, Become
    <2> HIDE DEF q
    <2>4. \A u \in Tasks : task'[u] = IF u = t THEN q ELSE task[u]
      BY <2>3 DEF IInv, TypeOK
    <2>5. renamed' = renamed \cup
            {x \in {task[t].plex} : \E u \in Tasks :
               Making(u) /\ task[u].plex = x /\ task[u].name # task[t].name}
      BY <1>3 DEF PlexLookup, PlexFinds
    <2>6. /\ \A u \in Tasks \ {t} : Making(u)' => Making(u) /\ task'[u] = task[u]
          /\ task'[t].plex = task[t].plex /\ task'[t].name = task[t].name
      BY <2>2, <2>4 DEF Making
    <2>7. OneNameInFlight'
      <3>1. \A u \in Tasks \ {t} :
              Making(u)' /\ task[u].plex = task[t].plex /\ task[t].plex \notin renamed' =>
                task[u].name = task[t].name
        BY <2>5, <2>6
      <3>2. \A u, w \in Tasks \ {t} :
              Making(u)' /\ Making(w)' /\ task'[u].plex = task'[w].plex
              /\ task'[u].plex \notin renamed' => task'[u].name = task'[w].name
        BY <2>5, <2>6 DEF PlexInv, OneNameInFlight
      <3> QED BY <2>6, <3>1, <3>2 DEF OneNameInFlight
    <2>8. LinkedBearsName'
      <3>1. \A j \in Ids : row'[j].plex # task'[t].plex
        BY <1>1, <1>3, <2>6
      <3>2. \A u \in Tasks \ {t}, j \in Ids :
              Making(u)' /\ task'[u].plex \notin renamed' /\ Own(j)'
              /\ row'[j].plex = task'[u].plex => row'[j].name = task'[u].name
        BY <1>1, <2>5, <2>6 DEF PlexInv, LinkedBearsName, Own
      <3> QED BY <3>1, <3>2 DEF LinkedBearsName
    <2>9. OneAccountPerPlex'
      BY <1>1, <2>5 DEF PlexInv, OneAccountPerPlex
    <2> QED BY <2>7, <2>8, <2>9 DEF PlexInv
  <1> QED BY <1>2, <1>3

(* The link: an account that is still the sign-in's own bears the name of   *)
(* every other sign-in for that Plex id, and of every account linked to it. *)
LEMMA PlexLinkKeepsPlexInv ==
  ASSUME IInv, PlexInv, NEW t \in Tasks, PlexLink(t)
  PROVE  PlexInv'
  <1>1. /\ task[t] \in Task /\ task[t].pc = "plexLink" /\ TaskLink(t) /\ Making(t)
        /\ task[t].user \in Ids /\ task[t].plex \in PlexIds
    BY DEF IInv, TypeOK, PlexLink, TaskInv, TaskShape, Making
  <1>2. PICK i \in Ids, x \in PlexIds : i = task[t].user /\ x = task[t].plex
    BY <1>1
  <1> DEFINE q == [task[t] EXCEPT !.pc = "plexRead", !.name = NoName]
  <1>3. q.pc = "plexRead"
    BY <1>1 DEF Task
  <1>4. /\ task' = [task EXCEPT ![t] = q]
        /\ row' = IF row[i] = NoRow THEN row ELSE [row EXCEPT ![i].plex = x]
        /\ Stray(t, i) /\ UNCHANGED renamed
    BY <1>2 DEF PlexLink, Become
  <1>5. \A u \in Tasks : task'[u] = IF u = t THEN q ELSE task[u]
    BY <1>4 DEF IInv, TypeOK
  <1> HIDE DEF q
  <1>6. CASE row[i] = NoRow
    BY <1>3, <1>4, <1>6, PlexReadFrame DEF Stray
  <1>7. CASE row[i] # NoRow
    <2>1. row[i] \in Row /\ row \in [Ids -> Row \cup {NoRow}]
      BY <1>1, <1>2, <1>7 DEF IInv, TypeOK
    <2>2. /\ row'[i].plex = x /\ row'[i].name = row[i].name /\ row'[i].key = row[i].key
          /\ \A j \in Ids \ {i} : row'[j] = row[j]
      BY <1>1, <1>2, <1>4, <1>7, <2>1 DEF Row
    <2>3. strayed \subseteq strayed' /\ (row[i].key # task[t].key => ~Own(i)')
      BY <1>4, <1>7, <2>2 DEF Stray, Own
    <2>4. \A j \in Ids : Own(j)' => Own(j)
      BY <2>2, <2>3 DEF Own
    <2>5. Own(i)' => row'[i].name = task[t].name
      BY <1>1, <1>2, <2>2, <2>3, <2>4 DEF TaskLink, About
    <2>6. \A u \in Tasks : Making(u)' => u # t /\ Making(u) /\ task'[u] = task[u]
      BY <1>3, <1>5 DEF Making
    <2>7. OneNameInFlight'
      BY <1>4, <2>6 DEF PlexInv, OneNameInFlight
    <2>8. LinkedBearsName'
      <3>1. \A u \in Tasks : Making(u)' /\ task'[u].plex \notin renamed' /\ Own(i)'
              /\ row'[i].plex = task'[u].plex => row'[i].name = task'[u].name
        <4>1. \A u \in Tasks : Making(u) /\ task[u].plex = x /\ x \notin renamed =>
                task[u].name = task[t].name
          BY <1>1, <1>2 DEF PlexInv, OneNameInFlight
        <4> QED BY <1>4, <2>2, <2>5, <2>6, <4>1
      <3>2. \A u \in Tasks, j \in Ids \ {i} : Making(u)' /\ task'[u].plex \notin renamed' /\ Own(j)'
              /\ row'[j].plex = task'[u].plex => row'[j].name = task'[u].name
        BY <1>4, <2>2, <2>4, <2>6 DEF PlexInv, LinkedBearsName
      <3> QED BY <3>1, <3>2 DEF LinkedBearsName
    <2>9. OneAccountPerPlex'
      <3>1. \A j \in Ids \ {i} : Own(i)' /\ Own(j)' /\ x \notin renamed => row'[j].plex # x
        <4>1. \A j \in Ids \ {i} : row[j].name # row[i].name
          BY <1>1, <1>2, <1>7 DEF IInv, RowInv
        <4> QED BY <1>1, <1>2, <2>2, <2>4, <2>5, <4>1 DEF PlexInv, LinkedBearsName
      <3>2. \A j, k \in Ids \ {i} :
              j # k /\ Own(j)' /\ Own(k)' /\ row'[j].plex \notin {NoPlex} \cup renamed' =>
                row'[j].plex # row'[k].plex
        BY <1>4, <2>2, <2>4 DEF PlexInv, OneAccountPerPlex, Own
      <3> QED BY <1>1, <1>2, <1>4, <2>2, <3>1, <3>2 DEF OneAccountPerPlex, Own
    <2> QED BY <2>7, <2>8, <2>9 DEF PlexInv
  <1> QED BY <1>6, <1>7

(* The insert of a sign-in: it still goes by its name, and has no link yet. *)
LEMMA PlexCreateKeepsPlexInv ==
  ASSUME IInv, PlexInv, NEW t \in Tasks, PlexCreate(t)
  PROVE  PlexInv'
  <1>1. /\ task[t] \in Task /\ task[t].pc = "plexCreate" /\ task[t].name \in Names
        /\ UNCHANGED <<strayed, renamed>>
    BY DEF PlexCreate, IInv, TypeOK, TaskInv, TaskShape
  <1>2. CASE NameFree(task[t].name)
    <2>1. PICK i \in Ids :
            /\ InsertUser(i, task[t].name, "user", FALSE)
            /\ Become(t, [task[t] EXCEPT !.pc = "plexLink", !.user = i, !.key = born'])
      BY <1>2 DEF PlexCreate
    <2> DEFINE q == [task[t] EXCEPT !.pc = "plexLink", !.user = i, !.key = born']
    <2>2. q.plex = task[t].plex /\ q.name = task[t].name /\ task' = [task EXCEPT ![t] = q]
      BY <1>1, <2>1 DEF Task, Become
    <2> HIDE DEF q
    <2> QED BY <1>1, <2>1, <2>2, PlexInsertFrame DEF Making
  <1>3. CASE ~NameFree(task[t].name)
    BY <1>1, <1>3, PlexReadFrame DEF PlexCreate, End, Idle
  <1> QED BY <1>2, <1>3

(* Setup and an admin insert accounts that no Plex account is linked to.    *)
LEMMA OtherInsertsKeepPlexInv ==
  ASSUME IInv, PlexInv, NEW t \in Tasks, SetupInsert(t) \/ CreateUser(t)
  PROVE  PlexInv'
  <1>1. task[t] \in Task /\ TaskShape(t) /\ UNCHANGED <<strayed, renamed>>
    BY DEF SetupInsert, CreateUser, IInv, TypeOK, TaskInv
  <1>2. CASE End(t) /\ UNCHANGED row
    BY <1>1, <1>2, PlexReadFrame DEF End, Idle
  <1>3. CASE SetupInsert(t) /\ \A i \in Ids : row[i] = NoRow
    <2>1. PICK i \in Ids :
            /\ InsertUser(i, task[t].name, "admin", TRUE)
            /\ Become(t, [Idle EXCEPT !.pc = "session", !.user = i, !.key = born'])
      BY <1>3 DEF SetupInsert
    <2> DEFINE q == [Idle EXCEPT !.pc = "session", !.user = i, !.key = born']
    <2>2. q.pc = "session" /\ task' = [task EXCEPT ![t] = q] /\ task[t].name \in Names
      BY <1>1, <1>3, <2>1 DEF Become, Idle, SetupInsert, TaskShape
    <2> HIDE DEF q
    <2> QED BY <1>1, <2>1, <2>2, PlexInsertFrame
  <1>4. CASE CreateUser(t) /\ NameFree(task[t].name)
    <2>1. PICK i \in Ids : InsertUser(i, task[t].name, task[t].role, FALSE)
      BY <1>4 DEF CreateUser
    <2>2. /\ task' = [task EXCEPT ![t] = Idle] /\ Idle.pc = "idle"
          /\ task[t].name \in Names /\ task[t].role \in {"user", "admin"}
      BY <1>1, <1>4 DEF CreateUser, End, Idle, TaskShape, Task
    <2> QED BY <1>1, <2>1, <2>2, PlexInsertFrame
  <1> QED BY <1>2, <1>3, <1>4 DEF SetupInsert, CreateUser

(* A role changes, or an account goes.                                      *)
LEMMA AdminWritesKeepPlexInv ==
  ASSUME IInv, PlexInv, NEW t \in Tasks, UpdateUser(t) \/ DeleteUser(t)
  PROVE  PlexInv'
  <1>1. /\ task' = [task EXCEPT ![t] = Idle] /\ Idle.pc = "idle" /\ UNCHANGED renamed
        /\ strayed \subseteq strayed'
    BY DEF UpdateUser, DeleteUser, End, Idle, Stray
  <1>2. \A u \in Tasks : Making(u)' => Making(u) /\ task'[u] = task[u]
    BY <1>1 DEF Making, IInv, TypeOK
  <1>3. row \in [Ids -> Row \cup {NoRow}]
    BY DEF IInv, TypeOK
  <1>4. CASE UpdateUser(t)
    <2>1. \A j \in Ids : /\ row'[j].plex = row[j].plex
                          /\ row'[j].name = row[j].name
                          /\ row'[j].key = row[j].key
      BY <1>3, <1>4 DEF UpdateUser, Row
    <2> QED BY <1>1, <1>2, <2>1, PlexFrame
  <1>5. CASE DeleteUser(t)
    <2>1. \A j \in Ids : row'[j].plex = NoPlex \/ row'[j] = row[j]
      BY <1>3, <1>5 DEF DeleteUser, NoRow
    <2> QED BY <1>1, <1>2, <2>1, PlexFrame
  <1> QED BY <1>4, <1>5

(* Every step keeps it.                                                     *)
LEMMA NextKeepsPlexInv == IInv /\ PlexInv /\ [Next]_vars => PlexInv'
  <1> SUFFICES ASSUME IInv, PlexInv, [Next]_vars PROVE PlexInv'
    OBVIOUS
  <1>1. ASSUME NEW t \in Tasks, NEW q, q.pc \notin {"plexCreate", "plexLink"}, Begin(t, q),
               UNCHANGED <<row, strayed, renamed>>
        PROVE  PlexInv'
    BY <1>1, PlexReadFrame DEF Begin
  <1>2. ASSUME NEW t \in Tasks, NEW n \in Names, SetupBegin(t, n) PROVE PlexInv'
    BY <1>1, <1>2 DEF SetupBegin, Idle
  <1>3. ASSUME NEW t \in Tasks, NEW i \in Ids, Login(t, i) PROVE PlexInv'
    BY <1>1, <1>3 DEF Login, Idle
  <1>4. ASSUME NEW t \in Tasks, NEW x \in PlexIds, NEW n \in Names, PlexBegin(t, x, n)
        PROVE  PlexInv'
    BY <1>1, <1>4 DEF PlexBegin, Idle
  <1>5. ASSUME NEW t \in Tasks, NEW s \in Tokens, NEW n \in Names, NEW r \in {"user", "admin"},
               CreateBegin(t, s, n, r)
        PROVE  PlexInv'
    BY <1>1, <1>5 DEF CreateBegin, AdminBegin, Idle
  <1>6. ASSUME NEW t \in Tasks, NEW s \in Tokens, NEW i \in Ids, NEW r \in {"user", "admin"},
               UpdateBegin(t, s, i, r)
        PROVE  PlexInv'
    BY <1>1, <1>6 DEF UpdateBegin, AdminBegin, Idle
  <1>7. ASSUME NEW t \in Tasks, NEW s \in Tokens, NEW i \in Ids, DeleteBegin(t, s, i)
        PROVE  PlexInv'
    BY <1>1, <1>7 DEF DeleteBegin, AdminBegin, Idle
  <1>8. ASSUME NEW t \in Tasks, PlexRead(t) \/ StartSession(t) PROVE PlexInv'
    <2>1. UNCHANGED <<row, strayed, renamed>> /\ task[t] \in Task
      BY <1>8 DEF PlexRead, StartSession, IInv, TypeOK
    <2>2. CASE End(t)
      BY <2>1, <2>2, PlexReadFrame DEF End, Idle
    <2>3. CASE Become(t, [task[t] EXCEPT !.pc = "session"])
      <3>1. [task[t] EXCEPT !.pc = "session"].pc = "session"
        BY <2>1 DEF Task
      <3> QED BY <2>1, <2>3, <3>1, PlexReadFrame DEF Become
    <2> QED BY <1>8, <2>2, <2>3 DEF PlexRead, StartSession
  <1>9. ASSUME NEW t \in Tasks, TaskStep(t) PROVE PlexInv'
    BY <1>8, <1>9, PlexLookupKeepsPlexInv, PlexCreateKeepsPlexInv, PlexLinkKeepsPlexInv,
       OtherInsertsKeepPlexInv, AdminWritesKeepPlexInv DEF TaskStep
  <1>10. CASE UNCHANGED <<row, task, strayed, renamed>>
    BY <1>10, PlexFrame DEF Making
  <1>11. ASSUME NEW s \in Tokens, EndSession(s) PROVE PlexInv'
    BY <1>10, <1>11 DEF EndSession
  <1>12. ASSUME NEW s \in Tokens, NEW on \in BOOLEAN, PlexConfigSet(s, on) PROVE PlexInv'
    BY <1>10, <1>12 DEF PlexConfigSet
  <1>13. CASE Restart
    <2>1. UNCHANGED <<row, strayed, renamed>> /\ \A u \in Tasks : ~Making(u)'
      BY <1>13 DEF Restart, Making, Idle
    <2> QED BY <2>1, PlexFrame
  <1>14. CASE UNCHANGED vars
    BY <1>10, <1>14 DEF vars
  <1> QED BY <1>2, <1>3, <1>4, <1>5, <1>6, <1>7, <1>9, <1>11, <1>12, <1>13, <1>14 DEF Next

-----------------------------------------------------------------------------
(* The theorems.                                                            *)

(* The invariant holds in every reachable state, whatever handlers overlap, *)
(* accounts come and go and ids are handed out again.                       *)
THEOREM AccountsInvariance == Spec => []IInv
  BY InitIInv, NextKeepsIInv, PTL DEF Spec

(* Tables and local variables keep their types; in particular every id a    *)
(* handler writes to is one the table can have.                             *)
THEOREM AccountTypes == Spec => []TypeOK
  <1>1. IInv => TypeOK
    BY DEF IInv
  <1> QED BY <1>1, AccountsInvariance, PTL

(* First-run setup makes the oldest account or none (auth.go handleSetup,   *)
(* store.CreateFirstAdmin), for any number of setups at the same time.      *)
THEOREM SetupOnce == Spec => []FirstAdminFirst
  <1>1. IInv => FirstAdminFirst
    BY DEF IInv
  <1> QED BY <1>1, AccountsInvariance, PTL

(* A session not overtaken by a deletion and a reuse of its id is that of   *)
(* the account whose owner signed in (auth.go startSession, plexauth.go     *)
(* plexUserFromAccount), for any number of sign-ins and admins at work.     *)
THEOREM SessionsEarned == Spec => []SessionEarned
  <1>1. IInv => SessionEarned
    BY DEF IInv
  <1> QED BY <1>1, AccountsInvariance, PTL

(* One Plex account is linked to one local account, although nothing makes  *)
(* plex_id unique and usernames are free to change at Plex (plexauth.go     *)
(* plexUserFromAccount): for any number of sign-ins in flight, restarts and *)
(* reused ids, unless its owner renames himself between two first sign-ins  *)
(* that are in flight at the same time, or a link is written to a row that  *)
(* is another account's by then.                                            *)
THEOREM PlexAccountUnique == Spec => []OneAccountPerPlex
  <1>1. PlexInv => OneAccountPerPlex
    BY DEF PlexInv
  <1> QED BY <1>1, InitPlexInv, NextKeepsPlexInv, AccountsInvariance, PTL DEF Spec

(* There is an admin from the first account on, unless two admins took each *)
(* other's role away at the same time (admin.go handleUserUpdate and        *)
(* handleUserDelete refuse oneself, at their start).                        *)
THEOREM SomeAdminRemains == Spec => []AdminRemains
  <1>1. IInv => AdminRemains
    BY DEF IInv
  <1> QED BY <1>1, AccountsInvariance, PTL
=============================================================================
