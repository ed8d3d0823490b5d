------------------------------ MODULE Accounts ------------------------------
(***************************************************************************)
(* Accounts, roles and sessions (internal/server/auth.go, plexauth.go,     *)
(* admin.go; the users and sessions tables of internal/store).             *)
(*                                                                         *)
(* A handler reads what it needs (the acting admin, the account to sign    *)
(* in, the number of accounts), spends a quarter of a second on bcrypt or  *)
(* on calls to Plex, and then writes by row id.  Between any two of its    *)
(* statements other handlers run, and an id may by then be another         *)
(* account's: users.id, too, is handed out again.                          *)
(*                                                                         *)
(* A TASK is a handler in flight, with its local variables; one finished   *)
(* task makes room for the next, so their number over time is unbounded.   *)
(* Passwords are not modelled: a sign-in may succeed for any account that  *)
(* exists, and what matters is whose session comes out of it.              *)
(***************************************************************************)
EXTENDS Integers, FiniteSets

CONSTANTS
  Names,     \* usernames, letter case folded
  PlexIds,   \* plex.tv accounts with access to the configured server
  Tokens,    \* session tokens (random: a token is never drawn twice)
  Tasks,     \* bound: handlers in flight at one time
  NoName, NoPlex,
  MaxId,     \* bound: row ids
  MaxBorn    \* bound: accounts ever created

ConstantsAssumption ==
  /\ NoName \notin Names
  /\ NoPlex \notin PlexIds
  /\ MaxId \in Nat \ {0}
  /\ MaxBorn \in Nat \ {0}

ASSUME AccountsAssumption == ConstantsAssumption

VARIABLES
  row,      \* row[i]: the account stored under rowid i, or NoRow
  session,  \* session[s]: what the sessions table holds for token s
  plexOn,   \* Plex sign-in is configured and enabled
  task,     \* task[t]: the handler in flight in slot t, or Idle
  (* history variables: no guard but the bound on born reads them *)
  born,     \* accounts ever created; the n-th one has key n
  crossed,  \* an admin whose own role was gone took an admin's role away
  strayed,  \* keys of accounts that a task wrote to while it meant another
  renamed   \* Plex ids of two sign-ins that both found no account linked to
            \* it, the second under another name before the first had linked

vars == <<row, session, plexOn, task, born, crossed, strayed, renamed>>

Ids  == 1 .. MaxId
Keys == 0 .. MaxBorn

(* key and first are history: which account this is, and whether first-run  *)
(* setup created it.                                                        *)
NoRow == [name |-> NoName, role |-> "none", plex |-> NoPlex, key |-> 0, first |-> FALSE]
Row   == [name : Names, role : {"user", "admin"}, plex : PlexIds \cup {NoPlex},
          key : Keys \ {0}, first : BOOLEAN]

(* user 0 stands for no session.  The rest is history: the account whose    *)
(* owner proved to be there, with the Plex account that proved it.          *)
Session   == [user : 0 .. MaxId, key : Keys, plex : PlexIds \cup {NoPlex}, astray : BOOLEAN]
NoSession == [user |-> 0, key |-> 0, plex |-> NoPlex, astray |-> FALSE]

Step == {"idle", "setup", "create", "update", "delete",
         "plexLookup", "plexCreate", "plexLink", "plexRead",
         "session"}
Task == [pc    : Step,
         actor : 0 .. MaxId,                 \* the admin who demotes or deletes
         user  : 0 .. MaxId,                 \* the account it is about
         key   : Keys,                       \* history: which account that was
         name  : Names \cup {NoName},
         role  : {"none", "user", "admin"},
         plex  : PlexIds \cup {NoPlex}]
Idle == [pc |-> "idle", actor |-> 0, user |-> 0, key |-> 0, name |-> NoName,
         role |-> "none", plex |-> NoPlex]
-----------------------------------------------------------------------------
(* The users table.                                                         *)

(* rowid of the next INSERT, as for every INTEGER PRIMARY KEY table without *)
(* AUTOINCREMENT.                                                           *)
IsNextId(i) ==
  /\ \A j \in Ids : j >= i => row[j] = NoRow
  /\ \A j \in Ids : j = i - 1 => row[j] # NoRow

Slip_NameFree(n) == TRUE  \* no UNIQUE on username

(* username is UNIQUE COLLATE NOCASE.                                       *)
NameFree(n) == \A i \in Ids : row[i].name # n

InsertUser(i, n, r, first) ==
  /\ born < MaxBorn /\ born' = born + 1
  /\ IsNextId(i)
  /\ row' = [row EXCEPT ![i] = [name |-> n, role |-> r, plex |-> NoPlex,
                                key |-> born + 1, first |-> first]]

(* An UPDATE of row i by task t is astray when i is another account by now. *)
Stray(t, i) ==
  strayed' = IF row[i] # NoRow /\ row[i].key # task[t].key THEN strayed \cup {row[i].key}
                                                           ELSE strayed

Begin(t, job)  == task[t] = Idle /\ task' = [task EXCEPT ![t] = job]
Become(t, job) == task' = [task EXCEPT ![t] = job]
End(t)         == task' = [task EXCEPT ![t] = Idle]

IsAdmin(i) == i \in Ids /\ row[i].role = "admin"
-----------------------------------------------------------------------------
(* handleSetup: a count, a bcrypt hash, then an INSERT that counts again.   *)

SetupBegin(t, n) ==
  /\ \A i \in Ids : row[i] = NoRow
  /\ Begin(t, [Idle EXCEPT !.pc = "setup", !.name = n])
  /\ UNCHANGED <<row, session, plexOn, born, crossed, strayed, renamed>>

Slip_SetupInsert(t) ==  \* relies on the first count
  /\ task[t].pc = "setup"
  /\ \E i \in Ids :
       IF NameFree(task[t].name)
         THEN /\ InsertUser(i, task[t].name, "admin", TRUE)
              /\ Become(t, [Idle EXCEPT !.pc = "session", !.user = i, !.key = born'])
         ELSE End(t) /\ UNCHANGED <<row, born>>
  /\ UNCHANGED <<session, plexOn, crossed, strayed, renamed>>

SetupInsert(t) ==
  /\ task[t].pc = "setup"
  /\ IF \A i \in Ids : row[i] = NoRow
       THEN \E i \in Ids :
              /\ InsertUser(i, task[t].name, "admin", TRUE)
              /\ Become(t, [Idle EXCEPT !.pc = "session", !.user = i, !.key = born'])
       ELSE End(t) /\ UNCHANGED <<row, born>>
  /\ UNCHANGED <<session, plexOn, crossed, strayed, renamed>>
-----------------------------------------------------------------------------
(* Signing in and out.                                                      *)

(* handleLogin: the account is read by name, then bcrypt or Navidrome       *)
(* decides.  A failed attempt changes nothing here.                         *)
Login(t, i) ==
  /\ row[i] # NoRow
  /\ Begin(t, [Idle EXCEPT !.pc = "session", !.user = i, !.key = row[i].key])
  /\ UNCHANGED <<row, session, plexOn, born, crossed, strayed, renamed>>

(* handlePlexPoll asks whether Plex sign-in is enabled, then plex.tv who    *)
(* this is and whether it has the server: x stands for those that do.  The  *)
(* username n is what the owner of x has made it by now.                    *)
PlexBegin(t, x, n) ==
  /\ plexOn
  /\ Begin(t, [Idle EXCEPT !.pc = "plexLookup", !.name = n, !.plex = x])
  /\ UNCHANGED <<row, session, plexOn, born, crossed, strayed, renamed>>

(* A sign-in that found no account and has not linked its own yet.          *)
Making(t) == task[t].pc \in {"plexCreate", "plexLink"}

(* plexUserFromAccount: the account linked to the Plex id, and only that    *)
(* one; if there is none, a new account is inserted and then linked.        *)
PlexFinds(t, found) ==
  /\ task[t].pc = "plexLookup"
  /\ IF found # {}
       THEN /\ \E i \in found :
                 Become(t, [task[t] EXCEPT !.pc = "session", !.user = i, !.key = row[i].key,
                                           !.name = NoName])
            /\ UNCHANGED renamed
       ELSE /\ Become(t, [task[t] EXCEPT !.pc = "plexCreate"])
            /\ renamed' = renamed \cup
                 {x \in {task[t].plex} : \E u \in Tasks :
                    Making(u) /\ task[u].plex = x /\ task[u].name # task[t].name}
  /\ UNCHANGED <<row, session, plexOn, born, crossed, strayed>>

PlexLookup(t) == PlexFinds(t, {i \in Ids : row[i].plex = task[t].plex})

PlexCreate(t) ==
  /\ task[t].pc = "plexCreate"
  /\ IF NameFree(task[t].name)
       THEN \E i \in Ids :
              /\ InsertUser(i, task[t].name, "user", FALSE)
              /\ Become(t, [task[t] EXCEPT !.pc = "plexLink", !.user = i, !.key = born'])
       ELSE End(t) /\ UNCHANGED <<row, born>>
  /\ UNCHANGED <<session, plexOn, crossed, strayed, renamed>>

PlexLink(t) ==
  /\ task[t].pc = "plexLink"
  /\ LET i == task[t].user IN
       /\ row' = IF row[i] = NoRow THEN row ELSE [row EXCEPT ![i].plex = task[t].plex]
       /\ Stray(t, i)
  /\ Become(t, [task[t] EXCEPT !.pc = "plexRead", !.name = NoName])
  /\ UNCHANGED <<session, plexOn, born, crossed, renamed>>

(* UserByID after the link; a user deleted meanwhile is not signed in.      *)
PlexRead(t) ==
  /\ task[t].pc = "plexRead"
  /\ IF row[task[t].user] = NoRow THEN End(t) ELSE Become(t, [task[t] EXCEPT !.pc = "session"])
  /\ UNCHANGED <<row, session, plexOn, born, crossed, strayed, renamed>>

(* startSession: the foreign key refuses a session without its account; the *)
(* error is only logged.                                                    *)
StartSession(t) ==
  /\ task[t].pc = "session"
  /\ LET i == task[t].user IN
       IF row[i] = NoRow THEN UNCHANGED session
       ELSE \E s \in Tokens :
              /\ session[s] = NoSession
              /\ session' = [session EXCEPT ![s] =
                   [user |-> i, key |-> row[i].key, plex |-> task[t].plex,
                    astray |-> row[i].key # task[t].key]]
  /\ End(t)
  /\ UNCHANGED <<row, plexOn, born, crossed, strayed, renamed>>

(* Logout, or the session's time to live is over; PruneSessions only sweeps *)
(* what SessionUser does not accept any more.                               *)
EndSession(s) ==
  /\ session[s] # NoSession
  /\ session' = [session EXCEPT ![s] = NoSession]
  /\ UNCHANGED <<row, plexOn, task, born, crossed, strayed, renamed>>
-----------------------------------------------------------------------------
(* Admin handlers: requireAdmin reads session and role in one statement at  *)
(* the start; the write comes later and looks at neither again.             *)

AdminBegin(t, s, job) ==
  /\ session[s] # NoSession
  /\ IsAdmin(session[s].user)
  /\ Begin(t, job)
  /\ UNCHANGED <<row, session, plexOn, born, crossed, strayed, renamed>>

CreateBegin(t, s, n, r) ==
  AdminBegin(t, s, [Idle EXCEPT !.pc = "create", !.name = n, !.role = r])

(* "cannot demote yourself"                                                 *)
UpdateBegin(t, s, i, r) ==
  /\ ~(i = session[s].user /\ r # "admin")
  /\ AdminBegin(t, s, [Idle EXCEPT !.pc = "update", !.user = i, !.key = row[i].key, !.role = r,
                        !.actor = IF r = "user" THEN session[s].user ELSE 0])

Slip_DeleteBegin(t, s, i) ==  \* an admin may delete himself
  AdminBegin(t, s, [Idle EXCEPT !.pc = "delete", !.actor = session[s].user, !.user = i])

(* "cannot delete yourself"                                                 *)
DeleteBegin(t, s, i) ==
  /\ i # session[s].user
  /\ AdminBegin(t, s, [Idle EXCEPT !.pc = "delete", !.actor = session[s].user, !.user = i])

CreateUser(t) ==
  /\ task[t].pc = "create"
  /\ IF NameFree(task[t].name)
       THEN \E i \in Ids : InsertUser(i, task[t].name, task[t].role, FALSE)
       ELSE UNCHANGED <<row, born>>
  /\ End(t)
  /\ UNCHANGED <<session, plexOn, crossed, strayed, renamed>>

(* An admin's role goes away at the hands of somebody who has none.         *)
Cross(t, i) == crossed' = (crossed \/ (IsAdmin(i) /\ ~IsAdmin(task[t].actor)))

Slip_UpdateUser(t) ==  \* writes the row when there is none
  /\ task[t].pc = "update"
  /\ row' = [row EXCEPT ![task[t].user].role = task[t].role]
  /\ IF task[t].role = "user" THEN Cross(t, task[t].user) ELSE UNCHANGED crossed
  /\ Stray(t, task[t].user)
  /\ End(t)
  /\ UNCHANGED <<session, plexOn, born, renamed>>

(* UPDATE users by id: nothing happens when the account is gone.            *)
UpdateUser(t) ==
  /\ task[t].pc = "update"
  /\ LET i == task[t].user IN
       /\ row' = IF row[i] = NoRow THEN row ELSE [row EXCEPT ![i].role = task[t].role]
       /\ IF task[t].role = "user" THEN Cross(t, i) ELSE UNCHANGED crossed
       /\ Stray(t, i)
  /\ End(t)
  /\ UNCHANGED <<session, plexOn, born, renamed>>

Slip_DeleteUser(t) ==  \* foreign keys switched off: the sessions stay
  /\ task[t].pc = "delete"
  /\ row' = [row EXCEPT ![task[t].user] = NoRow]
  /\ Cross(t, task[t].user)
  /\ End(t)
  /\ UNCHANGED <<session, plexOn, born, strayed, renamed>>

(* DELETE FROM users, and ON DELETE CASCADE takes the sessions with it.     *)
DeleteUser(t) ==
  /\ task[t].pc = "delete"
  /\ LET i == task[t].user IN
       /\ row' = [row EXCEPT ![i] = NoRow]
       /\ session' = [s \in Tokens |-> IF session[s].user = i THEN NoSession ELSE session[s]]
       /\ Cross(t, i)
  /\ End(t)
  /\ UNCHANGED <<plexOn, born, strayed, renamed>>

(* handlePlexConfigSet: three settings written one by one, two of which a   *)
(* sign-in asks for; the write that switches it is the step.                *)
PlexConfigSet(s, on) ==
  /\ session[s] # NoSession /\ IsAdmin(session[s].user)
  /\ plexOn' = on
  /\ UNCHANGED <<row, session, task, born, crossed, strayed, renamed>>

(* The process dies: handlers in flight are gone, the database stays.       *)
Restart ==
  /\ task' = [t \in Tasks |-> Idle]
  /\ UNCHANGED <<row, session, plexOn, born, crossed, strayed, renamed>>
-----------------------------------------------------------------------------
Init ==
  /\ row = [i \in Ids |-> NoRow]
  /\ session = [s \in Tokens |-> NoSession]
  /\ plexOn = FALSE
  /\ task = [t \in Tasks |-> Idle]
  /\ born = 0 /\ crossed = FALSE /\ strayed = {} /\ renamed = {}

TaskStep(t) ==
  \/ SetupInsert(t) \/ PlexLookup(t) \/ PlexCreate(t) \/ PlexLink(t) \/ PlexRead(t)
  \/ StartSession(t) \/ CreateUser(t) \/ UpdateUser(t) \/ DeleteUser(t)

Next ==
  \/ \E t \in Tasks, n \in Names : SetupBegin(t, n)
  \/ \E t \in Tasks, i \in Ids : Login(t, i)
  \/ \E t \in Tasks, x \in PlexIds, n \in Names : PlexBegin(t, x, n)
  \/ \E t \in Tasks, s \in Tokens, n \in Names, r \in {"user", "admin"} : CreateBegin(t, s, n, r)
  \/ \E t \in Tasks, s \in Tokens, i \in Ids, r \in {"user", "admin"} : UpdateBegin(t, s, i, r)
  \/ \E t \in Tasks, s \in Tokens, i \in Ids : DeleteBegin(t, s, i)
  \/ \E t \in Tasks : TaskStep(t)
  \/ \E s \in Tokens : EndSession(s)
  \/ \E s \in Tokens, on \in BOOLEAN : PlexConfigSet(s, on)
  \/ Restart

Spec == Init /\ [][Next]_vars
-----------------------------------------------------------------------------
TypeOK ==
  /\ row \in [Ids -> Row \cup {NoRow}]
  /\ session \in [Tokens -> Session]
  /\ plexOn \in BOOLEAN
  /\ task \in [Tasks -> Task]
  /\ born \in Keys
  /\ crossed \in BOOLEAN
  /\ strayed \subseteq Keys
  /\ renamed \subseteq PlexIds

(* First-run setup made the oldest account there is, and only that one,     *)
(* however many setup requests passed the first count at the same time      *)
(* (store.go:276 CreateFirstAdmin).                                         *)
FirstAdminFirst ==
  \A i, j \in Ids : row[i].first /\ row[j] # NoRow => row[i].key <= row[j].key

(* A session belongs to the account whose owner signed in, also when that   *)
(* account is deleted and its id given away while the session or the        *)
(* sign-in lasts; a Plex account only ever opens the account linked to it.  *)
(* The exception is a sign-in overtaken by the deletion and the reuse.      *)
SessionEarned ==
  \A s \in Tokens :
    LET i == session[s].user IN
    session[s] # NoSession /\ ~session[s].astray =>
      /\ row[i] # NoRow /\ row[i].key = session[s].key
      /\ session[s].plex # NoPlex /\ row[i].key \notin strayed => row[i].plex = session[s].plex

(* Two sign-ins of one Plex account can both find no local account linked   *)
(* to it, and nothing makes plex_id unique.  Under one username only one of *)
(* them gets its INSERT through, and every later one finds that account,    *)
(* however often its owner renames himself (plexauth.go:116).  Only when he *)
(* does so between two sign-ins in flight (and his e-mail address, which is *)
(* UNIQUE as well, changes too or is empty) are there two accounts, for     *)
(* good; the other exception is a link that meant another row.              *)
OneAccountPerPlex ==
  \A i, j \in Ids :
    /\ i # j /\ row[i].plex \notin {NoPlex} \cup renamed
    /\ row[i].key \notin strayed /\ row[j].key \notin strayed
    => row[i].plex # row[j].plex

(* Once there was an account there is an admin: demoting or deleting        *)
(* oneself is refused.  The exception: of two admins, each removed the      *)
(* other, the second one after losing his own role.                         *)
AdminRemains == born > 0 => crossed \/ \E i \in Ids : IsAdmin(i)
=============================================================================
