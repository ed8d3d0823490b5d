-------------------------- MODULE Recommendations --------------------------
(***************************************************************************)
(* Recommendations and the cache of similar artists                        *)
(* (internal/engine/engine.go, handleLastfmSet and handleUserUpdate of     *)
(* internal/server/admin.go).                                              *)
(*                                                                         *)
(* A computation takes seeds from the library and from the user's Last.fm  *)
(* profile, looks up the similar artists of every seed (in the cache, or   *)
(* from the backend in use) and stores one list for the user.  It runs in  *)
(* a goroutine of its own, at most one per user, or for one user after     *)
(* another at the end of a library sync; the two know nothing of each      *)
(* other.  Meanwhile admins change profiles and switch the backend, which  *)
(* clears the cache.                                                       *)
(*                                                                         *)
(* What a list says is abstracted to where it comes from: that of a user   *)
(* to the profile it was asked for, that of a seed to the backend.  Every  *)
(* step is one SQL statement, or one call to a backend together with the   *)
(* statement that stores its answer.                                       *)
(***************************************************************************)
EXTENDS Integers, FiniteSets

CONSTANTS
  Users,       \* ids of accounts; that of a deleted one is given out again
  Admin,       \* who changes the Last.fm key; only his list is refreshed then
  Profiles,    \* Last.fm usernames
  NoProfile,
  Seeds,       \* artists of the library
  Backends,    \* the backends in use: "lastfm" with a key, "listenbrainz" without
  Workers,     \* bound: computations and syncs at one time
  MaxEvents    \* bound: restarts and deletions of accounts

ConstantsAssumption ==
  /\ Admin \in Users
  /\ NoProfile \notin Profiles
  /\ Backends \subseteq {"lastfm", "listenbrainz"} /\ Backends # {}
  /\ MaxEvents \in Nat

ASSUME RecommendationsAssumption == ConstantsAssumption

VARIABLES
  backend,   \* what UsingLastFM says
  setting,   \* handleLastfmSet: "idle", or its next step "clear" or "refresh"
  cache,     \* cache[a]: the stored list of similar artists of a
  account,   \* account[u]: whether id u has an account, and its number
  profile,   \* profile[u]: users.lastfm_user
  owed,      \* users whose refresh handleUserUpdate has still to trigger
  inflight,  \* users whose refresh is running, by Engine.inflight
  recs,      \* recs[u]: the stored recommendations
  job,       \* job[w]: a goroutine with its local variables
  events,    \* restarts and deletions so far
  (* history variables: no guard reads them *)
  late,      \* seeds whose entry is another backend's for a known reason: a
             \* fetch in flight, or a crash, at the switch
  exposed    \* ids whose account was deleted while a goroutine held its profile

accounts == <<account, profile, exposed>>
vars == <<backend, setting, cache, accounts, owed, inflight, recs, job, events, late>>

(* A cache entry older than 30 days is fetched again, and still used when   *)
(* the backend fails.                                                       *)
NoEntry == [from |-> "none", fresh |-> FALSE]
Entry   == [from : Backends, fresh : BOOLEAN] \cup {NoEntry}

Account == [there : BOOLEAN, number : 1 .. MaxEvents + 1]

(* The field "of" is history: the number of the account with the profile.   *)
Rec   == [made : BOOLEAN, asked : Profiles \cup {NoProfile}, of : 0 .. MaxEvents + 1]
NoRec == [made |-> FALSE, asked |-> NoProfile, of |-> 0]

(* Where the lookup of a seed stands: not begun, missed in the cache, being *)
(* fetched from a backend, done.                                            *)
Lookup == {"look", "miss", "done"} \cup Backends

Job == [pc    : {"idle", "seeds", "profile", "fetch", "release"},
        sync  : BOOLEAN,                         \* SyncLibraries, not a refresh
        user  : Users,
        todo  : SUBSET Users,                    \* sync: users still to come
        asked : Profiles \cup {NoProfile},
        of    : 0 .. MaxEvents + 1,
        seed  : [Seeds -> Lookup]]
Idle == [pc |-> "idle", sync |-> FALSE, user |-> Admin, todo |-> {}, asked |-> NoProfile, of |-> 0,
         seed |-> [a \in Seeds |-> "look"]]
Compute(u) == [Idle EXCEPT !.pc = "seeds", !.user = u]
-----------------------------------------------------------------------------
(* Starting a computation.                                                  *)

(* RefreshUserAsync: a trigger while a refresh of the user runs is dropped. *)
Refresh(u) ==
  IF u \in inflight THEN UNCHANGED <<inflight, job>>
  ELSE \E w \in Workers : /\ job[w] = Idle
                          /\ job' = [job EXCEPT ![w] = Compute(u)]
                          /\ inflight' = inflight \cup {u}

(* A page visit or a sign-in that finds the list missing or too old, or the *)
(* admin's manual refresh.                                                  *)
Visit(u) ==
  /\ account[u].there
  /\ Refresh(u)
  /\ UNCHANGED <<backend, setting, cache, accounts, owed, recs, events, late>>

(* The last part of SyncLibraries, by the scheduler or by hand: every user  *)
(* there is now, in turn.                                                   *)
SyncStart(w) ==
  /\ job[w] = Idle
  /\ LET all == {u \in Users : account[u].there}
     IN  \E u \in all :
           job' = [job EXCEPT ![w] = [Compute(u) EXCEPT !.sync = TRUE, !.todo = all \ {u}]]
  /\ UNCHANGED <<backend, setting, cache, accounts, owed, inflight, recs, events, late>>
-----------------------------------------------------------------------------
(* ComputeRecommendations.                                                  *)

(* UsingLastFM: without a key the profile plays no part.                    *)
ReadSeeds(w) ==
  /\ job[w].pc = "seeds"
  /\ job' = [job EXCEPT ![w].pc = IF backend = "lastfm" THEN "profile" ELSE "fetch"]
  /\ UNCHANGED <<backend, setting, cache, accounts, owed, inflight, recs, events, late>>

(* UserByID and the listening history; if Last.fm has none, the library     *)
(* alone gives the seeds.                                                   *)
Slip_ReadProfile(w) ==  \* the profile of a list already stored is kept
  /\ job[w].pc = "profile"
  /\ LET u == job[w].user
         new == IF profile[u] = NoProfile THEN 0 ELSE account[u].number
     IN  job' = [job EXCEPT ![w].pc = "fetch",
                            ![w].asked = IF recs[u].made THEN recs[u].asked ELSE profile[u],
                            ![w].of = IF recs[u].made THEN recs[u].of ELSE new]
  /\ UNCHANGED <<backend, setting, cache, accounts, owed, inflight, recs, events, late>>

ReadProfile(w) ==
  /\ job[w].pc = "profile"
  /\ LET u == job[w].user
     IN  job' = [job EXCEPT ![w].pc = "fetch", ![w].asked = profile[u],
                            ![w].of = IF profile[u] = NoProfile THEN 0 ELSE account[u].number]
  /\ UNCHANGED <<backend, setting, cache, accounts, owed, inflight, recs, events, late>>

(* similarFor.  The lookups of the seeds run side by side.                  *)
Now(w, a, stage) == job' = [job EXCEPT ![w].seed[a] = stage]

LookUp(w, a) ==
  /\ job[w].pc = "fetch" /\ job[w].seed[a] = "look"
  /\ Now(w, a, IF cache[a].fresh THEN "done" ELSE "miss")
  /\ UNCHANGED <<backend, setting, cache, accounts, owed, inflight, recs, events, late>>

PickBackend(w, a) ==
  /\ job[w].pc = "fetch" /\ job[w].seed[a] = "miss"
  /\ Now(w, a, backend)
  /\ UNCHANGED <<backend, setting, cache, accounts, owed, inflight, recs, events, late>>

(* SaveSimilar, whatever has happened to the cache since the lookup: the    *)
(* list the backend sent, or, with ListenBrainz, the empty one for a seed   *)
(* to which MusicBrainz gave no MBID or no answer.                          *)
Fetched(w, a) ==
  /\ job[w].pc = "fetch" /\ job[w].seed[a] \in Backends
  /\ LET b == job[w].seed[a] IN
       /\ cache' = [cache EXCEPT ![a] = [from |-> b, fresh |-> TRUE]]
       /\ late' = IF b = backend THEN late \ {a} ELSE late \cup {a}
       /\ Now(w, a, "done")
  /\ UNCHANGED <<backend, setting, accounts, owed, inflight, recs, events>>

Slip_FetchFailed(w, a) ==  \* caches the failure as an empty list
  /\ job[w].pc = "fetch" /\ job[w].seed[a] \in Backends
  /\ cache' = [cache EXCEPT ![a].fresh = TRUE]
  /\ Now(w, a, "done")
  /\ UNCHANGED <<backend, setting, accounts, owed, inflight, recs, events, late>>

(* The backend itself failed: "stale beats empty", and that is not cached.  *)
FetchFailed(w, a) ==
  /\ job[w].pc = "fetch" /\ job[w].seed[a] \in Backends
  /\ Now(w, a, "done")
  /\ UNCHANGED <<backend, setting, cache, accounts, owed, inflight, recs, events, late>>

(* SaveRecommendations, by id; the foreign key refuses it when there is no  *)
(* account.  A sync goes on to its next user either way.                    *)
Save(w) ==
  /\ job[w].pc = "fetch" /\ \A a \in Seeds : job[w].seed[a] = "done"
  /\ recs' = IF ~account[job[w].user].there THEN recs
             ELSE [recs EXCEPT ![job[w].user] =
                     [made |-> TRUE, asked |-> job[w].asked, of |-> job[w].of]]
  /\ IF ~job[w].sync THEN job' = [job EXCEPT ![w] = [Compute(job[w].user) EXCEPT !.pc = "release"]]
     ELSE IF job[w].todo = {} THEN job' = [job EXCEPT ![w] = Idle]
     ELSE \E u \in job[w].todo :
            job' = [job EXCEPT ![w] = [Compute(u) EXCEPT !.sync = TRUE,
                                                         !.todo = job[w].todo \ {u}]]
  /\ UNCHANGED <<backend, setting, cache, accounts, owed, inflight, events, late>>

(* The deferred inflight.Delete of a refresh.                               *)
Release(w) ==
  /\ job[w].pc = "release"
  /\ inflight' = inflight \ {job[w].user}
  /\ job' = [job EXCEPT ![w] = Idle]
  /\ UNCHANGED <<backend, setting, cache, accounts, owed, recs, events, late>>

JobStep(w) ==
  \/ ReadSeeds(w) \/ ReadProfile(w) \/ Save(w) \/ Release(w)
  \/ \E a \in Seeds : LookUp(w, a) \/ PickBackend(w, a) \/ Fetched(w, a) \/ FetchFailed(w, a)
-----------------------------------------------------------------------------
(* Admins.                                                                  *)

CreateUser(u) ==
  /\ ~account[u].there
  /\ account' = [account EXCEPT ![u] = [there |-> TRUE, number |-> @.number + 1]]
  /\ UNCHANGED <<backend, setting, cache, profile, exposed, owed, inflight, recs, job, events, late>>

Slip_DeleteUser(u) ==  \* without the cascade
  /\ account[u].there
  /\ events < MaxEvents /\ events' = events + 1
  /\ account' = [account EXCEPT ![u].there = FALSE]
  /\ profile' = [profile EXCEPT ![u] = NoProfile]
  /\ UNCHANGED <<backend, setting, cache, exposed, owed, inflight, recs, job, late>>

(* The list goes with the account, the computation does not.                *)
DeleteUser(u) ==
  /\ account[u].there
  /\ events < MaxEvents /\ events' = events + 1
  /\ account' = [account EXCEPT ![u].there = FALSE]
  /\ profile' = [profile EXCEPT ![u] = NoProfile]
  /\ recs' = [recs EXCEPT ![u] = NoRec]
  /\ exposed' = IF \E w \in Workers : job[w].user = u /\ job[w].asked # NoProfile
                  THEN exposed \cup {u} ELSE exposed
  /\ UNCHANGED <<backend, setting, cache, owed, inflight, job, late>>

(* handleUserUpdate: first the row, if there is one, then the trigger.      *)
ProfileSet(u, p) ==
  /\ p # profile[u]
  /\ profile' = IF account[u].there THEN [profile EXCEPT ![u] = p] ELSE profile
  /\ owed' = owed \cup {u}
  /\ UNCHANGED <<backend, setting, cache, account, exposed, inflight, recs, job, events, late>>

ProfileRefresh(u) ==
  /\ u \in owed
  /\ owed' = owed \ {u}
  /\ Refresh(u)
  /\ UNCHANGED <<backend, setting, cache, accounts, recs, events, late>>

(* handleLastfmSet: the key, the cache, the admin's own list.  A new key    *)
(* for the backend in use does the same.                                    *)
KeySet(b) ==
  /\ setting = "idle" /\ account[Admin].there
  /\ backend' = b
  /\ setting' = "clear"
  /\ UNCHANGED <<cache, accounts, owed, inflight, recs, job, events, late>>

Slip_ClearSimilar ==  \* removes only what is over 30 days old
  /\ setting = "clear"
  /\ cache' = [a \in Seeds |-> IF cache[a].fresh THEN cache[a] ELSE NoEntry]
  /\ late' = {}
  /\ setting' = "refresh"
  /\ UNCHANGED <<backend, accounts, owed, inflight, recs, job, events>>

ClearSimilar ==
  /\ setting = "clear"
  /\ cache' = [a \in Seeds |-> NoEntry]
  /\ late' = {}
  /\ setting' = "refresh"
  /\ UNCHANGED <<backend, accounts, owed, inflight, recs, job, events>>

KeyRefresh ==
  /\ setting = "refresh"
  /\ setting' = "idle"
  /\ Refresh(Admin)
  /\ UNCHANGED <<backend, cache, accounts, owed, recs, events, late>>
-----------------------------------------------------------------------------
(* Thirty days pass for an entry.                                           *)
Age(a) ==
  /\ cache[a].fresh
  /\ cache' = [cache EXCEPT ![a].fresh = FALSE]
  /\ UNCHANGED <<backend, setting, accounts, owed, inflight, recs, job, events, late>>

(* The process dies; the tables stay.                                       *)
Restart ==
  /\ events < MaxEvents /\ events' = events + 1
  /\ job' = [w \in Workers |-> Idle]
  /\ inflight' = {} /\ owed' = {} /\ setting' = "idle"
  /\ late' = late \cup {a \in Seeds : cache[a].from \notin {"none", backend}}
  /\ UNCHANGED <<backend, cache, accounts, recs>>

Init ==
  /\ backend \in Backends
  /\ setting = "idle"
  /\ cache = [a \in Seeds |-> NoEntry]
  /\ account = [u \in Users |-> [there |-> TRUE, number |-> 1]]
  /\ profile = [u \in Users |-> NoProfile] /\ exposed = {}
  /\ owed = {} /\ inflight = {}
  /\ recs = [u \in Users |-> NoRec]
  /\ job = [w \in Workers |-> Idle]
  /\ events = 0 /\ late = {}

Next ==
  \/ \E u \in Users : Visit(u) \/ ProfileRefresh(u) \/ CreateUser(u) \/ DeleteUser(u)
  \/ \E u \in Users, p \in Profiles \cup {NoProfile} : ProfileSet(u, p)
  \/ \E w \in Workers : SyncStart(w) \/ JobStep(w)
  \/ \E b \in Backends : KeySet(b)
  \/ ClearSimilar \/ KeyRefresh
  \/ \E a \in Seeds : Age(a)
  \/ Restart

(* Goroutines run, backends answer or time out, and the scheduler syncs     *)
(* every twelve hours.                                                      *)
Fairness ==
  /\ \A w \in Workers : WF_vars(JobStep(w))
  /\ WF_vars(\E w \in Workers : SyncStart(w))

Spec == Init /\ [][Next]_vars /\ Fairness
-----------------------------------------------------------------------------
TypeOK ==
  /\ backend \in Backends
  /\ setting \in {"idle", "clear", "refresh"}
  /\ cache \in [Seeds -> Entry]
  /\ account \in [Users -> Account]
  /\ profile \in [Users -> Profiles \cup {NoProfile}]
  /\ owed \subseteq Users /\ inflight \subseteq Users
  /\ recs \in [Users -> Rec]
  /\ job \in [Workers -> Job]
  /\ events \in 0 .. MaxEvents
  /\ late \subseteq Seeds /\ exposed \subseteq Users

(* A list made from somebody's Last.fm profile belongs to that account: no  *)
(* later account with the same id inherits it, neither from the table nor   *)
(* from a computation that outlives the one it was for.  The exception: ids *)
(* deleted while a goroutine had already read the profile.                  *)
OwnRecommendations ==
  \A u \in Users \ exposed :
    recs[u].asked # NoProfile => account[u].there /\ recs[u].of = account[u].number

(* The cache holds scores of the backend in use, except while the admin's   *)
(* request is still switching it, and except for entries saved by a fetch   *)
(* that was under way, or left by a crash, at the switch.                   *)
CacheOfBackend ==
  \A a \in Seeds : cache[a].from \in {"none", backend} \/ a \in late \/ setting = "clear"

(* However many triggers were dropped and however computations overtook     *)
(* each other, the list is in the end one asked for the user's profile,     *)
(* unless that changes again or Last.fm is switched off.                    *)
ProfileCatchesUp ==
  \A u \in Users, p \in Profiles :
    profile[u] = p /\ backend = "lastfm"
      ~> recs[u].asked = p \/ profile[u] # p \/ backend # "lastfm"
=============================================================================
