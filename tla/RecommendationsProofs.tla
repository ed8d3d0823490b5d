----------------------- MODULE RecommendationsProofs -----------------------
(***************************************************************************)
(* Theorems about Recommendations, for any users, profiles, seeds and      *)
(* goroutines.                                                             *)
(*                                                                         *)
(* A list is stored by the id of its user, by a goroutine that read the    *)
(* profile much earlier: the inductive invariant IInv says of the lists    *)
(* that are still being computed what OwnRecommendations says of those     *)
(* that are stored.                                                        *)
(***************************************************************************)
EXTENDS Recommendations, TLAPS

(* An account's number is bounded by the deletions before it.               *)
Numbered == \A u \in Users : account[u].number + (IF account[u].there THEN 0 ELSE 1) <= events + 1

(* A deleted account's profile is gone with it.                             *)
ProfileInv == \A u \in Users : profile[u] # NoProfile => account[u].there

(* A profile in the hands of a goroutine is that of the account there is    *)
(* now, unless one was deleted under it.                                    *)
JobInv ==
  \A w \in Workers :
    LET u == job[w].user IN
    job[w].asked # NoProfile /\ u \notin exposed =>
      account[u].there /\ job[w].of = account[u].number

IInv == TypeOK /\ Numbered /\ ProfileInv /\ JobInv /\ OwnRecommendations /\ CacheOfBackend
-----------------------------------------------------------------------------
USE RecommendationsAssumption DEF ConstantsAssumption

(* A goroutine that is idle, or begins, has no profile yet.                 *)
LEMMA NewJobs ==
  /\ Idle \in Job /\ Idle.asked = NoProfile
  /\ \A u \in Users : Compute(u) \in Job /\ Compute(u).asked = NoProfile
  /\ \A u \in Users, all \in SUBSET Users :
       /\ [Compute(u) EXCEPT !.sync = TRUE, !.todo = all] \in Job
       /\ [Compute(u) EXCEPT !.sync = TRUE, !.todo = all].asked = NoProfile
  /\ \A u \in Users : /\ [Compute(u) EXCEPT !.pc = "release"] \in Job
                      /\ [Compute(u) EXCEPT !.pc = "release"].asked = NoProfile
  <1>1. Idle \in Job /\ Idle.asked = NoProfile
    <2>1. [a \in Seeds |-> "look"] \in [Seeds -> Lookup]
      BY DEF Lookup
    <2> QED BY <2>1 DEF Idle, Job
  <1>2. ASSUME NEW u \in Users PROVE Compute(u) \in Job /\ Compute(u).asked = NoProfile
    BY <1>1 DEF Compute, Job
  <1>3. ASSUME NEW u \in Users, NEW all \in SUBSET Users
        PROVE  /\ [Compute(u) EXCEPT !.sync = TRUE, !.todo = all] \in Job
               /\ [Compute(u) EXCEPT !.sync = TRUE, !.todo = all].asked = NoProfile
    <2> DEFINE c == Compute(u)
    <2>1. c \in Job /\ c.asked = NoProfile
      BY <1>2
    <2> HIDE DEF c
    <2>2. /\ [c EXCEPT !.sync = TRUE, !.todo = all] \in Job
          /\ [c EXCEPT !.sync = TRUE, !.todo = all].asked = NoProfile
      BY <2>1 DEF Job
    <2> QED BY <2>2 DEF c
  <1>4. ASSUME NEW u \in Users
        PROVE  /\ [Compute(u) EXCEPT !.pc = "release"] \in Job
               /\ [Compute(u) EXCEPT !.pc = "release"].asked = NoProfile
    BY <1>2 DEF Job
  <1> QED BY <1>1, <1>2, <1>3, <1>4

(* Nothing is stored and nothing runs.                                      *)
LEMMA InitIInv == Init => IInv
  <1> SUFFICES ASSUME Init PROVE IInv
    OBVIOUS
  <1> USE DEF Init
  <1>1. TypeOK
    <2>1. cache \in [Seeds -> Entry] /\ recs \in [Users -> Rec]
      BY DEF Entry, Rec, NoRec
    <2>2. account \in [Users -> Account] /\ profile \in [Users -> Profiles \cup {NoProfile}]
      BY DEF Account
    <2>3. job \in [Workers -> Job]
      BY NewJobs
    <2> QED BY <2>1, <2>2, <2>3 DEF TypeOK
  <1>2. Numbered /\ ProfileInv
    BY DEF Numbered, ProfileInv
  <1>3. JobInv
    BY NewJobs DEF JobInv
  <1>4. OwnRecommendations /\ CacheOfBackend
    BY DEF OwnRecommendations, CacheOfBackend, NoRec, NoEntry
  <1> QED BY <1>1, <1>2, <1>3, <1>4 DEF IInv

-----------------------------------------------------------------------------
(* Frames.                                                                  *)

(* What is said of accounts and stored lists, while they stay.              *)
LEMMA AccountsFrame ==
  ASSUME IInv, UNCHANGED <<accounts, recs, events>>
  PROVE  Numbered' /\ ProfileInv' /\ OwnRecommendations'
  BY DEF IInv, accounts, Numbered, ProfileInv, OwnRecommendations

(* What is said of the cache, while it stays.                               *)
LEMMA CacheFrame ==
  ASSUME IInv, UNCHANGED <<backend, setting, cache, late>>
  PROVE  CacheOfBackend'
  BY DEF IInv, CacheOfBackend

(* A goroutine goes on, with a profile of the account there is, if any.     *)
LEMMA JobStepKeeps ==
  ASSUME IInv, NEW w \in Workers, NEW q \in Job, job' = [job EXCEPT ![w] = q],
         UNCHANGED accounts,
         q.asked # NoProfile /\ q.user \notin exposed =>
           account[q.user].there /\ q.of = account[q.user].number
  PROVE  job' \in [Workers -> Job] /\ JobInv'
  <1>1. /\ job' \in [Workers -> Job]
        /\ \A v \in Workers : job'[v] = IF v = w THEN q ELSE job[v]
    BY DEF IInv, TypeOK
  <1> QED BY <1>1 DEF IInv, JobInv, accounts

(* RefreshUserAsync starts a goroutine or drops the trigger.                *)
LEMMA RefreshKeeps ==
  ASSUME IInv, NEW u \in Users, Refresh(u), UNCHANGED accounts
  PROVE  job' \in [Workers -> Job] /\ inflight' \subseteq Users /\ JobInv'
  <1>1. CASE u \in inflight
    BY <1>1 DEF Refresh, IInv, TypeOK, JobInv, accounts
  <1>2. CASE u \notin inflight
    <2>1. PICK w \in Workers : job' = [job EXCEPT ![w] = Compute(u)]
      BY <1>2 DEF Refresh
    <2>2. Compute(u) \in Job /\ Compute(u).asked = NoProfile
      BY NewJobs
    <2>3. job' \in [Workers -> Job] /\ JobInv'
      BY <2>1, <2>2, JobStepKeeps
    <2> QED BY <1>2, <2>3 DEF Refresh, IInv, TypeOK
  <1> QED BY <1>1, <1>2

(* A step of one goroutine on the tables it may leave alone.                *)
LEMMA ReadKeepsIInv ==
  ASSUME IInv, job' \in [Workers -> Job], JobInv', inflight' \subseteq Users,
         UNCHANGED <<backend, setting, cache, accounts, recs, events, late>>,
         owed' \subseteq Users
  PROVE  IInv'
  <1>1. Numbered' /\ ProfileInv' /\ OwnRecommendations' /\ CacheOfBackend'
    BY AccountsFrame, CacheFrame
  <1>2. TypeOK'
    BY DEF IInv, TypeOK, accounts
  <1> QED BY <1>1, <1>2 DEF IInv

-----------------------------------------------------------------------------
(* Computations.                                                            *)

(* A page visit only starts a computation, which has no profile yet.        *)
LEMMA VisitKeepsIInv ==
  ASSUME IInv, NEW u \in Users, Visit(u)
  PROVE  IInv'
  <1>1. /\ Refresh(u) /\ UNCHANGED <<backend, setting, cache, accounts, recs, events, late>>
        /\ owed' \subseteq Users
    BY DEF Visit, IInv, TypeOK
  <1> QED BY <1>1, RefreshKeeps, ReadKeepsIInv

(* A sync takes the users there are, one after another.                     *)
LEMMA SyncStartKeepsIInv ==
  ASSUME IInv, NEW w \in Workers, SyncStart(w)
  PROVE  IInv'
  <1> DEFINE all == {u \in Users : account[u].there}
  <1>1. /\ UNCHANGED <<backend, setting, cache, accounts, recs, events, late>>
        /\ owed' \subseteq Users /\ inflight' \subseteq Users
    BY DEF SyncStart, IInv, TypeOK
  <1>2. PICK u \in all :
          job' = [job EXCEPT ![w] = [Compute(u) EXCEPT !.sync = TRUE, !.todo = all \ {u}]]
    BY DEF SyncStart
  <1> DEFINE q == [Compute(u) EXCEPT !.sync = TRUE, !.todo = all \ {u}]
  <1>3. q \in Job /\ q.asked = NoProfile
    BY <1>2, NewJobs
  <1> HIDE DEF q
  <1>4. job' \in [Workers -> Job] /\ JobInv'
    BY <1>1, <1>2, <1>3, JobStepKeeps DEF q
  <1> QED BY <1>1, <1>4, ReadKeepsIInv

(* A lookup of a seed moves on.                                             *)
LEMMA NowKeeps ==
  ASSUME IInv, NEW w \in Workers, NEW a \in Seeds, NEW stage \in Lookup, Now(w, a, stage),
         UNCHANGED accounts
  PROVE  job' \in [Workers -> Job] /\ JobInv'
  <1> DEFINE q == [job[w] EXCEPT !.seed = [job[w].seed EXCEPT ![a] = stage]]
  <1>1. job[w] \in Job
    BY DEF IInv, TypeOK
  <1>2. /\ q \in Job /\ q.asked = job[w].asked /\ q.user = job[w].user /\ q.of = job[w].of
    BY <1>1 DEF Job
  <1>3. job' = [job EXCEPT ![w] = q]
    BY <1>1 DEF Now, IInv, TypeOK, Job
  <1> HIDE DEF q
  <1>4. q.asked # NoProfile /\ q.user \notin exposed =>
          account[q.user].there /\ q.of = account[q.user].number
    BY <1>2 DEF IInv, JobInv
  <1> QED BY <1>2, <1>3, <1>4, JobStepKeeps

(* UsingLastFM, and the profile with the account it belongs to.             *)
LEMMA ReadSeedsKeepsIInv ==
  ASSUME IInv, NEW w \in Workers, ReadSeeds(w)
  PROVE  IInv'
  <1> DEFINE q == [job[w] EXCEPT !.pc = IF backend = "lastfm" THEN "profile" ELSE "fetch"]
  <1>1. /\ UNCHANGED <<backend, setting, cache, accounts, recs, events, late>>
        /\ owed' \subseteq Users /\ inflight' \subseteq Users /\ job[w] \in Job
        /\ job' = [job EXCEPT ![w] = q]
    BY DEF ReadSeeds, IInv, TypeOK
  <1>2. q \in Job /\ q.asked = job[w].asked /\ q.user = job[w].user /\ q.of = job[w].of
    BY <1>1 DEF Job
  <1> HIDE DEF q
  <1>3. q.asked # NoProfile /\ q.user \notin exposed =>
          account[q.user].there /\ q.of = account[q.user].number
    BY <1>2 DEF IInv, JobInv
  <1>4. job' \in [Workers -> Job] /\ JobInv'
    BY <1>1, <1>2, <1>3, JobStepKeeps
  <1> QED BY <1>1, <1>4, ReadKeepsIInv

(* A profile is read together with the number of the account that has it.   *)
LEMMA ReadProfileKeepsIInv ==
  ASSUME IInv, NEW w \in Workers, ReadProfile(w)
  PROVE  IInv'
  <1> DEFINE u == job[w].user
             n == IF profile[u] = NoProfile THEN 0 ELSE account[u].number
             q == [job[w] EXCEPT !.pc = "fetch", !.asked = profile[u], !.of = n]
  <1>1. /\ UNCHANGED <<backend, setting, cache, accounts, recs, events, late>>
        /\ owed' \subseteq Users /\ inflight' \subseteq Users /\ job[w] \in Job
        /\ job' = [job EXCEPT ![w] = q]
    BY DEF ReadProfile, IInv, TypeOK
  <1>2. /\ u \in Users /\ profile[u] \in Profiles \cup {NoProfile} /\ n \in 0 .. MaxEvents + 1
        /\ profile[u] # NoProfile => account[u].there
    BY <1>1 DEF IInv, TypeOK, Job, Account, ProfileInv
  <1> HIDE DEF n
  <1>3. q \in Job /\ q.asked = profile[u] /\ q.user = u /\ q.of = n
    BY <1>1, <1>2 DEF Job
  <1> HIDE DEF q
  <1>4. q.asked # NoProfile /\ q.user \notin exposed =>
          account[q.user].there /\ q.of = account[q.user].number
    BY <1>2, <1>3 DEF n
  <1>5. job' \in [Workers -> Job] /\ JobInv'
    BY <1>1, <1>3, <1>4, JobStepKeeps
  <1> QED BY <1>1, <1>5, ReadKeepsIInv

(* Reading the cache or a failed fetch changes no table.                    *)
LEMMA LookUpKeepsIInv ==
  ASSUME IInv, NEW w \in Workers, NEW a \in Seeds,
         LookUp(w, a) \/ PickBackend(w, a) \/ FetchFailed(w, a)
  PROVE  IInv'
  <1>1. /\ UNCHANGED <<backend, setting, cache, accounts, recs, events, late>>
        /\ owed' \subseteq Users /\ inflight' \subseteq Users
        /\ \E stage \in Lookup : Now(w, a, stage)
    BY DEF LookUp, PickBackend, FetchFailed, IInv, TypeOK, Lookup
  <1>2. job' \in [Workers -> Job] /\ JobInv'
    BY <1>1, NowKeeps
  <1> QED BY <1>1, <1>2, ReadKeepsIInv

(* An answer is stored next to the backend that gave it, at whatever time.  *)
LEMMA FetchedKeepsIInv ==
  ASSUME IInv, NEW w \in Workers, NEW a \in Seeds, Fetched(w, a)
  PROVE  IInv'
  <1> DEFINE b == job[w].seed[a]
             e == [from |-> b, fresh |-> TRUE]
  <1>1. /\ UNCHANGED <<backend, setting, accounts, owed, inflight, recs, events>>
        /\ b \in Backends /\ cache' = [cache EXCEPT ![a] = e] /\ Now(w, a, "done")
        /\ late' = IF b = backend THEN late \ {a} ELSE late \cup {a}
    BY DEF Fetched
  <1>2. e \in Entry /\ e.from = b
    BY <1>1 DEF Entry
  <1> HIDE DEF e, b
  <1>3. job' \in [Workers -> Job] /\ JobInv'
    BY <1>1, NowKeeps DEF Lookup
  <1>4. Numbered' /\ ProfileInv' /\ OwnRecommendations'
    BY <1>1, AccountsFrame
  <1>5. /\ cache' \in [Seeds -> Entry] /\ late' \subseteq Seeds
        /\ \A c \in Seeds : cache'[c] = IF c = a THEN e ELSE cache[c]
    BY <1>1, <1>2 DEF IInv, TypeOK
  <1>6. CacheOfBackend'
    BY <1>1, <1>2, <1>5 DEF IInv, CacheOfBackend
  <1>7. TypeOK'
    BY <1>1, <1>3, <1>5 DEF IInv, TypeOK, accounts
  <1> QED BY <1>3, <1>4, <1>6, <1>7 DEF IInv

(* SaveRecommendations stores by id what was read long before.              *)
LEMMA SaveKeepsIInv ==
  ASSUME IInv, NEW w \in Workers, Save(w)
  PROVE  IInv'
  <1> DEFINE u == job[w].user
             l == [made |-> TRUE, asked |-> job[w].asked, of |-> job[w].of]
  <1>1. /\ UNCHANGED <<backend, setting, cache, accounts, owed, inflight, events, late>>
        /\ recs' = IF ~account[u].there THEN recs ELSE [recs EXCEPT ![u] = l]
        /\ job[w] \in Job /\ u \in Users
    BY DEF Save, IInv, TypeOK, Job
  <1>2. \E q \in Job : q.asked = NoProfile /\ job' = [job EXCEPT ![w] = q]
    <2>1. CASE ~job[w].sync
      BY <1>1, <2>1, NewJobs DEF Save
    <2>2. CASE job[w].sync /\ job[w].todo = {}
      BY <2>2, NewJobs DEF Save
    <2>3. CASE job[w].sync /\ job[w].todo # {}
      <3>1. PICK v \in job[w].todo :
              job' = [job EXCEPT ![w] = [Compute(v) EXCEPT !.sync = TRUE,
                                                           !.todo = job[w].todo \ {v}]]
        BY <2>3 DEF Save
      <3>2. v \in Users /\ job[w].todo \ {v} \in SUBSET Users
        BY <1>1 DEF Job
      <3> QED BY <3>1, <3>2, NewJobs
    <2> QED BY <2>1, <2>2, <2>3
  <1>3. job' \in [Workers -> Job] /\ JobInv'
    BY <1>1, <1>2, JobStepKeeps
  <1>4. l \in Rec /\ l.asked = job[w].asked /\ l.of = job[w].of
    BY <1>1 DEF Job, Rec
  <1> HIDE DEF l
  <1>5. /\ recs' \in [Users -> Rec]
        /\ \A v \in Users : recs'[v] = recs[v] \/ (v = u /\ recs'[v] = l)
    BY <1>1, <1>4 DEF IInv, TypeOK
  <1>6. OwnRecommendations'
    BY <1>1, <1>4, <1>5 DEF IInv, OwnRecommendations, JobInv, accounts
  <1>7. Numbered' /\ ProfileInv' /\ CacheOfBackend'
    BY <1>1, CacheFrame DEF IInv, Numbered, ProfileInv, accounts
  <1>8. TypeOK'
    BY <1>1, <1>3, <1>5 DEF IInv, TypeOK, accounts
  <1> QED BY <1>3, <1>6, <1>7, <1>8 DEF IInv

(* The goroutine ends.                                                      *)
LEMMA ReleaseKeepsIInv ==
  ASSUME IInv, NEW w \in Workers, Release(w)
  PROVE  IInv'
  <1>1. /\ UNCHANGED <<backend, setting, cache, accounts, recs, events, late>>
        /\ owed' \subseteq Users /\ inflight' \subseteq Users /\ job' = [job EXCEPT ![w] = Idle]
    BY DEF Release, IInv, TypeOK
  <1>2. job' \in [Workers -> Job] /\ JobInv'
    BY <1>1, NewJobs, JobStepKeeps
  <1> QED BY <1>1, <1>2, ReadKeepsIInv

-----------------------------------------------------------------------------
(* Accounts and settings.                                                   *)

(* The next account with the id; nothing is left of the one before.         *)
LEMMA CreateUserKeepsIInv ==
  ASSUME IInv, NEW u \in Users, CreateUser(u)
  PROVE  IInv'
  <1> USE DEF IInv
  <1> DEFINE x == [there |-> TRUE, number |-> account[u].number + 1]
  <1>1. /\ ~account[u].there /\ account' = [account EXCEPT ![u] = x]
        /\ UNCHANGED <<backend, setting, cache, profile, exposed, owed, inflight, recs, job,
                       events, late>>
    BY DEF CreateUser
  <1>2. /\ account[u].number \in 1 .. MaxEvents + 1 /\ events \in 0 .. MaxEvents
        /\ account[u].number + 1 <= events + 1
    BY <1>1 DEF TypeOK, Account, Numbered
  <1>3. x \in Account /\ x.there /\ x.number = account[u].number + 1
    BY <1>2 DEF Account
  <1> HIDE DEF x
  <1>4. /\ account' \in [Users -> Account]
        /\ \A v \in Users : account'[v] = IF v = u THEN x ELSE account[v]
    BY <1>1, <1>3 DEF TypeOK
  <1>5. TypeOK'
    BY <1>1, <1>4 DEF TypeOK
  <1>6. Numbered'
    BY <1>1, <1>2, <1>3, <1>4 DEF Numbered
  <1>7. ProfileInv'
    BY <1>1, <1>3, <1>4 DEF ProfileInv
  <1>8. JobInv' /\ OwnRecommendations'
    <2>1. \A w \in Workers : job[w].user \in Users
      BY DEF TypeOK, Job
    <2> QED BY <1>1, <1>4, <2>1 DEF JobInv, OwnRecommendations
  <1>9. CacheOfBackend'
    BY <1>1, CacheFrame
  <1> QED BY <1>5, <1>6, <1>7, <1>8, <1>9

(* The list and the profile go with the account; a goroutine that has read  *)
(* the profile makes the id an exception.                                   *)
LEMMA DeleteUserKeepsIInv ==
  ASSUME IInv, NEW u \in Users, DeleteUser(u)
  PROVE  IInv'
  <1> USE DEF IInv
  <1> DEFINE x == [account[u] EXCEPT !.there = FALSE]
  <1>1. /\ account[u].there /\ account' = [account EXCEPT ![u] = x] /\ events' = events + 1
        /\ events < MaxEvents
        /\ profile' = [profile EXCEPT ![u] = NoProfile] /\ recs' = [recs EXCEPT ![u] = NoRec]
        /\ exposed' = IF \E w \in Workers : job[w].user = u /\ job[w].asked # NoProfile
                        THEN exposed \cup {u} ELSE exposed
        /\ UNCHANGED <<backend, setting, cache, owed, inflight, job, late>>
    BY DEF DeleteUser
  <1>2. x \in Account /\ ~x.there /\ x.number = account[u].number
    BY DEF TypeOK, Account
  <1>3. NoRec \in Rec /\ NoRec.asked = NoProfile
    BY DEF NoRec, Rec
  <1> HIDE DEF x
  <1>4. /\ account' \in [Users -> Account] /\ profile' \in [Users -> Profiles \cup {NoProfile}]
        /\ recs' \in [Users -> Rec] /\ events' \in 0 .. MaxEvents /\ exposed' \subseteq Users
        /\ account'[u] = x /\ profile'[u] = NoProfile /\ recs'[u] = NoRec
        /\ \A v \in Users \ {u} : /\ account'[v] = account[v] /\ profile'[v] = profile[v]
                                  /\ recs'[v] = recs[v]
    BY <1>1, <1>2, <1>3 DEF TypeOK
  <1>5. TypeOK'
    BY <1>1, <1>4 DEF TypeOK
  <1>6. Numbered'
    <2>1. \A v \in Users : account[v].number \in Nat /\ events \in Nat
      BY DEF TypeOK, Account
    <2> QED BY <1>1, <1>2, <1>4, <2>1 DEF Numbered
  <1>7. ProfileInv' /\ OwnRecommendations'
    BY <1>1, <1>2, <1>3, <1>4 DEF ProfileInv, OwnRecommendations
  <1>8. JobInv'
    <2>1. \A w \in Workers : job[w].user \in Users
      BY DEF TypeOK, Job
    <2> QED BY <1>1, <1>4, <2>1 DEF JobInv
  <1>9. CacheOfBackend'
    BY <1>1, CacheFrame
  <1> QED BY <1>5, <1>6, <1>7, <1>8, <1>9

(* A profile is stored only for an account there is.                        *)
LEMMA ProfileSetKeepsIInv ==
  ASSUME IInv, NEW u \in Users, NEW p \in Profiles \cup {NoProfile}, ProfileSet(u, p)
  PROVE  IInv'
  <1> USE DEF IInv
  <1>1. /\ profile' = IF account[u].there THEN [profile EXCEPT ![u] = p] ELSE profile
        /\ owed' = owed \cup {u}
        /\ UNCHANGED <<backend, setting, cache, account, exposed, inflight, recs, job, events,
                       late>>
    BY DEF ProfileSet
  <1>2. TypeOK'
    BY <1>1 DEF TypeOK
  <1>3. ProfileInv'
    BY <1>1 DEF ProfileInv, TypeOK
  <1>4. Numbered' /\ JobInv' /\ OwnRecommendations'
    BY <1>1 DEF Numbered, JobInv, OwnRecommendations
  <1>5. CacheOfBackend'
    BY <1>1, CacheFrame
  <1> QED BY <1>2, <1>3, <1>4, <1>5

(* The refresh the change of a profile owes.                                *)
LEMMA ProfileRefreshKeepsIInv ==
  ASSUME IInv, NEW u \in Users, ProfileRefresh(u)
  PROVE  IInv'
  <1>1. /\ Refresh(u) /\ UNCHANGED <<backend, setting, cache, accounts, recs, events, late>>
        /\ owed' \subseteq Users
    BY DEF ProfileRefresh, IInv, TypeOK
  <1> QED BY <1>1, RefreshKeeps, ReadKeepsIInv

(* From the switch to the clearing the cache may hold anything.             *)
LEMMA KeySetKeepsIInv ==
  ASSUME IInv, NEW b \in Backends, KeySet(b)
  PROVE  IInv'
  <1> USE DEF IInv
  <1>1. /\ backend' = b /\ setting' = "clear"
        /\ UNCHANGED <<cache, accounts, owed, inflight, recs, job, events, late>>
    BY DEF KeySet
  <1>2. TypeOK' /\ CacheOfBackend'
    BY <1>1 DEF TypeOK, CacheOfBackend, accounts
  <1>3. Numbered' /\ ProfileInv' /\ OwnRecommendations' /\ JobInv'
    BY <1>1, AccountsFrame DEF JobInv, accounts
  <1> QED BY <1>2, <1>3

(* The empty cache is nobody's.                                             *)
LEMMA ClearSimilarKeepsIInv ==
  ASSUME IInv, ClearSimilar
  PROVE  IInv'
  <1> USE DEF IInv
  <1>1. /\ cache' = [a \in Seeds |-> NoEntry] /\ late' = {} /\ setting' = "refresh"
        /\ UNCHANGED <<backend, accounts, owed, inflight, recs, job, events>>
    BY DEF ClearSimilar
  <1>2. TypeOK' /\ CacheOfBackend'
    BY <1>1 DEF TypeOK, CacheOfBackend, accounts, Entry, NoEntry
  <1>3. Numbered' /\ ProfileInv' /\ OwnRecommendations' /\ JobInv'
    BY <1>1, AccountsFrame DEF JobInv, accounts
  <1> QED BY <1>2, <1>3

(* The switch ends with the refresh of the admin's own list.                *)
LEMMA KeyRefreshKeepsIInv ==
  ASSUME IInv, KeyRefresh
  PROVE  IInv'
  <1> USE DEF IInv
  <1>1. /\ setting = "refresh" /\ setting' = "idle" /\ Refresh(Admin)
        /\ UNCHANGED <<backend, cache, accounts, owed, recs, events, late>>
    BY DEF KeyRefresh
  <1>2. job' \in [Workers -> Job] /\ inflight' \subseteq Users /\ JobInv'
    BY <1>1, RefreshKeeps
  <1>3. TypeOK' /\ CacheOfBackend'
    BY <1>1, <1>2 DEF TypeOK, CacheOfBackend, accounts
  <1>4. Numbered' /\ ProfileInv' /\ OwnRecommendations'
    BY <1>1, AccountsFrame
  <1> QED BY <1>2, <1>3, <1>4

-----------------------------------------------------------------------------
(* Time and restarts.                                                       *)

(* An entry that ages stays its backend's.                                  *)
LEMMA AgeKeepsIInv ==
  ASSUME IInv, NEW a \in Seeds, Age(a)
  PROVE  IInv'
  <1> USE DEF IInv
  <1> DEFINE e == [cache[a] EXCEPT !.fresh = FALSE]
  <1>1. /\ cache[a].fresh /\ cache' = [cache EXCEPT ![a] = e]
        /\ UNCHANGED <<backend, setting, accounts, owed, inflight, recs, job, events, late>>
    BY DEF Age
  <1>2. e \in Entry /\ e.from = cache[a].from
    <2>1. cache[a] \in [from : Backends, fresh : BOOLEAN]
      BY <1>1 DEF TypeOK, Entry, NoEntry
    <2> QED BY <2>1 DEF Entry
  <1> HIDE DEF e
  <1>3. /\ cache' \in [Seeds -> Entry]
        /\ \A c \in Seeds : cache'[c].from = cache[c].from
    BY <1>1, <1>2 DEF TypeOK
  <1>4. TypeOK' /\ CacheOfBackend'
    BY <1>1, <1>3 DEF TypeOK, CacheOfBackend, accounts
  <1>5. Numbered' /\ ProfileInv' /\ OwnRecommendations' /\ JobInv'
    BY <1>1, AccountsFrame DEF JobInv, accounts
  <1> QED BY <1>4, <1>5

(* What a crash leaves between the switch and the clearing is late.         *)
LEMMA RestartKeepsIInv ==
  ASSUME IInv, Restart
  PROVE  IInv'
  <1> USE DEF IInv
  <1>1. /\ events < MaxEvents /\ events' = events + 1 /\ job' = [w \in Workers |-> Idle]
        /\ inflight' = {} /\ owed' = {} /\ setting' = "idle"
        /\ late' = late \cup {a \in Seeds : cache[a].from \notin {"none", backend}}
        /\ UNCHANGED <<backend, cache, accounts, recs>>
    BY DEF Restart
  <1>2. job' \in [Workers -> Job] /\ JobInv'
    BY <1>1, NewJobs DEF JobInv
  <1>3. TypeOK'
    BY <1>1, <1>2 DEF TypeOK, accounts
  <1>4. CacheOfBackend'
    BY <1>1 DEF CacheOfBackend
  <1>5. Numbered'
    <2>1. \A u \in Users : account[u].number \in Nat /\ events \in Nat
      BY DEF TypeOK, Account
    <2> QED BY <1>1, <2>1 DEF Numbered, accounts
  <1>6. ProfileInv' /\ OwnRecommendations'
    BY <1>1 DEF ProfileInv, OwnRecommendations, accounts
  <1> QED BY <1>2, <1>3, <1>4, <1>5, <1>6

(* Nothing happens.                                                         *)
LEMMA StutterKeepsIInv == IInv /\ UNCHANGED vars => IInv'
  <1> SUFFICES ASSUME IInv, UNCHANGED vars PROVE IInv'
    OBVIOUS
  <1>1. JobInv' /\ job' \in [Workers -> Job] /\ inflight' \subseteq Users /\ owed' \subseteq Users
    BY DEF vars, accounts, IInv, JobInv, TypeOK
  <1>2. UNCHANGED <<backend, setting, cache, accounts, recs, events, late>>
    BY DEF vars
  <1> QED BY <1>1, <1>2, ReadKeepsIInv

(* Every step keeps the inductive invariant.                                *)
LEMMA NextKeepsIInv == IInv /\ [Next]_vars => IInv'
  <1> SUFFICES ASSUME IInv, [Next]_vars PROVE IInv'
    OBVIOUS
  <1>1. ASSUME NEW u \in Users, Visit(u) \/ ProfileRefresh(u) \/ CreateUser(u) \/ DeleteUser(u)
        PROVE  IInv'
    BY <1>1, VisitKeepsIInv, ProfileRefreshKeepsIInv, CreateUserKeepsIInv, DeleteUserKeepsIInv
  <1>2. ASSUME NEW u \in Users, NEW p \in Profiles \cup {NoProfile}, ProfileSet(u, p) PROVE IInv'
    BY <1>2, ProfileSetKeepsIInv
  <1>3. ASSUME NEW w \in Workers, SyncStart(w) \/ JobStep(w) PROVE IInv'
    BY <1>3, SyncStartKeepsIInv, ReadSeedsKeepsIInv, ReadProfileKeepsIInv, SaveKeepsIInv,
       ReleaseKeepsIInv, LookUpKeepsIInv, FetchedKeepsIInv DEF JobStep
  <1>4. ASSUME NEW b \in Backends, KeySet(b) PROVE IInv'
    BY <1>4, KeySetKeepsIInv
  <1>5. ASSUME NEW a \in Seeds, Age(a) PROVE IInv'
    BY <1>5, AgeKeepsIInv
  <1>6. CASE ClearSimilar \/ KeyRefresh \/ Restart
    BY <1>6, ClearSimilarKeepsIInv, KeyRefreshKeepsIInv, RestartKeepsIInv
  <1>7. CASE UNCHANGED vars
    BY <1>7, StutterKeepsIInv
  <1> QED BY <1>1, <1>2, <1>3, <1>4, <1>5, <1>6, <1>7 DEF Next

-----------------------------------------------------------------------------
(* The theorems.                                                            *)

(* The invariant holds in every reachable state, however computations,      *)
(* syncs, deletions, switches and restarts overlap.                         *)
THEOREM RecommendationsInvariance == Spec => []IInv
  BY InitIInv, NextKeepsIInv, PTL DEF Spec

(* Tables and local variables keep their types; in particular account       *)
(* numbers stay within the bound on deletions.                              *)
THEOREM RecommendationsTypes == Spec => []TypeOK
  <1>1. IInv => TypeOK
    BY DEF IInv
  <1> QED BY <1>1, RecommendationsInvariance, PTL

(* A list made from a Last.fm profile belongs to the account that has the   *)
(* profile (engine.go ComputeRecommendations, store.go DeleteUser), for any *)
(* number of goroutines and reused ids; ids deleted under a goroutine that  *)
(* had read the profile are the exception.                                  *)
THEOREM ListsStayOwn == Spec => []OwnRecommendations
  <1>1. IInv => OwnRecommendations
    BY DEF IInv
  <1> QED BY <1>1, RecommendationsInvariance, PTL

(* The cache of similar artists is that of the backend in use (engine.go    *)
(* similarFor, admin.go handleLastfmSet), except during the switch and for  *)
(* the entries of fetches or crashes at the switch.                         *)
THEOREM CacheFollowsBackend == Spec => []CacheOfBackend
  <1>1. IInv => CacheOfBackend
    BY DEF IInv
  <1> QED BY <1>1, RecommendationsInvariance, PTL
=============================================================================
