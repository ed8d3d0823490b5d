# MusicSeer: specifications and proofs

TLA+ models of the MusicSeer server (the Go program under `internal/` and `cmd/`), the TLC runs that check
them, and TLAPS proofs. MusicSeer is one process with one SQLite file: users ask for artists and
albums, approved requests are handed to Lidarr, and background jobs compute recommendations from the library and
from Last.fm or ListenBrainz. What makes it hard is not the volume but the overlap: HTTP handlers, request
goroutines and timers interleave between single SQL statements, each of them works on copies of rows, and the
process may stop between any two statements.

## 1. The system

SQLite is opened with one connection (`store.go:38`), so a statement is atomic and statements of different
goroutines interleave in any order. There is no lock above that; almost no handler uses a transaction.

| Component | State | Operations | Hard behaviour | What makes it correct |
|---|---|---|---|---|
| Requests and fulfilment (`server/requests.go`, `clients/lidarr.go`) | table `requests` with a partial unique index on open rows; goroutines with their copies of rows; Lidarr's library | create, batch create, approve, retry, reject, delete; `pushToLidarr`, `pushAlbumBatch` | ten-minute goroutines that write by id at the end; handlers that look at no status; ids reused after a delete; restarts; every Lidarr call can fail after it took effect | an approved row has somebody working on it; "sent" is earned; nothing unapproved is sent; one open request per key; every approval settles |
| Accounts, sessions, setup (`server/auth.go`, `admin.go`) | tables `users`, `sessions` | setup, login, logout, create, update and delete user | check, bcrypt, write; ids reused | one first admin; a session is its owner's; an admin remains |
| Plex sign-in (`server/plexauth.go`, `clients/plextv.go`) | `users.plex_id`, settings | start, poll, configure | account insert and link are separate statements | one local account per Plex account, but for renames between two first sign-ins; no adoption by name |
| Login throttle (`server/server.go`) | map of attempts per address | check, record, sweep | check before and record after a slow comparison | a bound on failures per window; a bound on the map |
| Schema and migration (`store/store.go`, `schema.sql`) | schema, `user_version` | steps of `migrate()` at every start | autocommit steps, crash between any two | every crash is repaired by the next start |
| Postgres import (`migrate/postgres.go`) | all tables | users, instances, requests | cut off, killed, run again, next to a running server | local rows win; history goes to its owner; nothing is left behind |
| Recommendations, similar cache (`engine/engine.go`) | `recommendations`, `similar_artists`, `running` set | compute, refresh, clear | overlapping computations, cache cleared under a running fetch | the last profile and backend win |
| Image pipeline (`engine/engine.go`, `clients/images.go`) | bounded queue, worker memory, `artists.image_*` | enqueue, resolve, backfill | queue full, several writers of one row, namesakes | no artist is forgotten for good; a picture shows somebody of that name, unless found by name alone |
| Library sync, instances (`engine/engine.go`, `server/admin.go`) | `instances`, `library_artists` | sync, create, update, delete | instance edited, deleted or its id reused while it is fetched; one server of several fails | a library belongs to its instance; it catches up |
| Trending sync, scheduler (`engine/engine.go`) | `trending`, job table | periodic jobs | jobs overlap with manual runs | a chart is replaced as a whole |
| Upstream HTTP (`clients/http.go` and clients) | next free slot of the limiter | wait, getJSON | cancelled waiters, retries | the rate is kept; retries end |
| Self-update (`server/update.go`) | the binary on disk | apply, checksum, swap | two updates at once | the installed binary was verified |
| Detail, preview, listening caches | cache tables with a time to live, a map of samples | cache-first reads | eight-second deadline between any two calls, truncated discographies, namesakes | stale beats an error; what is cached for an act is its own |
| Discovery, search, artist, genre pages | none | reads | | |
| Secrets (`secrets/secrets.go`) | key file | open, seal | first start | a key that was used is never replaced |
| Configuration, start-up; web front end; deployment | none on the server | | | |

Interactions: handlers and goroutines share only the database and a few maps of the process. Approvals start
pushes (`go s.pushToLidarr`), a login and a profile change start a recomputation, a sync starts one for every
user, the artist pages enqueue images. Deleting a user cascades to sessions, requests and recommendations,
deleting an instance to its library.

## 2. Modules

| Module | Models | Proofs |
|---|---|---|
| `RequestLedger` | abstract: what fulfilment promises, without goroutines and calls | in `RequestFulfilmentProofs` |
| `RequestFulfilment` | requests, their handlers, pushes, Lidarr; implements `RequestLedger` | `RequestFulfilmentProofs` |
| `Accounts` | users, sessions, setup, Plex sign-in, admin handlers | `AccountsProofs` |
| `Recommendations` | computations, refreshes, the similar cache, the Last.fm key | `RecommendationsProofs` |
| `StoreMigration` | opening and upgrading the database, with crashes | `StoreProofs` |
| `LibrarySync` | instances, their handlers, syncs, the library snapshot | `StoreProofs` |
| `ArtistImages` | the image queue and worker, every writer of `artists` | `UpstreamProofs` |
| `PostgresImport` | the import command next to the server | `PostgresImportProofs` |
| `ArtistPages` | artist and genre pages, samples, track lists and their caches | `ArtistPagesProofs` |
| `SelfUpdate` | update requests, GitHub's releases, the executable, the process | `SelfUpdateProofs` |
| `RateLimiter` | the limiter and the retries of `getJSON` | `UpstreamProofs` |
| `MC…` | small instances for TLC | |

The modules share tables only through what each of them calls "others": `RequestFulfilment` starts from an empty
table of requests, `PostgresImport` has every write of the server as an action of its own, `ArtistImages` reads the
discography that `ArtistPages` keeps as a set of acts. No module composes two of them. `StoreProofs` and
`UpstreamProofs` extend two components each; the definitions of `LibrarySync` and `RateLimiter` that would otherwise
meet a namesake there are called `LibrarySpec`, `LibraryTypeOK`, `LimiterSpec` and so on.

An operator named `Slip_X` is X with a plausible mistake. Nothing uses it in the specification; replacing X by it
must make TLC report the property it is filed under.

### Plan

In this order, most important behaviour first:

1. `RequestFulfilment` and `RequestLedger` (done); the invariants and the refinement (proved).
2. `Accounts`, `StoreMigration`, `Recommendations`, `LibrarySync`, `PostgresImport` (done); every safety and action
   property of their runs (proved).
3. `SelfUpdate`, `RateLimiter` (done, safety proved).
4. `ArtistImages`, `ArtistPages` (done, safety proved).

What could come next: a module that composes `RequestFulfilment` with `Accounts` and `LibrarySync`, so that the rows
an import or a deletion of an account leaves meet the pushes; and the login throttle, once somebody says what it is
to promise.

Bounds of the runs stay at two actors of each kind, two or three data values and as many ids as make a reuse possible.

### Proofs

Each component has one inductive invariant (`IInv`; `LibraryIInv`, `LimiterInv` and `ImagesInv` where two share a
module of proofs), one lemma per action that the action keeps it, and the theorems, which read the properties off the
invariant. Every one of them also holds of the instances of the runs, where TLC finds no state that violates it (in a
module that EXTENDS `MCX` and the module with its proofs). The assumptions are those on the constants, named in the
module that declares them (`ConstantsAssumption` and its like), and nothing else. No proof depends on a bound: any
number of users, goroutines, ids, crashes or writes may take part.

Two things turned up on the way. `RequestLedger` let a job drop all of its claims in silence under `Work`, which is
what the ledger is meant to forbid; now one claim has to stay. And `CompleteWhenDone` of the import was false beyond
the instance TLC had (section 9).

Liveness under fairness is beyond the prover and is only model-checked: `ApprovalSettled`, `ProfileCatchesUp`,
`OpensInTheEnd`, `LibraryCatchesUp`, `LookedUpInTheEnd`, `UpdateTakesEffect`, `CallsEnd`. `CopiedOnce` is false.
Every safety invariant and action property of the passing runs is proved.

The prover knows little of least elements and nothing of `SelectSeq`, which is recursive. So hits that pass a filter
are sets of positions in the models of images and pages, and `LeastPosition` (a nonempty set of positions has a
least one) is proved from the library's theorems on well-founded orders.

## 3. RequestFulfilment

`row[i]` is the row with rowid i: status, user and target, where a target is what the index
`idx_requests_unique_open2` compares (artist name, album id as typed). `Artist[t]` and `Album[t]` say what Lidarr
makes of it, where letter case does not count, so two targets may name one album. `push[p]` is a goroutine with
its local variables; `pc` is its next SQL statement or Lidarr call. `mode`, `listed`, `monitored`, `searched`
are Lidarr's side and external: any call may fail, with or without effect.

| Action | Code |
|---|---|
| `Create`, `BatchStart`, `BatchInsert` | `handleRequestCreate`, `handleRequestBatch` (one step per INSERT) |
| `Approve`, `Retry`, `Reject`, `Delete` | the handlers of these names; the lookup of the owner or of the row is part of the step that writes |
| `Load` | `RequestByID` at the start of a push |
| `Connect` | instance, key, profile settings, MBID lookup |
| `Find`, `Add`, `Refind`, `AddAll` | `FindArtistID`, `AddArtist` and the duplicate path |
| `Poll`, `Monitor`, `Search` | the album poll loop, `MonitorAlbums`, `SearchAlbums` |
| `Record` | one closing `UpdateRequestStatus`, its error ignored |
| `Expire`, `Restart`, `ListAlbum` | the ten-minute context, the process, Lidarr's own refresh |

Approve and Retry run the same statements and have one definition. A user's deletion removes his requests by
cascade; for the requests that is a sequence of `Delete` steps.

`lost` and `tainted` are history variables, and the properties name them as their exceptions:

- `lost`: rows whose push a restart dropped, or a batch with two spellings of one album, of which only one is
  written back. Such a row stays "approved" with nobody working on it, although a comment says "the request row
  records the outcome either way" (`requests.go:298`). An admin may approve it again.
- `tainted`: rows whose status was written by the push of a deleted row that had the same id. SQLite hands the
  largest id out again, and `UpdateRequestStatus` writes by id.

### The ledger

`RequestLedger` has entries, and jobs with claims to them. A claim stands for an outcome that a push owes
(`Owes(p, i)`); it is stale when the row was deleted since (`gone`). `entry` is `row` itself, `done` the targets
Lidarr has taken. The promise is in what its steps do not allow: a status that changes otherwise than by a decision or
by one answer per claim, an answer "sent" for something Lidarr did not take, an answer about a row that is again
pending, work for Lidarr that nobody claims, and a claim given up in silence while its row is there and approved,
except by a restart or for the second spelling of an album. Most steps of a push are `Work` or stutter; `Record` is
`Answer`, or `Miss` when the row is gone or the UPDATE is refused. The implementation is checked as the PROPERTY
`ImplementsLedger`; fairness is not part of the ledger, `ApprovalSettled` states it of the detailed module.

### Runs

| Run | Instance | Shows |
|---|---|---|
| `request_fulfilment` | an auto-approved user and an ordinary one, three targets (artist, one album in two spellings), 2 pushes, 2 ids, 2 inserts, one poll | `ApprovedHasPush`, `SentWasFulfilled`, `OnlyApprovedPushed`, `OneOpenRequest` hold under races, deletions, restarts and failures; every step is one of the ledger (`ImplementsLedger`) |
| `request_settling` | one user, two targets, 2 pushes, 2 polls | `ApprovalSettled`: every approval leaves "approved", unless it is lost |

Bounds. Two pushes are enough for every race of two writers of a row; two ids and a delete make a reuse; three
targets give an artist-level request, batches of two, and the collision of two spellings of one album. A batch whose
albums fare differently needs a second album, and four targets are too many for TLC: the invariants and the ledger
are proved of that case too. `MaxPolls` is 60 in the code; the loop's body does not depend on the number
beyond "is there another round". `Pushes` bounds the goroutines ever started; the proofs have no bound on any of
these.

The comment "fulfil whatever was found so far" (`requests.go:264`) says more than the code does: a context that ends
in the poll loop also ends the call that should fulfil them, and the found albums are recorded as failed.

Fairness. `WF(PushStep(p))` and `WF(BatchInsert(p))`: the Go scheduler runs runnable goroutines, and every
Lidarr call ends because both the HTTP client and the context time out. Nothing is assumed of users, of Lidarr
listing an album, or of the process surviving.

### Proofs (`RequestFulfilmentProofs`)

From `ConstantsAssumption` alone: `TypeCorrect`, `ApprovalKept`, `SentEarned`, `PushesApproved`,
`OpenRequestUnique`, i.e. `Spec => []P` for the five properties of `request_fulfilment`, for any users, targets,
goroutines and ids. They follow from one inductive invariant `IInv` (`Invariance`), whose parts are

- `RowsOK`, `OneOpenRequest`: an approved row is owed to some push or lost; open keys are unique. Uniqueness is
  needed for the first part: `Record` ignores the error of its UPDATE, and only because an approved row already
  holds its key alone can that UPDATE not be refused.
- `OneRow`: a single push holds one row, which is what makes its artist and album well defined.
- `Earned`: a push that is about to write "sent" for a row it read has Lidarr's agreement already; Lidarr never
  forgets (`LidarrGrows`).
- `PushInv`: what a push owes is either in its `gone` set or still the row it was approved as. An INSERT takes
  an id that is absent; whoever still owes that id owed it to a deleted row and has it in `gone`.

The steps of a push that only talk to Lidarr are all instances of one formula, `Talk`, proved once to keep the
invariant; then one lemma per step that touches the table.

`LedgerImplemented` is the refinement: `Spec => ImplementsLedger`. The initial state is the empty ledger, and every
step is a step of the ledger or leaves it alone (`StepOfLedger`). `IInv` says who owes what, but not that a push
knows the rows it talks about, so the refinement needs a second invariant, `HInv`: a push talks to Lidarr only with
a row in its hands (else its calls would be work that nobody claims), only rows that were read get an outcome, and a
batch handler has still to read whatever was deleted under it. That the keeping of one spelling of each album leaves
a batch some row follows from the ids having a largest element among any of them (`HasLast`). A handler's lemma then
names the ledger's action, e.g. `DeleteWithdraws`, `RecordAnswers`. The last one is where the two invariants meet:
`Record` is an answer when the row is there and takes it, and otherwise its claim was stale or its row was no longer
approved.

Only model-checked: `ApprovalSettled` (liveness).

## 4. Accounts

`row[i]` is the users row (name, role, Plex link), `session[s]` the sessions row of a token, `task[t]` a handler
in flight. The history fields `key` and `first` say which account a row is, so that a reused id can be told from
the account that had it before; a task and a session carry the key of the account they mean.

| Action | Code |
|---|---|
| `SetupBegin`, `SetupInsert` | `handleSetup` up to the count; `CreateFirstAdmin` |
| `Login` | `handleLogin` up to the read of the account; bcrypt and Navidrome decide without touching state |
| `PlexBegin`, `PlexLookup`, `PlexCreate`, `PlexLink`, `PlexRead` | `handlePlexPoll`, `plexUserFromAccount`, statement by statement |
| `StartSession`, `EndSession` | `startSession` (the foreign key may refuse it); logout, expiry and prune |
| `CreateBegin`, `UpdateBegin`, `DeleteBegin` | `requireAdmin` and the checks of the three handlers |
| `CreateUser`, `UpdateUser`, `DeleteUser` | their writes; the DELETE cascades to sessions |
| `PlexConfigSet`, `Restart` | the admin's Plex switch; the process |

Run `accounts`: three names, one Plex account that arrives with any of them at each sign-in, two handlers in
flight, one token, three ids, three accounts ever (the first admin and two sign-ins of the Plex account). Two
handlers are what every race here needs; one token is enough because a handler keeps the admin it was authorised
as, and the token can end and begin again under it. `FirstAdminFirst`, `SessionEarned`,
`OneAccountPerPlex` and `AdminRemains` hold. Their exceptions `astray`, `strayed` and `crossed` mark the runs in
which a handler wrote to an id that had become another account, or an admin who had lost his role removed the last
other one. In the latter runs no account may remain, and `CreateFirstAdmin`, which asks whether any account exists
now, is open again, although setup is meant to be "closed for good" (`store/firstadmin_test.go:69`).

`PlexBegin` takes the username from plex.tv afresh each time (`plexauth.go:116`: it is freely editable), and nothing
makes `plex_id` unique. So a Plex id can end up with two linked accounts: its owner renames himself between two
first sign-ins that are both under way (his e-mail address, which is UNIQUE as well and not modelled, changes too or
is empty). `renamed` records the Plex ids this happened to, and `OneAccountPerPlex` excepts exactly them; what it
says is that this is the only way, i.e. that races under one name, restarts between insert and link, deletions and
any renaming outside that window leave one account.

Abstracted: passwords (a sign-in may succeed for any account that exists), e-mail addresses, `can_auto_approve`
(a constant of `RequestFulfilment`), the Last.fm name.

Proved (`AccountsProofs`): `AccountTypes`, `SetupOnce`, `SessionsEarned`, `PlexAccountUnique`, `SomeAdminRemains`,
i.e. the five properties of the run for any names, handlers, tokens and ids. They are not inductive, because an id
outlives its account; the parts of `IInv` relate the key that a handler or a session remembers to the key its row
has now.

- `RowInv`: names are unique, and no key is larger than the number of accounts ever created.
- `SessionInv`: the cascade leaves no session of an account that is gone, so the next account with that id inherits
  none.
- `TaskInv`: what each local variable holds at each statement, e.g. that a role is never taken from oneself, and
  that an account created by a sign-in is unlinked, and has that sign-in's name, until it links it. `LinkersApart`:
  no two sign-ins are about to link one account.
- `PlexInv`, inductive relative to `IInv`, is why `OneAccountPerPlex` holds at all: no constraint covers `plex_id`,
  the unique name does its work. All sign-ins that have found no account for an unexcepted Plex id go by one name
  (`OneNameInFlight`), and so does the account one of them links (`LinkedBearsName`), so that the inserts of the
  others fail; no handler renames an account.
- `Bootstrap`: before the first account Plex is off and no handler but setup's is under way, so that the first
  account is an admin's (`SomeAdminRemains`). `SetupOnce` needs no fact about other setups in flight, since
  `CreateFirstAdmin` counts in the same statement that inserts.

An update without a role changes nothing the module knows. Every step that writes by id after a check is separate
from the check, so a role may be gone by the time it is used.

## 5. Recommendations

`job[w]` is a goroutine: a refresh started by `RefreshUserAsync`, or the last part of `SyncLibraries`, which
computes every user in turn. `inflight` is the engine's map of running refreshes, `cache[a]` the row of `similar`
for a seed, abstracted to the backend its scores come from and whether it is under thirty days old, `recs[u]` the
stored list, abstracted to the profile it was asked for. `setting` is `handleLastfmSet` in flight, `owed` the
`handleUserUpdate` requests that have written the profile and not yet triggered the refresh.

| Action | Code |
|---|---|
| `Visit`, `SyncStart` | `serveRecs`, sign-in and manual refresh; scheduled and manual sync |
| `ReadSeeds`, `ReadProfile` | `UsingLastFM`, then `UserByID` with the listening history |
| `LookUp`, `PickBackend`, `Fetched`, `FetchFailed` | `similarFor`, one per seed, side by side |
| `Save`, `Release` | aggregation, scoring and `SaveRecommendations`; the deferred `inflight.Delete` |
| `ProfileSet`, `ProfileRefresh` | the two halves of `handleUserUpdate` that matter here |
| `KeySet`, `ClearSimilar`, `KeyRefresh` | the three of `handleLastfmSet` |
| `CreateUser`, `DeleteUser` | an account and the next one with its id; the cascade takes the list, not the computation |
| `Age`, `Restart` | thirty days; the process |

`account[u]` numbers the accounts that have had id u, and the field `of` of a list or a computation is the number of
the account whose profile it was asked for. `exposed` holds the ids deleted while a computation held their profile.

Run `recommendations`: one id, one seed, both backends, one profile and none, two workers, one restart or one
deletion (`MaxEvents`). Two workers are a refresh and a sync, or two syncs, overlapping; switches, changes and
ageing are unbounded. The order of a sync's users matters to no property. `OwnRecommendations` holds except for
`exposed`: `SaveRecommendations` writes by id, and the next account with that id is shown the list until its own is
computed. `CacheOfBackend` holds except for seeds in `late`: a fetch in flight, or a crash between key and clearing.
`ProfileCatchesUp` holds under `WF(JobStep(w))` (the scheduler, timeouts of every call) and `WF(SyncStart)` (the
sync timer is re-armed whatever the outcome, `engine.go:139`); restarts are bounded because a process that dies in
every sync promises nothing. It is the sync that saves it: the refresh that the comment in `handleUserUpdate`
announces ("Listening profile changed — rebuild") is dropped when one computed from the old profile is running. An
invariant that asks for a computation under way for the present profile is therefore false, and only the eventual
form is stated.

`FetchFailed` is a failure of Last.fm or ListenBrainz, which is not cached. A failure of MusicBrainz to name a seed
without an MBID is: `engine.go:638-643` stores an empty list, as it does for an artist MusicBrainz does not know, and
that is a `Fetched` with the ListenBrainz backend (lists are abstracted to the backend they come from).

Abstracted: scores, pictures, listener counts and genres; the limit of four fetches at a time.

Proved (`RecommendationsProofs`): `RecommendationsTypes`, `ListsStayOwn` (`OwnRecommendations`),
`CacheFollowsBackend` (`CacheOfBackend`). A list is wrong because of what was read long before it was written, so
`JobInv` says of a profile in the hands of a goroutine what `OwnRecommendations` says of a stored list; `ProfileInv`
(a profile goes with its account) and `Numbered` (an account's number is bounded by the deletions before it) are
what the reading and the reuse of an id need. Only model-checked: `ProfileCatchesUp` (liveness).

## 6. StoreMigration

`disk` holds columns, indexes and `user_version`; `picture` and `detail` the cached data the purges are about;
`pc` the next statement of `Open` and `migrate`; `seen` what migrate has read. The initial states are a fresh
directory and what every release leaves: columns and index by schema change, data by `user_version`. Each
statement of `migrate` is an action; the four purges are one action with the purge's number. `LookUpPicture` and
`FetchDetail` are the running program refilling what was purged.

Run `store_migration`: two artists, one discography, two crashes. Two crashes put the second one into the repair of
the first. The history variable `missed` names the statements for album requests that a crash kept from being made;
no later start makes them up. With `"dropOpen"` in it the old index stays, and with that the rule of one open request
per artist: the exception of `ServesUpgraded`. With `"addMbid"` in it `migrate` fails at every later start, because it
looks for the second album column only and then adds the first one again: "the DB schema migrates itself in place
either way" (`README.md:100`) does not hold for that disk. `OpensInTheEnd` (weak fairness of the start: the unit has
`Restart=on-failure`) lets an upgrade end there, failed and after that very crash, and nowhere else: every other start
leads to a process that serves. `PurgesOnlyStale` is an action property: nothing right is ever thrown away again.

Proved (`StoreProofs`): `MigrationTypes`, `UpgradeComplete` (`ServesUpgraded`), `PurgesTheStale` (the action
property `PurgesOnlyStale`) and `FailsOnlyHalfAlbum` (a failed start has `"addMbid"` in `missed`), from any
release's database, for any artists and any number of crashes. A crash forgets `seen` and keeps `disk`, so `IInv`
has two kinds of parts. `DiskInv` and `DataInv` hold wherever a process dies: the second album column never comes
without the first, the old index outlives it only on the paths that `missed` marks, and the data are at least as
clean as the version says, which makes it safe to begin with the version found. `SchemaInv` and `PurgeInv` say what
the statements before `pc` have done; in particular a purge precedes the writing of its version, so a crash between
the two repeats a purge and skips none. `AlterInv`, inductive relative to these, says for each ALTER why its column
is not there yet: the two of users are guarded by what was read of themselves. Only model-checked: `OpensInTheEnd`
(liveness).

## 7. LibrarySync

`row[i]` is the instances row, `lib[i]` the library rows of that id, `edit[e]` a PUT between its read and its
write, `sync[s]` the local variables of a `SyncLibraries` (copies of the instances still to do, the answer of the
first). `stock[u]` numbers the lists of server u. `born` and the fields `of` tell an instance from the next one
with its id; `exposed` holds the ids deleted while an edit or a sync held a copy of the row.

| Action | Code |
|---|---|
| `Create`, `EditBegin`, `EditWrite`, `Delete` | the instance handlers; an update is a read, a change in memory and a write of the whole row |
| `SyncBegin`, `Answered`, `Failed`, `Replace`, `SyncEnd` | `SyncLibraries`; `ReplaceLibrary` is one transaction |
| `Restock` | the server's own list |

Run `library_sync`: two servers, one of which may fail, two ids, one edit, the timer's sync and a manual one.
The foreign key refuses the rows of a deleted instance (`Refused`); that error ends the sync, and
`LibraryCatchesUp` says that the instances behind it are still synced in the end. Fairness: `WF(SyncBegin)` of the
scheduled sync (`schedule` sets its timer again after every run), `WF(SyncStep)` (fetches end by their timeout).
`OwnLibrary` needs the exception `exposed`: a reused id gets the list, or the whole row, meant for its former owner,
the list until the next sync. The two types of instance differ only in the UNIQUE constraint; one is modelled.

Proved (`StoreProofs`): `LibraryTypes` and `LibraryOfInstance` (`OwnLibrary`), for any servers, edits, syncs
and ids. Each copy of a row, in an edit or in a sync, still fits the row with its id unless that id is exposed
(`Fitting`, in `EditInv` and `SyncInv`), so a write by id meets the instance it means; `LibraryInv` is the foreign
key, without which a reused id could find a list already there. Only model-checked: `LibraryCatchesUp` (liveness).

## 8. ArtistImages

`row[n]` is the artists row of a name, `order` the rowid order the backfill reads in, `queue` the channel, `job`
what the worker is looking up, `seen` its memory of a day. A picture is named by the act it shows; acts share names.
`Visit`, `Entry`, `Enrich`, `ChartPicture` are the other writers of row and queue (pages, charts, enrichment),
`FetchDetail` makes a discography known to the worker, `Take`, `Resolve`, `Backfill`, `Forget` are `imageWorker`.

Run `artist_images`: three acts under two names, one of them without a photo and outranked by a more popular act, a
channel of one, one restart, two offers. `PhotoOfNamesake` and `VerifiedAmongNamesakes` hold for every order of
writers, the first with the exception of guesses (below). `LookedUpInTheEnd` holds under strong fairness of `Take`
and `Backfill`: `select` picks at random among ready cases, so neither waits for ever, and the ticker goes on. A
capacity of one makes the channel overflow at the second offer, `MaxSeen` of one makes the memory overflow at the
second name.

For a job without an MBID TheAudioDB is searched by name, and the first result is stored, whoever it is:
`images.go:534-551` compares no names. `AudioDB` returns any act it has a photo of then, and the history field `guess`
of a row marks such a picture; `PhotoOfNamesake` says that every other one is a photo of an act of that name, and
that even a guess is a photo. It does not say that the picture stays: `SetArtistImage` looks at nothing that is
there, and the picture of one act may replace that of another of the same name.

MBIDs that charts and searches give for a name are taken to be of an act so called: no code compares the names. The
stored MBID and the stored picture of a row are written by different statements and may be of two namesakes,
although `discovery.go:344` takes the one as proof of the other. An artist is marked as checked also after a
transient error (`engine.go:759`) and not looked up again. Panics are not modelled: the worker's `recover` stands
around its loop, so one would end it until the next start.

Proved (`UpstreamProofs`): `ImagesTypes`, `PicturesOfNamesakes` (`PhotoOfNamesake`) and `PicturesVerified` (the
action property `VerifiedAmongNamesakes`), for any acts, names, hits, writers and any capacity. `PhotoOfNamesake` is
not inductive: TheAudioDB answers for the MBID of a job and the answer is stored for its name. Without an MBID it is
a guess; with one it is a photo of that act, so `ImagesInv` adds that name and MBID belong together, wherever they
are: in a row (`TableInv`), from which the backfill makes jobs, in every place of the channel, in the worker's hands
(`WorkInv`). It rests on the assumption above, that charts and searches give an MBID of the name. Only
model-checked: `LookedUpInTheEnd` (liveness).

## 9. PostgresImport

`user`, `server` and `request` are the SQLite tables, `old` the statuses in the old database (its users, instances
and the rest of its requests are constants), `run` the local variables of `FromPostgres`. `Begin`, `FindUser`,
`AddUser`, `NextQuery`, `AddServer`, `AddRequest`, `WriteNotes` are its statements, `Cut` the end of its two minutes,
`Crash` the end of the process. `CreateUser`, `DeleteUser`, `Ask`, `Decide`, `DeleteRequest`, `DeleteServer` are the
server on the same file, `OldChange` the old program.

Run `postgres_import`: two old users, of whom one's e-mail address is the other's name, one local account with that
address, two requests, one with a note, three writes by others anywhere. `NothingOverwritten` is an action property
of the import's steps with the one exception `raced`: the note is added by a statement that writes the status again,
and a decision between INSERT and UPDATE is undone. `HistoryOfNamesake` has the exception `stale`: an account
deleted while the run holds its id. `CompleteWhenDone` is about a run that nobody disturbed, after any number of
runs that were; it excepts old users who are `Shadowed`: the import refuses bob, because a local account has his
e-mail address, and then brings amy, whose address is "bob". `UserByLogin` finds her account for him from now on,
but the map of this run has no entry for him, and only the next run brings his requests, to her. The instance of the
run is too small for it; the attempt to prove the property without the exception found it. Run `import_again` shows
that the command is not idempotent, against `README.md:69` and `docs/MIGRATION.md:82`: the unique index covers open
requests only, so rejected and failed ones are inserted again by every run. Changes of an account's e-mail address
during a run are not modelled. Requests approved in the old program arrive as "approved", and nothing pushes them.

Proved (`PostgresImportProofs`): `ImportTypes`, `ImportOnlyAdds` (the action property `NothingOverwritten`),
`HistoryGoesHome` (`HistoryOfNamesake`) and `ImportComplete` (`CompleteWhenDone`), for any old database, any number
of runs, however they end, and any writes by others. What a run knows is its map of users and its place in the
result set, and `IInv` ties both to the tables: `IdsInv` (the map leads to the old user's namesake, while nobody
deletes the account), `OwnerInv` (the foreign key, which keeps a reused id from inheriting requests), `NotesInv`
(between INSERT and UPDATE the row is as it was inserted, unless it is in `raced`), and for a quiet run `UsersInv`,
`ServersInv` and `RequestsInv`: whatever comes before the place in the result set is dealt with. The requests are
the part where this is not obvious: one that was skipped has an open one in its place, and that one must stay, which
is true as long as nobody else writes.

## 10. ArtistPages

`detail[k]` is the cached page of an act or a genre, abstracted to how many release groups were read and to its age;
`top` and `sample` are the two kinds of entry of `previewCache`, `tracklist` the rows of `album_tracks`, `visit[v]`
a handler's local variables.

| Action | Code |
|---|---|
| `OpenPage`, `OpenKnown`, `OpenTop`, `OpenAlbum` | the handlers for artist, genre, preview and album tracks |
| `Resolve`, `ReadDetail`, `FetchPage`, `Fallback`, `SaveDetail` | `GetArtistDetail` with `SearchArtistMBID` and `ReleaseGroups`; `GetGenreArtists` is the same with one fetch |
| `Search`, `SampleAlbum`, `ListTracks` | `Previews` with `TopPreviewsFor` or `TopPreviews`, `AlbumPreviews`, `AlbumTrackList` |
| `Age`, `Expire`, `HalfDay`, `Month` | the times to live |

Run `artist_pages`: two acts of one name and a genre; the first act has three release groups, one without a type, at
one a page and two pages at most; Deezer files tracks of both under two profiles. One visitor asks for samples,
another opens pages, and every call may fail, which is what the eight-second deadline amounts to. `StaleBeatsError`
and `OwnTracks` hold. `OwnTracks` excepts searches without titles to compare with, and these are more than the
code's comment says ("no discography supplied at all", `images.go:215`): a discography that could not be fetched,
and one whose titles `normAlbum` empties, are searched unfiltered, and the result is kept for half a day. A
discography cut short by an error replaces a complete one and counts as fresh; no document says otherwise, so no
property forbids it. The key of an album's samples has the MBID as well, which changes nothing in what is found.

Proved (`ArtistPagesProofs`): `PagesTypes`, `StaleUsed` (`StaleBeatsError`) and `TracksOwn` (`OwnTracks`), for any
acts, discographies, profiles and hits, any number of visits and any bounds. A visit holds what it read some calls
ago, and caches are written, age and expire under it. `IInv` says what it may still rely on (`VisitOK`): a page it
saw in the cache is there until a year has passed, no matter who saves another one over it; after a page of
`ReleaseGroups` the count covers a first page at least (`Enough`), also when a later page fails, which is why an
answer cut short still has titles to compare with (`KnownTitles`); and titles it compares with are of the act in
whose entry the result goes. `DetailInv` says the same of the cached pages. That whatever `TopPreviewsFor` returns is
on known releases, when some are known, is a lemma about the operator (`TopPreviewsKnown`): it holds for every set of
profiles that do not answer. Nothing of this component is left to TLC alone.

## 11. SelfUpdate

`request[q]` is an update request with its local variables, `disk` the executable, `running` the build the process was
started from, `due` the goroutine that restarts it, `latest`, `binary`, `checksum` what GitHub offers at the moment.
GitHub is external: releases are published, withdrawn and uploaded again at any time, the checksum file after the
binary it is about.

| Action | Code |
|---|---|
| `Begin`, `Ask`, `FetchChecksum`, `Download`, `Install` | `handleUpdateApply` from the writable directory to the rename; every call may fail (`Refuse`) |
| `parseSemver`, `versionLess` | the functions of these names; a version is its dotted parts and whether a suffix follows |
| `Exec`, `ExecFails`, `Crash`, `Start` | the goroutine 800 ms later; the process; the service manager |
| `Upload`, `Publish` | GitHub |

Run `self_update`: two requests, four releases: an older one whose last part is the larger number, a candidate and
the release after it, which the code cannot tell apart, a development build; two builds of a release, five uploads.
`IntactBinary` and the action property `NeverDowngraded` hold although two requests download and rename as they
like: each compares with the running process, and no request survives the process. `UpdateTakesEffect` needs
`WF(Exec \/ ExecFails)` (the goroutine wakes up) and `WF(Start)` (the unit has `Restart=on-failure`). A build is its
own checksum, which says that SHA-256 does not collide, and a binary reports the version it was released under.
Temporary files of killed updates and the probe file stay in the directory and are read by nobody.

Proved (`SelfUpdateProofs`), for any releases and texts of versions, requests and uploads: `UpdateTypes`,
`BinaryVerified` (`[]IntactBinary`) and `NoDowngrade` (`NeverDowngraded`). The invariant `IInv` adds what a request
knows (`RequestOK`): its release is newer than the process, the checksum it holds was published for that release,
and its file is garbled or of that release; that every checksum on GitHub was published and is of a build that
exists; and that no request survives the process. Comparison and installation may then be as far apart as they like.
`LessIsNotNewer` ties `versionLess` to the order the property is stated in. Only model-checked: `UpdateTakesEffect`
(liveness).

## 12. RateLimiter

`call[c]` is a `getJSON` with the attempt it is at, the time until its timer fires and the time until its context
ends; `ahead` is the next free slot. All times are relative to now, so that no clock grows; `ahead` is cut at
`-Gap`, below which it makes no difference. `quiet` is the history of the last request sent.

| Action | Code |
|---|---|
| `Reserve` | `limiter.wait` under its lock, which also returns at once when the slot is not ahead |
| `Pass`, `GiveUp` | the two cases of its `select`, and of the backoff's |
| `Begin`, `Answer`, `Fail`, `Resume` | the loop of `getJSON` |
| `Tick` | time; a timer fires at most `Late` ticks late |

Run `rate_limiter`: two calls, a gap of four ticks, a backoff of three and six, contexts of zero to six ticks and
without an end, timers one tick late. The numbers put the backoff below and above a gap and let a context end in
every wait. `MaxAhead` bounds only how many calls may begin while the next slot is far away. `RateKept` is about the
sending of requests, not about slots: two slots are a gap apart by construction, two requests are not when the timer
of the first is late, hence `Gap - Late`. `CallsEnd` assumes weak fairness of time and of every call; slots taken by
calls that have given up pass unused, and no queue grows behind them. Passing a slot and sending the request are one
moment in the model. Clients without a limiter are not modelled.

Proved (`UpstreamProofs`), for any number of calls and any times: `RateAlwaysKept` (`RateKept`). The slots of the
calls that wait are a gap apart and before the next free one (`SlotsApart`), no timer is overdue by more than `Late`
(`TimersOK`), and no slot, taken or free, comes less than `Gap - Late` after the last request sent (`SlotsLater`).
The assumption `Late < Gap` is needed: a timer later than a gap would let two requests go out together. Only
model-checked: `CallsEnd` (liveness).

## 13. Assumptions and what is not modelled

SQL statements fail only for constraint violations; each is atomic. Passing runs leave deadlock checking on;
`Restart` or its like is always possible, so it says little here. Times to live are actions that may happen at any
moment, which covers every clock.

Not modelled: the login throttle (a window of failures per address; comparisons that start together all pass its
check, and no document promises a bound on those), the replacement of a chart (one transaction) and the scheduler's
loops, the listening history cache, the merging of cached data on the discovery pages, the web client, deployment
files, parsing of upstream answers, AES-GCM and its key file, configuration. A secret that cannot be decrypted counts
as a failed call.
