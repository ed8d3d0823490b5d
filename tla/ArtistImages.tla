---------------------------- MODULE ArtistImages ----------------------------
(***************************************************************************)
(* Artist pictures: the bounded queue, the one worker, the backfill, and   *)
(* everybody who writes a row of artists (internal/engine/engine.go,       *)
(* ArtistImageFor in internal/clients/images.go, the artists table).       *)
(*                                                                         *)
(* Pictures and MBIDs are stored by NAME, and names are shared: an ACT is  *)
(* a real artist, identified by its MBID, and Name[a] is what it is called.*)
(* A picture is named by the act it shows.  Every statement commits on its *)
(* own; the worker holds a job for seconds while others write.             *)
(***************************************************************************)
EXTENDS Integers, FiniteSets, Sequences, SequencesExt

CONSTANTS
  Acts, Names,
  Name,          \* Name[a]: what act a is called, case and punctuation folded
  Hits,          \* external: Hits[n], the acts Deezer finds for n, by popularity
  Photographed,  \* external: acts of which Deezer has a photo
  Thumbs,        \* external: acts of which TheAudioDB has a photo
  Shared,        \* external: Shared[a], the acts with a release titled as one of a's
  NoAct,
  Capacity,      \* make(chan imageJob, 4096)
  BackfillLimit, \* ArtistsMissingImages(50)
  MaxSeen,       \* 20000
  MaxOffers,     \* bound: jobs offered by pages and charts
  MaxRestarts    \* bound

ConstantsAssumption ==
  /\ Name \in [Acts -> Names]
  /\ Hits \in [Names -> Seq(Acts)]
  /\ Photographed \subseteq Acts /\ Thumbs \subseteq Acts
  /\ Shared \in [Acts -> SUBSET Acts] /\ \A a \in Acts : a \in Shared[a]
  /\ NoAct \notin Acts
  /\ Capacity \in Nat \ {0} /\ BackfillLimit \in Nat \ {0} /\ MaxSeen \in Nat \ {0}
  /\ MaxOffers \in Nat /\ MaxRestarts \in Nat

ASSUME ImagesAssumption == ConstantsAssumption

VARIABLES
  row,      \* row[n]: the artists row of name n, or NoRow
  order,    \* names with a row, by rowid
  detail,   \* acts whose discography, of a release at least, is in artist_detail
  queue,    \* the channel imageQueue
  job,      \* the job the worker is looking up, or NoJob
  seen,     \* names the worker looked up in the last 24 hours
  offers, restarts

vars == <<row, order, detail, queue, job, seen, offers, restarts>>

(* Deezer's grey silhouette: a loadable URL of no photo.                    *)
Placeholder == "placeholder"
None        == "none"
Pictures    == Acts \cup {Placeholder, None}

(* guess is history: the picture is the first result of a search by name    *)
(* alone.                                                                   *)
NoRow == [mbid |-> NoAct, image |-> None, checked |-> FALSE, there |-> FALSE, guess |-> FALSE]
Row   == [mbid : Acts \cup {NoAct}, image : Pictures, checked : BOOLEAN, there : {TRUE},
          guess : BOOLEAN]

Job   == [name : Names, mbid : Acts \cup {NoAct}, known : BOOLEAN]
NoJob == [name |-> None, mbid |-> NoAct, known |-> FALSE]

(* An MBID that comes with a name is that of an act so called, or missing:  *)
(* the charts and the search of MusicBrainz (score >= 90) are trusted that  *)
(* far, since no code compares the names.                                   *)
MBIDs(n) == {a \in Acts : Name[a] = n} \cup {NoAct}
-----------------------------------------------------------------------------
(* The artists table.                                                       *)

Listed(n) == IF row[n].there THEN order ELSE Append(order, n)

Upsert(n, m) ==  \* a new MBID replaces the old one, the picture stays
  /\ row' = [row EXCEPT ![n] = [@ EXCEPT !.there = TRUE, !.mbid = IF m = NoAct THEN row[n].mbid ELSE m]]
  /\ order' = Listed(n)

SetArtistImage(n, picture, guess) ==  \* the MBID stays
  /\ row' = [row EXCEPT ![n] = [@ EXCEPT !.there = TRUE, !.image = picture, !.checked = TRUE,
                                         !.guess = guess]]
  /\ order' = Listed(n)

Slip_MarkImageChecked(n) == UNCHANGED <<row, order>>  \* the write fails unseen

MarkImageChecked(n) ==  \* an UPDATE: nothing when there is no row
  /\ row' = IF row[n].there THEN [row EXCEPT ![n].checked = TRUE] ELSE row
  /\ UNCHANGED order

Missing == {i \in DOMAIN order : row[order[i]].image = None /\ ~row[order[i]].checked}
-----------------------------------------------------------------------------
(* Deezer and TheAudioDB.                                                   *)

Slip_picture(a) == IF a \in Photographed THEN a ELSE Placeholder
picture(a) == IF a \in Photographed THEN a ELSE None

Exact(n) == {i \in DOMAIN Hits[n] : Name[Hits[n][i]] = n /\ picture(Hits[n][i]) # None}
FirstExact(n) == picture(Hits[n][Min(Exact(n))])

Slip_ArtistImageFor(n, m, known) ==  \* no look at the discography
  IF Exact(n) = {} THEN {None} ELSE {FirstExact(n)}

(* Several acts of that name: the first with a title of the discography,    *)
(* passing over those whose releases cannot be read.                        *)
ArtistImageFor(n, m, known) ==
  IF Exact(n) = {} THEN {None}
  ELSE IF Cardinality(Exact(n)) = 1 \/ ~known THEN {FirstExact(n)}
  ELSE {picture(a) : a \in {Hits[n][i] : i \in Exact(n)} \cap Shared[m]} \cup {None}

(* By MBID when there is one, else whichever act a search for the name puts *)
(* first: nothing compares its name with the one searched for.              *)
AudioDB(m) == IF m # NoAct THEN Thumbs \cap {m} ELSE Thumbs

(* What a lookup may come back with: Deezer's answer; TheAudioDB's, if      *)
(* Deezer had none or failed; nothing, if that failed as well.              *)
Found(j) == ArtistImageFor(j.name, j.mbid, j.known) \cup AudioDB(j.mbid) \cup {None}
Guess(j, found) == j.mbid = NoAct /\ found \notin ArtistImageFor(j.name, j.mbid, j.known)
-----------------------------------------------------------------------------
Slip_Offered(q, jobs) == q \o jobs  \* a channel without bound

(* One after the other, by select ... default.                              *)
Offered(q, jobs) ==
  LET room == Capacity - Len(q) IN
  IF Len(jobs) <= room THEN q \o jobs ELSE q \o SubSeq(jobs, 1, room)

NewJob(n, m) == [name |-> n, mbid |-> m, known |-> FALSE]

(* A genre page or a search result: no row is written.                      *)
Visit(n, m) ==
  /\ offers < MaxOffers /\ offers' = offers + 1
  /\ m \in MBIDs(n)
  /\ queue' = Offered(queue, <<NewJob(n, m)>>)
  /\ UNCHANGED <<row, order, detail, job, seen, restarts>>

(* A chart entry, or a recommended artist.                                  *)
Entry(n, m) ==
  /\ offers < MaxOffers /\ offers' = offers + 1
  /\ m \in MBIDs(n)
  /\ Upsert(n, m)
  /\ queue' = Offered(queue, <<NewJob(n, m)>>)
  /\ UNCHANGED <<detail, job, seen, restarts>>

(* enrichChart and enrichGenres: an MBID found for the name.                *)
Enrich(n, m) ==
  /\ m \in MBIDs(n) \ {NoAct}
  /\ Upsert(n, m)
  /\ UNCHANGED <<detail, queue, job, seen, offers, restarts>>

(* SyncTrending: Deezer's chart comes with pictures.                        *)
ChartPicture(a) ==
  /\ picture(a) # None
  /\ SetArtistImage(Name[a], picture(a), FALSE)
  /\ UNCHANGED <<detail, queue, job, seen, offers, restarts>>

FetchDetail(a) ==
  /\ a \notin detail /\ detail' = detail \cup {a}
  /\ UNCHANGED <<row, order, queue, job, seen, offers, restarts>>
-----------------------------------------------------------------------------
(* The worker.                                                              *)

Remembered(n) == IF Cardinality(seen \cup {n}) > MaxSeen THEN {} ELSE seen \cup {n}

(* One job from the channel: dropped if its name was looked up within a day *)
(* or has a picture by now, else together with the discography, if cached.  *)
Take ==
  /\ job = NoJob /\ queue # <<>>
  /\ queue' = Tail(queue)
  /\ LET j == Head(queue) IN
       IF j.name \in seen THEN UNCHANGED <<job, seen>>
       ELSE /\ seen' = Remembered(j.name)
            /\ job' = IF row[j.name].image # None THEN NoJob
                      ELSE [j EXCEPT !.known = j.mbid \in detail]
  /\ UNCHANGED <<row, order, detail, offers, restarts>>

Resolve ==
  /\ job # NoJob /\ job' = NoJob
  /\ \E found \in Found(job) :
       IF found # None THEN SetArtistImage(job.name, found, Guess(job, found))
                       ELSE MarkImageChecked(job.name)
  /\ UNCHANGED <<detail, queue, seen, offers, restarts>>

(* The ticker: the first rows without a picture, again through the channel. *)
Backfill ==
  /\ job = NoJob
  /\ \E first \in [1 .. Min({Cardinality(Missing), BackfillLimit}) -> Missing] :
       /\ \A i \in DOMAIN first : Cardinality({k \in Missing : k < first[i]}) = i - 1
       /\ LET name(i) == order[first[i]]
          IN queue' = Offered(queue, [i \in DOMAIN first |-> NewJob(name(i), row[name(i)].mbid)])
  /\ UNCHANGED <<row, order, detail, job, seen, offers, restarts>>

Forget(n) ==  \* 24 hours later
  /\ n \in seen /\ seen' = seen \ {n}
  /\ UNCHANGED <<row, order, detail, queue, job, offers, restarts>>

Restart ==
  /\ restarts < MaxRestarts /\ restarts' = restarts + 1
  /\ queue' = <<>> /\ job' = NoJob /\ seen' = {}
  /\ UNCHANGED <<row, order, detail, offers>>

Init ==
  /\ row = [n \in Names |-> NoRow] /\ order = <<>> /\ detail = {}
  /\ queue = <<>> /\ job = NoJob /\ seen = {}
  /\ offers = 0 /\ restarts = 0

Next ==
  \/ \E n \in Names, m \in Acts \cup {NoAct} : Visit(n, m) \/ Entry(n, m) \/ Enrich(n, m)
  \/ \E a \in Acts : ChartPicture(a) \/ FetchDetail(a)
  \/ Take \/ Resolve \/ Backfill
  \/ \E n \in Names : Forget(n)
  \/ Restart

(* select picks among the ready cases at random, and the ticker goes on.    *)
Spec == /\ Init /\ [][Next]_vars
        /\ SF_vars(Take) /\ WF_vars(Resolve) /\ SF_vars(Backfill)
        /\ \A n \in Names : WF_vars(Forget(n))
-----------------------------------------------------------------------------
TypeOK ==
  /\ row \in [Names -> Row \cup {NoRow}]
  /\ order \in Seq(Names) /\ ToSet(order) = {n \in Names : row[n].there}
  /\ detail \subseteq Acts
  /\ queue \in Seq(Job) /\ Len(queue) <= Capacity
  /\ job \in Job \cup {NoJob}
  /\ seen \subseteq Names
  /\ offers \in 0 .. MaxOffers /\ restarts \in 0 .. MaxRestarts

(* What is stored for a name is a photo of somebody of that name: neither   *)
(* Deezer's silhouette, which "would look like a resolved photo"            *)
(* (engine.go:176), nor a more popular act with a similar name              *)
(* (images.go:454), whichever of the writers came last and with whichever   *)
(* MBID the job had.  The exception is what TheAudioDB's search puts first  *)
(* for a job without MBID: a photo, but of anybody (images.go:534-551).     *)
PhotoOfNamesake ==
  \A n \in Names : row[n].image # None =>
    row[n].image \in Acts /\ (row[n].guess \/ Name[row[n].image] = n)

(* With the discography at hand and several acts of the name to choose      *)
(* from, a lookup stores a photo of an act with a release in common, or     *)
(* none: "Returns "" rather than guessing when nothing verifies"            *)
(* (images.go:463).                                                         *)
VerifiedAmongNamesakes ==
  [][ \A n \in Names :
        Resolve /\ job.name = n /\ row'[n].image # row[n].image
        /\ job.known /\ Cardinality(Exact(n)) > 1
          => row'[n].image \in Shared[job.mbid] ]_vars

(* An artist with a row is looked up in the end, though its jobs are        *)
(* dropped at a full queue, lost in a restart or skipped as recently seen:  *)
(* "the periodic backfill will catch it later" (engine.go:690).             *)
LookedUpInTheEnd ==
  \A n \in Names : row[n].there ~> (row[n].image # None \/ row[n].checked)
=============================================================================
