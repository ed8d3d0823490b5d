----------------------------- MODULE ArtistPages -----------------------------
(***************************************************************************)
(* Artist pages, genre pages, samples and track lists: what an interactive *)
(* visit reads from the caches, fetches, and leaves in them                *)
(* (GetArtistDetail, GetGenreArtists, Previews and AlbumTrackList in       *)
(* internal/engine, ReleaseGroups and the Deezer calls in internal/clients *)
(* /images.go).                                                            *)
(*                                                                         *)
(* Every call to the outside may fail: it does once the eight seconds of a *)
(* visit are over.  A genre page is an artist page without a discography.  *)
(***************************************************************************)
EXTENDS Integers, Sequences, SequencesExt, FiniteSets

CONSTANTS
  Visits,
  Listeners,     \* bound: the visits that ask for samples; the others open pages
  Acts, Genres,
  Names, Name,   \* Name[a]: what act a is called; several acts share a name
  NoAct,
  Titles,
  Foreign,       \* a title of which normAlbum leaves nothing
  Groups,        \* external: Groups[a], <<[title, typed], ...>> in MusicBrainz
  Profiles,      \* external: Profiles[n], <<[name, top], ...>> in Deezer; top:
                 \* the release of each popular track
  Releases,      \* external: Releases[t], <<[name, title], ...>>, hits for album t
  PageLimit, MaxPages,  \* mbPageLimit, mbMaxPages
  Limit,                \* tracks shown
  MaxPreviews,          \* 2000
  Wanted                \* bound: the albums asked for

Pages == Acts \cup Genres

ConstantsAssumption ==
  /\ Listeners \subseteq Visits /\ Acts \cap Genres = {} /\ NoAct \notin Pages \cup Names /\ Foreign \in Titles
  /\ Name \in [Acts -> Names]
  /\ Groups \in [Pages -> Seq([title : Titles, typed : BOOLEAN])]
  /\ \A g \in Genres : Groups[g] = <<>>
  /\ Profiles \in [Names -> Seq([name : Names, top : Seq(Titles)])]
  /\ Releases \in [Titles -> Seq([name : Names, title : Titles])]
  /\ PageLimit \in Nat \ {0} /\ MaxPages \in Nat \ {0}
  /\ Limit \in Nat \ {0} /\ MaxPreviews \in Nat /\ Wanted \subseteq Titles

ASSUME PagesAssumption == ConstantsAssumption

VARIABLES
  detail,    \* detail[k]: the cached page (artist_detail, genre_cache), or NoDetail
  top,       \* previewCache: top[<<n, k>>], an artist's popular tracks
  sample,    \* previewCache: sample[<<n, t>>], the samples of one album
  tracklist, \* release groups <<a, t>> in album_tracks
  visit      \* visit[v]: the local variables of a handler, or Idle

vars == <<detail, top, sample, tracklist, visit>>

(* The first count release groups of an act, those without a type included. *)
NoDetail == [of |-> NoAct, count |-> 0, age |-> "none"]
Detail   == [of : Pages, count : Nat, age : {"fresh", "stale"}]  \* 7 days, 365 days

(* checked is history: there were titles to compare the tracks with.        *)
(* Of each track it is the release that counts.                             *)
NoEntry == [tracks |-> {}, checked |-> FALSE, there |-> FALSE]
Entry   == [tracks : SUBSET Titles, checked : BOOLEAN, there : {TRUE}]

NoSample == [name |-> NoAct, title |-> Foreign, there |-> FALSE]  \* not looked for
Nothing  == [name |-> NoAct, title |-> Foreign, there |-> TRUE]   \* looked for in vain
Sample   == [name : Names, title : Titles, there : {TRUE}]

Tops   == Names \X (Acts \cup {NoAct})
Albums == Names \X Titles

Steps == {"idle", "resolve", "read", "fetch", "fallback", "save", "search", "album", "tracks",
          "error"}
Visit == [pc : Steps, kind : {"page", "top", "album"}, name : Names \cup {NoAct}, of : Pages \cup {NoAct},
          title : Titles, page : 0 .. MaxPages, count : Nat, known : SUBSET Titles,
          stored : BOOLEAN]
Idle == [pc |-> "idle"]

TitlesOf(k, n) == {Groups[k][i].title : i \in {j \in DOMAIN Groups[k] : j <= n /\ Groups[k][j].typed}}
Discography(k) == TitlesOf(k, Len(Groups[k]))

Become(v, r) == visit' = [visit EXCEPT ![v] = r]
Goto(v, pc)  == Become(v, [visit[v] EXCEPT !.pc = pc])
Answer(v)    == Become(v, Idle)

Start(v, kind, pc, n, k, t) ==
  /\ visit[v].pc = "idle"
  /\ Become(v, [pc |-> pc, kind |-> kind, name |-> n, of |-> k, title |-> t, page |-> 0,
                count |-> 0, known |-> {}, stored |-> FALSE])
  /\ UNCHANGED <<detail, top, sample, tracklist>>
-----------------------------------------------------------------------------
(* The discography: GetArtistDetail and, with one fetch, GetGenreArtists.   *)

OpenPage(v, n)  == Start(v, "page", "resolve", n, NoAct, Foreign)
OpenKnown(v, k) == Start(v, "page", "read", NoAct, k, Foreign)

(* SearchArtistMBID: an act of that name, or ErrNoMBID.                     *)
Resolve(v) ==
  /\ visit[v].pc = "resolve"
  /\ \/ \E a \in Acts : Name[a] = visit[v].name
                        /\ Become(v, [visit[v] EXCEPT !.of = a, !.pc = "read"])
     \/ Goto(v, "error")
  /\ UNCHANGED <<detail, top, sample, tracklist>>

(* The page is at hand.  It is all a visitor of the page wanted; an         *)
(* artist's popular tracks are searched with its titles.                    *)
Have(v, k, count) ==
  IF visit[v].kind = "page" THEN Answer(v)
  ELSE Become(v, [visit[v] EXCEPT !.pc = "search", !.stored = TRUE,
                                  !.known = TitlesOf(k, count) \ {Foreign}])

ReadDetail(v) ==
  /\ visit[v].pc = "read"
  /\ LET d == detail[visit[v].of] IN
       IF d.age = "fresh" THEN Have(v, d.of, d.count)
       ELSE Become(v, [visit[v] EXCEPT !.pc = "fetch", !.stored = (d # NoDetail)])
  /\ UNCHANGED <<detail, top, sample, tracklist>>

(* One page of ReleaseGroups.  An error of the first one is an error, of a  *)
(* later one the end: "partial discography beats none".                     *)
LastPage(k, count, got) == got < PageLimit \/ count >= Len(Groups[k])

Slip_FetchPage(v) ==  \* no bound on the pages
  LET k == visit[v].of
      left == Len(Groups[k]) - visit[v].count
      got == IF left < PageLimit THEN left ELSE PageLimit
      count == visit[v].count + got
  IN
  /\ visit[v].pc = "fetch"
  /\ Become(v, [visit[v] EXCEPT !.count = count, !.page = @ + 1,
                                !.pc = IF LastPage(k, count, got) THEN "save" ELSE "fetch"])
  /\ UNCHANGED <<detail, top, sample, tracklist>>

FetchPage(v) ==
  LET k == visit[v].of
      left == Len(Groups[k]) - visit[v].count
      got == IF left < PageLimit THEN left ELSE PageLimit
      count == visit[v].count + got
      page == visit[v].page + 1
  IN
  /\ visit[v].pc = "fetch"
  /\ \/ Become(v, [visit[v] EXCEPT !.count = count, !.page = page,
                     !.pc = IF LastPage(k, count, got) \/ page = MaxPages THEN "save" ELSE "fetch"])
     \/ Goto(v, IF visit[v].page = 0 THEN "fallback" ELSE "save")
  /\ UNCHANGED <<detail, top, sample, tracklist>>

(* Without a discography the page fails, and samples go on unchecked.       *)
Failed(v) == Goto(v, IF visit[v].kind = "page" THEN "error" ELSE "search")

Slip_Fallback(v) ==
  /\ visit[v].pc = "fallback"
  /\ Failed(v)
  /\ UNCHANGED <<detail, top, sample, tracklist>>

(* A stale cache beats an error page.                                       *)
Fallback(v) ==
  /\ visit[v].pc = "fallback"
  /\ LET d == detail[visit[v].of] IN IF d # NoDetail THEN Have(v, d.of, d.count) ELSE Failed(v)
  /\ UNCHANGED <<detail, top, sample, tracklist>>

SaveDetail(v) ==
  /\ visit[v].pc = "save"
  /\ detail' = [detail EXCEPT ![visit[v].of] =
                  [of |-> visit[v].of, count |-> visit[v].count, age |-> "fresh"]]
  /\ Have(v, visit[v].of, visit[v].count)
  /\ UNCHANGED <<top, sample, tracklist>>
-----------------------------------------------------------------------------
(* Samples: Previews, TopPreviewsFor, AlbumPreviews.                        *)

(* Two maps in the code are one: it is emptied when it holds too many.      *)
Full == Cardinality({e \in Tops : top[e].there}) + Cardinality({a \in Albums : sample[a].there})
          > MaxPreviews

OpenTop(v, n, k) ==
  /\ ~top[<<n, k>>].there
  /\ Start(v, "top", IF k = NoAct THEN "search" ELSE "read", n, k, Foreign)

(* The namesakes among the hits, and the tracks of one of them that are on  *)
(* known releases, or all when there is nothing to compare with.            *)
Named(n) == {i \in DOMAIN Profiles[n] : Profiles[n][i].name = n}
Top(n, i) == Profiles[n][i].top
Kept(n, i, known) == {j \in DOMAIN Top(n, i) : known = {} \/ Top(n, i)[j] \in known}

Capped(n, i, known) ==
  {Top(n, i)[j] : j \in {k \in Kept(n, i, known) :
                           Cardinality({l \in Kept(n, i, known) : l < k}) < Limit}}

(* An artist without an MBID: the first namesake's.                         *)
TopPreviews(n) == IF Named(n) = {} THEN {} ELSE Capped(n, Min(Named(n)), {})

(* TopPreviewsFor, when the profiles in failed do not answer: the first one *)
(* that has tracks, when there is nothing to compare with; else the tracks  *)
(* on known releases of the first namesake, or of the one that has most.    *)
Answering(n, failed) == {i \in Named(n) \ failed : Top(n, i) # <<>>}

Slip_TopPreviewsFor(n, known, failed) ==  \* no filter
  LET has == Answering(n, failed) IN IF has = {} THEN {} ELSE Capped(n, Min(has), {})

TopPreviewsFor(n, known, failed) ==
  LET has    == Answering(n, failed)
      kept(i) == Cardinality(Kept(n, i, known))
      most   == {i \in has : \A j \in has : kept(j) <= kept(i)}
      first  == Min(has)
  IN IF has = {} THEN {}
     ELSE IF known = {} \/ (first = Min(Named(n)) /\ kept(first) > 0) THEN Capped(n, first, known)
     ELSE Capped(n, Min(most), known)

Search(v) ==
  LET w == visit[v] IN
  /\ w.pc = "search"
  /\ \/ \E failed \in SUBSET Named(w.name) :
          /\ w.of = NoAct => failed = {}
          /\ top' = [(IF Full THEN [e \in Tops |-> NoEntry] ELSE top) EXCEPT ![<<w.name, w.of>>] =
               [tracks |-> IF w.of = NoAct THEN TopPreviews(w.name)
                           ELSE TopPreviewsFor(w.name, w.known, failed),
                checked |-> w.known # {}, there |-> TRUE]]
          /\ sample' = IF Full THEN [a \in Albums |-> NoSample] ELSE sample
          /\ Answer(v)
     \/ Goto(v, "error") /\ UNCHANGED <<top, sample>>
  /\ UNCHANGED <<detail, tracklist>>
-----------------------------------------------------------------------------
(* Track lists: AlbumTrackList.  k is the album's group, or NoAct.          *)

OpenAlbum(v, n, t, k) ==
  /\ sample[<<n, t>>] \notin Sample
  /\ Start(v, "album", IF sample[<<n, t>>].there THEN "tracks" ELSE "album", n, k, t)

Verified(n, t) == {i \in DOMAIN Releases[t] : Releases[t][i].name = n /\ Releases[t][i].title = t}

(* Samples of the first hit with that artist and title; no hit is cached as *)
(* well, a failure is not.  Either falls through to MusicBrainz.            *)
SampleAlbum(v) ==
  LET w == visit[v]
      found == Verified(w.name, w.title)
      first == Releases[w.title][Min(found)]
      entry == IF found = {} THEN Nothing
               ELSE [name |-> first.name, title |-> first.title, there |-> TRUE]
  IN
  /\ w.pc = "album"
  /\ \/ /\ sample' = [(IF Full THEN [a \in Albums |-> NoSample] ELSE sample) EXCEPT ![<<w.name, w.title>>] = entry]
        /\ top' = IF Full THEN [e \in Tops |-> NoEntry] ELSE top
        /\ IF found = {} THEN Goto(v, "tracks") ELSE Answer(v)
     \/ Goto(v, "tracks") /\ UNCHANGED <<top, sample>>
  /\ UNCHANGED <<detail, tracklist>>

ListTracks(v) ==
  LET w == visit[v] IN
  /\ w.pc = "tracks"
  /\ \/ /\ w.of = NoAct \/ <<w.of, w.title>> \in tracklist
        /\ Answer(v) /\ UNCHANGED tracklist
     \/ /\ w.of # NoAct /\ <<w.of, w.title>> \notin tracklist
        /\ \/ tracklist' = tracklist \cup {<<w.of, w.title>>} /\ Answer(v)
           \/ Goto(v, "error") /\ UNCHANGED tracklist
  /\ UNCHANGED <<detail, top, sample>>
-----------------------------------------------------------------------------
Close(v) ==
  /\ visit[v].pc = "error"
  /\ Answer(v)
  /\ UNCHANGED <<detail, top, sample, tracklist>>

Age(k) ==  \* seven days
  /\ detail[k].age = "fresh" /\ detail' = [detail EXCEPT ![k].age = "stale"]
  /\ UNCHANGED <<top, sample, tracklist, visit>>

Expire(k) ==  \* a year
  /\ detail[k].age = "stale" /\ detail' = [detail EXCEPT ![k] = NoDetail]
  /\ visit' = [v \in Visits |-> IF visit[v].pc \in {"fetch", "fallback"} /\ visit[v].of = k
                                  THEN [visit[v] EXCEPT !.stored = FALSE] ELSE visit[v]]
  /\ UNCHANGED <<top, sample, tracklist>>

HalfDay ==  \* 12 hours, or a restart
  /\ \/ \E e \in Tops : top[e].there /\ top' = [top EXCEPT ![e] = NoEntry] /\ UNCHANGED sample
     \/ \E a \in Albums : sample[a].there /\ sample' = [sample EXCEPT ![a] = NoSample] /\ UNCHANGED top
  /\ UNCHANGED <<detail, tracklist, visit>>

Month ==  \* 30 days
  /\ \E a \in tracklist : tracklist' = tracklist \ {a}
  /\ UNCHANGED <<detail, top, sample, visit>>

Init ==
  /\ detail = [k \in Pages |-> NoDetail]
  /\ top = [e \in Tops |-> NoEntry] /\ sample = [a \in Albums |-> NoSample]
  /\ tracklist = {} /\ visit = [v \in Visits |-> Idle]

Step(v) == \/ Resolve(v) \/ ReadDetail(v) \/ FetchPage(v) \/ Fallback(v) \/ SaveDetail(v)
           \/ Search(v) \/ SampleAlbum(v) \/ ListTracks(v)

Next ==
  \/ \E v \in Visits \ Listeners, k \in Pages : OpenKnown(v, k)
  \/ \E v \in Visits \ Listeners, a \in Acts : OpenPage(v, Name[a])
  \/ \E v \in Listeners, a \in Acts : OpenTop(v, Name[a], a) \/ OpenTop(v, Name[a], NoAct)
  \/ \E v \in Listeners, a \in Acts, t \in Wanted :
       OpenAlbum(v, Name[a], t, NoAct) \/ (t \in Discography(a) /\ OpenAlbum(v, Name[a], t, a))
  \/ \E v \in Visits : Step(v) \/ Close(v)
  \/ \E k \in Pages : Age(k) \/ Expire(k)
  \/ HalfDay \/ Month

Spec == Init /\ [][Next]_vars
-----------------------------------------------------------------------------
TypeOK ==
  /\ detail \in [Pages -> Detail \cup {NoDetail}]
  /\ top \in [Tops -> Entry \cup {NoEntry}]
  /\ sample \in [Albums -> Sample \cup {NoSample, Nothing}]
  /\ tracklist \subseteq Acts \X Titles
  /\ visit \in [Visits -> Visit \cup {Idle}]

(* "A stale cache beats an error page" (detail.go:63): with any page of     *)
(* the year in the cache, a visit by MBID does not fail for want of it, and *)
(* samples are not searched without it.                                     *)
StaleBeatsError ==
  \A v \in Visits :
    LET w == visit[v] IN
    /\ w.pc = "error" /\ w.kind = "page" => ~w.stored
    /\ w.pc = "search" /\ w.stored => w.known # {} \/ TitlesOf(w.of, PageLimit) \subseteq {Foreign}

(* "it stops Deezer's name-only lookup from returning a different band that *)
(* shares the name" (images.go:203): what is cached under an act's MBID is  *)
(* of its own releases, and samples of an album are of that artist's album, *)
(* except where no discography was at hand or none of its titles survives   *)
(* normAlbum.                                                               *)
OwnTracks ==
  /\ \A n \in Names, a \in Acts :
       top[<<n, a>>].checked => top[<<n, a>>].tracks \subseteq Discography(a)
  /\ \A n \in Names, t \in Titles : sample[<<n, t>>] \in Sample =>
       sample[<<n, t>>].name = n /\ sample[<<n, t>>].title = t
=============================================================================
