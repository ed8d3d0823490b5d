------------------------- MODULE ArtistPagesProofs -------------------------
(***************************************************************************)
(* Theorems about ArtistPages, for any acts, names, discographies, hits of *)
(* Deezer and visits.                                                      *)
(*                                                                         *)
(* A visit works with what it read from a cache, or fetched, some calls    *)
(* ago.  The inductive invariant says what is still true of that when the  *)
(* caches have changed: VisitOK of each visit, DetailOK of each page.      *)
(***************************************************************************)
EXTENDS ArtistPages, TLAPS, FiniteSetTheorems, WellFoundedInduction

(* A first page of release groups at least.                                 *)
Enough(k, count) == count >= PageLimit \/ count >= Len(Groups[k])

(* A cached page is the one it is cached as, and not an empty answer.       *)
DetailOK(k, d) == d # NoDetail => d.of = k /\ Enough(k, d.count)

(* What the visit w relies on when the pages d are in the cache.            *)
VisitOK(w, d) ==
  /\ w.pc \in {"resolve", "read"} => w.page = 0 /\ w.count = 0 /\ ~w.stored
  /\ w.pc = "resolve" => w.kind = "page"
  /\ w.pc \in {"read", "fetch", "fallback", "save"} =>
       /\ w.of \in Pages
       /\ w.kind = "page" \/ (w.kind = "top" /\ w.of \in Acts /\ w.name \in Names)
  /\ w.pc \in {"resolve", "read", "fetch", "fallback"} => w.known = {}
  /\ w.pc = "fetch" =>
       /\ w.page < MaxPages /\ w.count <= Len(Groups[w.of])
       /\ w.page > 0 => Enough(w.of, w.count)
  /\ w.pc = "save" => Enough(w.of, w.count)
  /\ w.pc \in {"fetch", "fallback"} /\ w.stored => d[w.of] # NoDetail
  /\ w.pc = "search" =>
       /\ w.kind = "top" /\ w.name \in Names /\ w.of \in Acts \cup {NoAct}
       /\ w.known # {} => w.of \in Acts /\ w.known \subseteq Discography(w.of)
       /\ w.stored => w.known # {} \/ TitlesOf(w.of, PageLimit) \subseteq {Foreign}
  /\ w.pc \in {"album", "tracks"} =>
       w.kind = "album" /\ w.name \in Names /\ w.of \in Acts \cup {NoAct}
  /\ w.pc = "error" /\ w.kind = "page" => ~w.stored

(* The parts of the inductive invariant: the pages, the visits, and what    *)
(* the two kinds of samples and the track lists hold.                       *)
DetailInv ==
  /\ detail \in [Pages -> Detail \cup {NoDetail}]
  /\ \A k \in Pages : DetailOK(k, detail[k])
VisitInv ==
  /\ visit \in [Visits -> Visit \cup {Idle}]
  /\ \A v \in Visits : VisitOK(visit[v], detail)
TopsOK(f) ==
  /\ f \in [Tops -> Entry \cup {NoEntry}]
  /\ \A n \in Names, a \in Acts : f[<<n, a>>].checked => f[<<n, a>>].tracks \subseteq Discography(a)
SamplesOK(f) ==
  /\ f \in [Albums -> Sample \cup {NoSample, Nothing}]
  /\ \A n \in Names, t \in Titles : f[<<n, t>>] \in Sample => f[<<n, t>>].name = n /\ f[<<n, t>>].title = t
SampleInv == TopsOK(top) /\ SamplesOK(sample)
ListInv == tracklist \subseteq Acts \X Titles

IInv == DetailInv /\ VisitInv /\ SampleInv /\ ListInv
-----------------------------------------------------------------------------
(* Discographies.                                                           *)

(* What the constants are.                                                  *)
LEMMA GroupsType ==
  ASSUME NEW k \in Pages
  PROVE  /\ Groups[k] \in Seq([title : Titles, typed : BOOLEAN])
         /\ Len(Groups[k]) \in Nat /\ DOMAIN Groups[k] = 1 .. Len(Groups[k])
         /\ PageLimit \in Nat \ {0} /\ MaxPages \in Nat \ {0}
  <1> DEFINE R == [title : Titles, typed : BOOLEAN]
  <1>1. Groups[k] \in Seq(R)
    <2> HIDE DEF R
    <2>1. Groups \in [Pages -> Seq(R)]
      BY PagesAssumption DEF ConstantsAssumption, R
    <2> QED BY <2>1
  <1>2. Len(Groups[k]) \in Nat /\ DOMAIN Groups[k] = 1 .. Len(Groups[k])
    <2> HIDE DEF R
    <2> QED BY <1>1
  <1>3. PageLimit \in Nat \ {0} /\ MaxPages \in Nat \ {0}
    BY PagesAssumption DEF ConstantsAssumption
  <1> QED BY <1>1, <1>2, <1>3

(* Some release groups of an act are titles of its discography.             *)
LEMMA TitlesOfOK ==
  ASSUME NEW k \in Pages, NEW n \in Nat
  PROVE  TitlesOf(k, n) \subseteq Titles /\ TitlesOf(k, n) \subseteq Discography(k)
  <1> DEFINE R == [title : Titles, typed : BOOLEAN]
  <1>1. ASSUME NEW i \in DOMAIN Groups[k]
        PROVE  Groups[k][i].title \in Titles /\ i <= Len(Groups[k])
    <2>1. Groups[k] \in Seq(R) /\ i \in 1 .. Len(Groups[k]) /\ Len(Groups[k]) \in Nat
      BY GroupsType
    <2>2. Groups[k][i] \in R
      <3> HIDE DEF R
      <3> QED BY <2>1
    <2> QED BY <2>1, <2>2
  <1> QED BY <1>1 DEF TitlesOf, Discography

(* A page that is not an empty answer has the titles of the first page.     *)
LEMMA FirstTitles ==
  ASSUME NEW k \in Pages, NEW n \in Nat, Enough(k, n)
  PROVE  TitlesOf(k, PageLimit) \subseteq TitlesOf(k, n)
  <1>1. \A j \in DOMAIN Groups[k] : j <= PageLimit => j <= n
    BY GroupsType DEF Enough
  <1> QED BY <1>1 DEF TitlesOf

(* With it, samples are searched with a title, or there is none to search   *)
(* with.                                                                    *)
LEMMA KnownTitles ==
  ASSUME NEW k \in Pages, NEW n \in Nat, Enough(k, n)
  PROVE  LET known == TitlesOf(k, n) \ {Foreign}
         IN  /\ known \subseteq Titles /\ known \subseteq Discography(k)
             /\ known # {} \/ TitlesOf(k, PageLimit) \subseteq {Foreign}
  BY TitlesOfOK, FirstTitles

(* A page of release groups is added.                                       *)
LEMMA PageAdded ==
  ASSUME NEW k \in Pages, NEW count \in Nat, count <= Len(Groups[k])
  PROVE  LET left == Len(Groups[k]) - count
             got  == IF left < PageLimit THEN left ELSE PageLimit
         IN  /\ count + got \in Nat /\ count + got <= Len(Groups[k])
             /\ Enough(k, count + got)
  BY GroupsType DEF Enough
-----------------------------------------------------------------------------
(* The local variables of a visit.                                          *)

(* The fields of a visit.                                                   *)
LEMMA VisitFields ==
  ASSUME NEW w \in Visit
  PROVE  /\ w.pc \in Steps /\ w.kind \in {"page", "top", "album"} /\ w.name \in Names \cup {NoAct}
         /\ w.of \in Pages \cup {NoAct} /\ w.title \in Titles /\ w.page \in 0 .. MaxPages
         /\ w.count \in Nat /\ w.known \subseteq Titles /\ w.stored \in BOOLEAN
  BY DEF Visit

(* A visit that goes on to another step,                                    *)
LEMMA GotoVisit ==
  ASSUME NEW w \in Visit, NEW pc \in Steps
  PROVE  LET r == [w EXCEPT !.pc = pc]
         IN  /\ r \in Visit /\ r.pc = pc /\ r.kind = w.kind /\ r.name = w.name /\ r.of = w.of
             /\ r.title = w.title /\ r.page = w.page /\ r.count = w.count /\ r.known = w.known
             /\ r.stored = w.stored
  BY DEF Visit

(* that has found its act,                                                  *)
LEMMA ResolvedVisit ==
  ASSUME NEW w \in Visit, NEW a \in Pages
  PROVE  LET r == [w EXCEPT !.of = a, !.pc = "read"]
         IN  /\ r \in Visit /\ r.pc = "read" /\ r.kind = w.kind /\ r.name = w.name /\ r.of = a
             /\ r.page = w.page /\ r.count = w.count /\ r.known = w.known /\ r.stored = w.stored
  BY DEF Visit, Steps

(* that searches with the titles at hand,                                   *)
LEMMA SearchingVisit ==
  ASSUME NEW w \in Visit, NEW titles \in SUBSET Titles
  PROVE  LET r == [w EXCEPT !.pc = "search", !.stored = TRUE, !.known = titles]
         IN  /\ r \in Visit /\ r.pc = "search" /\ r.kind = w.kind /\ r.name = w.name /\ r.of = w.of
             /\ r.known = titles
  BY DEF Visit, Steps

(* that found no fresh page,                                                *)
LEMMA FetchingVisit ==
  ASSUME NEW w \in Visit, NEW b \in BOOLEAN
  PROVE  LET r == [w EXCEPT !.pc = "fetch", !.stored = b]
         IN  /\ r \in Visit /\ r.pc = "fetch" /\ r.kind = w.kind /\ r.name = w.name /\ r.of = w.of
             /\ r.page = w.page /\ r.count = w.count /\ r.known = w.known /\ r.stored = b
  BY DEF Visit, Steps

(* or whose page has expired, is a visit.                                   *)
LEMMA ExpiredVisit ==
  ASSUME NEW w \in Visit
  PROVE  LET r == [w EXCEPT !.stored = FALSE]
         IN  /\ r \in Visit /\ r.pc = w.pc /\ r.kind = w.kind /\ r.name = w.name /\ r.of = w.of
             /\ r.page = w.page /\ r.count = w.count /\ r.known = w.known /\ ~r.stored
  BY DEF Visit

(* Nothing is asked of a handler that has answered.                         *)
LEMMA IdleOK == \A d : VisitOK(Idle, d)
  BY DEF VisitOK, Idle

(* A page that is saved, or ages, leaves alone what the others rely on: no  *)
(* page is gone.                                                            *)
LEMMA PagesKept ==
  ASSUME NEW w, NEW d, NEW e, VisitOK(w, d), \A k \in Pages : d[k] # NoDetail => e[k] # NoDetail
  PROVE  VisitOK(w, e)
  BY DEF VisitOK

(* So does one step of one visit, whatever it is then.                      *)
LEMMA BecomeOK ==
  ASSUME VisitInv, NEW v \in Visits, NEW r \in Visit \cup {Idle}, VisitOK(r, detail'), Become(v, r),
         \A k \in Pages : detail[k] # NoDetail => detail'[k] # NoDetail
  PROVE  VisitInv'
  <1>1. visit' \in [Visits -> Visit \cup {Idle}]
    BY DEF VisitInv, Become
  <1>2. ASSUME NEW u \in Visits PROVE VisitOK(visit'[u], detail')
    <2>1. CASE u = v
      <3>1. visit'[u] = r
        BY <2>1 DEF VisitInv, Become
      <3> QED BY <3>1
    <2>2. CASE u # v
      <3>1. visit'[u] = visit[u] /\ VisitOK(visit[u], detail)
        BY <2>2 DEF VisitInv, Become
      <3> QED BY <3>1, PagesKept
    <2> QED BY <2>1, <2>2
  <1> QED BY <1>1, <1>2 DEF VisitInv
-----------------------------------------------------------------------------
(* What Deezer returns.                                                     *)

(* Positions have a least one: the sets of those before them are            *)
(* well-ordered by inclusion.                                               *)
LEMMA LeastPosition ==
  ASSUME NEW n \in Nat, NEW S \in SUBSET (1 .. n), S # {}
  PROVE  Min(S) \in S
  <1> DEFINE Before(m) == {i \in S : i < m}
             T == {Before(m) : m \in S}
             R == StrictSubsetOrdering(S)
  <1>0. \A i \in S : i \in Int
    OBVIOUS
  <1>1. IsWellFoundedOn(R, SUBSET S)
    <2>1. IsFiniteSet(1 .. n)
      <3>1. 1 \in Int /\ n \in Int
        OBVIOUS
      <3> QED BY <3>1, FS_Interval
    <2>2. IsFiniteSet(S)
      BY <2>1, FS_Subset
    <2>3. FiniteSubsetsOf(S) = SUBSET S
      BY <2>2, FS_FiniteSubsetsOfFinite
    <2> QED BY <2>3, FS_StrictSubsetOrderingWellFounded
  <1>2. T \subseteq SUBSET S /\ T # {}
    OBVIOUS
  <1>3. \E x \in T : \A y \in T : ~ (<<y, x>> \in R)
    <2> HIDE DEF T, R
    <2> QED BY <1>1, <1>2, WFMin
  <1>4. PICK m \in S : \A k \in S : ~ (<<Before(k), Before(m)>> \in R)
    BY <1>3
  <1>5. ASSUME NEW i \in S, i < m PROVE FALSE
    <2>1. Before(i) \subseteq Before(m)
      <3>1. \A k \in S : k < i => k < m
        BY <1>0, <1>5
      <3> QED BY <3>1
    <2>2. i \in Before(m) /\ i \notin Before(i)
      BY <1>0, <1>5
    <2>3. <<Before(i), Before(m)>> \in R
      BY <2>1, <2>2 DEF StrictSubsetOrdering
    <2> QED BY <1>4, <2>3
  <1>6. \A i \in S : m <= i
    BY <1>0, <1>5
  <1> QED BY <1>6 DEF Min

(* The namesakes are positions of the hits, and what they are famous for is *)
(* a sequence of titles.                                                    *)
LEMMA NamedType ==
  ASSUME NEW n \in Names
  PROVE  /\ Len(Profiles[n]) \in Nat /\ Named(n) \subseteq 1 .. Len(Profiles[n])
         /\ \A i \in Named(n) : Top(n, i) \in Seq(Titles)
  <1> DEFINE R == [name : Names, top : Seq(Titles)]
  <1>1. Profiles[n] \in Seq(R)
    <2> HIDE DEF R
    <2>1. Profiles \in [Names -> Seq(R)]
      BY PagesAssumption DEF ConstantsAssumption, R
    <2> QED BY <2>1
  <1>2. Len(Profiles[n]) \in Nat /\ DOMAIN Profiles[n] = 1 .. Len(Profiles[n])
    <2> HIDE DEF R
    <2> QED BY <1>1
  <1>3. ASSUME NEW i \in Named(n) PROVE Top(n, i) \in Seq(Titles)
    <2>1. Profiles[n][i] \in R
      <3> HIDE DEF R
      <3> QED BY <1>1, <1>2 DEF Named
    <2> QED BY <2>1 DEF Top
  <1> QED BY <1>2, <1>3 DEF Named

(* The tracks that are cached are on known releases, when some are known.   *)
LEMMA CappedKnown ==
  ASSUME NEW n, NEW i, NEW known, known # {}
  PROVE  Capped(n, i, known) \subseteq known
  BY DEF Capped, Kept

(* They are releases in any case.                                           *)
LEMMA CappedTitles ==
  ASSUME NEW n \in Names, NEW i \in Named(n), NEW known
  PROVE  Capped(n, i, known) \subseteq Titles
  <1>1. Top(n, i) \in Seq(Titles)
    BY NamedType
  <1>2. \A j \in DOMAIN Top(n, i) : Top(n, i)[j] \in Titles
    BY <1>1
  <1> QED BY <1>2 DEF Capped, Kept

(* Whichever namesake is taken, and whoever does not answer.                *)
LEMMA TopPreviewsKnown ==
  ASSUME NEW n, NEW known, known # {}, NEW failed
  PROVE  TopPreviewsFor(n, known, failed) \subseteq known
  BY CappedKnown DEF TopPreviewsFor

LEMMA TopPreviewsTitles ==
  ASSUME NEW n \in Names, NEW known \in SUBSET Titles, NEW failed
  PROVE  TopPreviewsFor(n, known, failed) \subseteq Titles /\ TopPreviews(n) \subseteq Titles
  <1>1. TopPreviews(n) \subseteq Titles
    <2>1. CASE Named(n) = {}
      BY <2>1 DEF TopPreviews
    <2>2. CASE Named(n) # {}
      <3>1. Min(Named(n)) \in Named(n)
        BY <2>2, NamedType, LeastPosition
      <3> QED BY <2>2, <3>1, CappedTitles DEF TopPreviews
    <2> QED BY <2>1, <2>2
  <1>2. TopPreviewsFor(n, known, failed) \subseteq Titles
    <2> DEFINE has == Answering(n, failed)
    <2>1. CASE known # {}
      BY <2>1, TopPreviewsKnown
    <2>2. CASE has = {}
      BY <2>2 DEF TopPreviewsFor
    <2>3. CASE known = {} /\ has # {}
      <3>1. has \subseteq Named(n)
        BY DEF Answering
      <3>2. Min(has) \in has
        <4> HIDE DEF has
        <4> QED BY <2>3, <3>1, NamedType, LeastPosition
      <3>3. TopPreviewsFor(n, known, failed) = Capped(n, Min(has), known)
        BY <2>3 DEF TopPreviewsFor
      <3> QED BY <3>1, <3>2, <3>3, CappedTitles
    <2> QED BY <2>1, <2>2, <2>3
  <1> QED BY <1>1, <1>2

(* The first hit that has the artist and the title of an album has them.    *)
LEMMA VerifiedFirst ==
  ASSUME NEW n \in Names, NEW t \in Titles, Verified(n, t) # {}
  PROVE  LET first == Releases[t][Min(Verified(n, t))] IN first.name = n /\ first.title = t
  <1> DEFINE R == [name : Names, title : Titles]
  <1>1. Releases[t] \in Seq(R)
    <2> HIDE DEF R
    <2>1. Releases \in [Titles -> Seq(R)]
      BY PagesAssumption DEF ConstantsAssumption, R
    <2> QED BY <2>1
  <1>2. Len(Releases[t]) \in Nat /\ Verified(n, t) \subseteq 1 .. Len(Releases[t])
    <2> HIDE DEF R
    <2> QED BY <1>1 DEF Verified
  <1>3. Min(Verified(n, t)) \in Verified(n, t)
    BY <1>2, LeastPosition
  <1> QED BY <1>3 DEF Verified
-----------------------------------------------------------------------------
(* What is cached of it.                                                    *)

(* An emptied cache is in order,                                            *)
LEMMA EmptyOK == TopsOK([e \in Tops |-> NoEntry]) /\ SamplesOK([a \in Albums |-> NoSample])
  <1>1. NoSample \notin Sample
    BY DEF NoSample, Sample
  <1>2. \A n \in Names, a \in Acts : <<n, a>> \in Tops
    BY DEF Tops
  <1>3. \A n \in Names, t \in Titles : <<n, t>> \in Albums
    BY DEF Albums
  <1>4. ~NoEntry.checked
    BY DEF NoEntry
  <1>5. TopsOK([e \in Tops |-> NoEntry])
    BY <1>2, <1>4 DEF TopsOK
  <1>6. SamplesOK([a \in Albums |-> NoSample])
    BY <1>1, <1>3 DEF SamplesOK
  <1> QED BY <1>5, <1>6

(* one with another entry, or without one,                                  *)
LEMMA TopCached ==
  ASSUME NEW f, TopsOK(f), NEW n \in Names, NEW k \in Acts \cup {NoAct}, NEW e \in Entry \cup {NoEntry},
         e.checked => k \in Acts /\ e.tracks \subseteq Discography(k)
  PROVE  TopsOK([f EXCEPT ![<<n, k>>] = e])
  <1> DEFINE g == [f EXCEPT ![<<n, k>>] = e]
  <1>1. <<n, k>> \in Tops /\ \A m \in Names, a \in Acts : <<m, a>> \in Tops
    BY DEF Tops
  <1>2. g \in [Tops -> Entry \cup {NoEntry}]
    BY <1>1 DEF TopsOK
  <1>3. ASSUME NEW m \in Names, NEW a \in Acts, g[<<m, a>>].checked
        PROVE  g[<<m, a>>].tracks \subseteq Discography(a)
    <2>1. CASE <<m, a>> = <<n, k>>
      <3>1. g[<<m, a>>] = e /\ a = k
        BY <1>1, <2>1 DEF TopsOK
      <3> QED BY <1>3, <3>1
    <2>2. CASE <<m, a>> # <<n, k>>
      <3>1. g[<<m, a>>] = f[<<m, a>>]
        BY <1>1, <2>2 DEF TopsOK
      <3> QED BY <1>3, <3>1 DEF TopsOK
    <2> QED BY <2>1, <2>2
  <1> QED BY <1>2, <1>3 DEF TopsOK

(* of an artist's popular tracks or of an album.                            *)
LEMMA SampleCached ==
  ASSUME NEW f, SamplesOK(f), NEW n \in Names, NEW t \in Titles,
         NEW e \in Sample \cup {NoSample, Nothing}, e \in Sample => e.name = n /\ e.title = t
  PROVE  SamplesOK([f EXCEPT ![<<n, t>>] = e])
  <1> DEFINE g == [f EXCEPT ![<<n, t>>] = e]
  <1>1. <<n, t>> \in Albums /\ \A m \in Names, u \in Titles : <<m, u>> \in Albums
    BY DEF Albums
  <1>2. g \in [Albums -> Sample \cup {NoSample, Nothing}]
    BY <1>1 DEF SamplesOK
  <1>3. ASSUME NEW m \in Names, NEW u \in Titles, g[<<m, u>>] \in Sample
        PROVE  g[<<m, u>>].name = m /\ g[<<m, u>>].title = u
    <2>1. CASE <<m, u>> = <<n, t>>
      <3>1. g[<<m, u>>] = e /\ m = n /\ u = t
        BY <1>1, <2>1 DEF SamplesOK
      <3> QED BY <1>3, <3>1
    <2>2. CASE <<m, u>> # <<n, t>>
      <3>1. g[<<m, u>>] = f[<<m, u>>]
        BY <1>1, <2>2 DEF SamplesOK
      <3> QED BY <1>3, <3>1 DEF SamplesOK
    <2> QED BY <2>1, <2>2
  <1> QED BY <1>2, <1>3 DEF SamplesOK
-----------------------------------------------------------------------------
(* The steps of a visit.                                                    *)

(* A handler that has not answered has its local variables.                 *)
LEMMA InHand ==
  ASSUME VisitInv, NEW v \in Visits, visit[v].pc # "idle"
  PROVE  visit[v] \in Visit /\ VisitOK(visit[v], detail)
  BY DEF VisitInv, Idle

(* An answer needs nothing,                                                 *)
LEMMA AnswerOK ==
  ASSUME VisitInv, NEW v \in Visits, Answer(v),
         \A k \in Pages : detail[k] # NoDetail => detail'[k] # NoDetail
  PROVE  VisitInv'
  BY IdleOK, BecomeOK DEF Answer

(* nor does a failure of samples or of a track list.                        *)
LEMMA ErrorOK ==
  ASSUME VisitInv, NEW v \in Visits, visit[v].pc # "idle", Goto(v, "error"), UNCHANGED detail,
         visit[v].kind = "page" => ~visit[v].stored
  PROVE  VisitInv'
  <1> DEFINE r == [visit[v] EXCEPT !.pc = "error"]
  <1>1. visit[v] \in Visit
    BY InHand
  <1>2. "error" \in Steps
    BY DEF Steps
  <1>3. r \in Visit /\ r.pc = "error" /\ r.kind = visit[v].kind /\ r.stored = visit[v].stored
    BY <1>1, <1>2, GotoVisit
  <1>4. Become(v, r)
    BY DEF Goto
  <1> HIDE DEF r
  <1>5. VisitOK(r, detail')
    BY <1>3 DEF VisitOK
  <1> QED BY <1>3, <1>4, <1>5, BecomeOK

(* With a page at hand the visit answers, or searches with the titles.      *)
LEMMA HaveOK ==
  ASSUME VisitInv, NEW v \in Visits, visit[v] \in Visit, NEW k \in Pages, NEW count \in Nat,
         Enough(k, count), Have(v, k, count),
         \/ visit[v].kind = "page"
         \/ visit[v].kind = "top" /\ visit[v].of = k /\ k \in Acts /\ visit[v].name \in Names,
         \A p \in Pages : detail[p] # NoDetail => detail'[p] # NoDetail
  PROVE  VisitInv'
  <1>1. CASE visit[v].kind = "page"
    <2>1. Answer(v)
      BY <1>1 DEF Have
    <2> QED BY <2>1, AnswerOK
  <1>2. CASE visit[v].kind # "page"
    <2> DEFINE known == TitlesOf(k, count) \ {Foreign}
               r == [visit[v] EXCEPT !.pc = "search", !.stored = TRUE, !.known = known]
    <2>1. Become(v, r)
      BY <1>2 DEF Have
    <2>2. /\ known \subseteq Titles /\ known \subseteq Discography(k)
          /\ known # {} \/ TitlesOf(k, PageLimit) \subseteq {Foreign}
      BY KnownTitles
    <2> HIDE DEF known
    <2>3. /\ r \in Visit /\ r.pc = "search" /\ r.kind = visit[v].kind /\ r.name = visit[v].name
          /\ r.of = visit[v].of /\ r.known = known
      BY <2>2, SearchingVisit
    <2> HIDE DEF r
    <2>4. VisitOK(r, detail')
      BY <1>2, <2>2, <2>3 DEF VisitOK
    <2> QED BY <2>1, <2>3, <2>4, BecomeOK
  <1> QED BY <1>1, <1>2

(* A visit begins with nothing read: where it begins depends on what it     *)
(* knows.                                                                   *)
LEMMA StartOK ==
  ASSUME IInv, NEW v \in Visits, NEW kind \in {"page", "top", "album"}, NEW pc \in Steps,
         NEW n \in Names \cup {NoAct}, NEW k \in Pages \cup {NoAct}, NEW t \in Titles,
         Start(v, kind, pc, n, k, t),
         \/ kind = "page" /\ pc = "resolve"
         \/ kind = "page" /\ pc = "read" /\ k \in Pages
         \/ kind = "top" /\ pc = "read" /\ k \in Acts /\ n \in Names
         \/ kind = "top" /\ pc = "search" /\ k = NoAct /\ n \in Names
         \/ kind = "album" /\ pc \in {"album", "tracks"} /\ k \in Acts \cup {NoAct} /\ n \in Names
  PROVE  IInv'
  <1> DEFINE r == [pc |-> pc, kind |-> kind, name |-> n, of |-> k, title |-> t, page |-> 0,
                   count |-> 0, known |-> {}, stored |-> FALSE]
  <1>1. Become(v, r) /\ UNCHANGED <<detail, top, sample, tracklist>>
    BY DEF Start
  <1>2. 0 \in 0 .. MaxPages
    BY PagesAssumption DEF ConstantsAssumption
  <1>3. r \in Visit
    BY <1>2 DEF Visit
  <1>4. /\ r.pc = pc /\ r.kind = kind /\ r.name = n /\ r.of = k /\ r.page = 0 /\ r.count = 0
        /\ r.known = {} /\ ~r.stored
    OBVIOUS
  <1> HIDE DEF r
  <1>5. VisitOK(r, detail)
    BY <1>4 DEF VisitOK, Pages
  <1>6. VisitInv'
    BY <1>1, <1>3, <1>5, BecomeOK DEF IInv
  <1> QED BY <1>1, <1>6 DEF IInv, DetailInv, SampleInv, ListInv

(* SearchArtistMBID finds the act of a page, or the page fails.             *)
LEMMA ResolveOK ==
  ASSUME IInv, NEW v \in Visits, Resolve(v)
  PROVE  IInv'
  <1> DEFINE w == visit[v]
  <1>1. w \in Visit /\ VisitOK(w, detail) /\ w.pc = "resolve"
    BY InHand DEF IInv, Resolve
  <1>2. UNCHANGED <<detail, top, sample, tracklist>>
    BY DEF Resolve
  <1>3. VisitInv'
    <2>1. CASE Goto(v, "error")
      BY <1>1, <1>2, <2>1, ErrorOK DEF IInv, VisitOK
    <2>2. ASSUME NEW a \in Acts, Become(v, [w EXCEPT !.of = a, !.pc = "read"])
          PROVE  VisitInv'
      <3> DEFINE r == [w EXCEPT !.of = a, !.pc = "read"]
      <3>1. a \in Pages
        BY DEF Pages
      <3> HIDE DEF w
      <3>2. /\ r \in Visit /\ r.pc = "read" /\ r.kind = w.kind /\ r.of = a /\ r.page = w.page
            /\ r.count = w.count /\ r.known = w.known /\ r.stored = w.stored
        BY <1>1, <3>1, ResolvedVisit
      <3> HIDE DEF r
      <3>3. VisitOK(r, detail)
        BY <1>1, <3>1, <3>2 DEF VisitOK
      <3>4. Become(v, r)
        BY <2>2 DEF r
      <3> QED BY <1>2, <3>2, <3>3, <3>4, BecomeOK DEF IInv
    <2> QED BY <2>1, <2>2 DEF Resolve
  <1> QED BY <1>2, <1>3 DEF IInv, DetailInv, SampleInv, ListInv

(* What a cached page is.                                                   *)
LEMMA CachedPage ==
  ASSUME DetailInv, NEW k \in Pages, detail[k] # NoDetail
  PROVE  /\ detail[k] \in Detail /\ detail[k].of = k /\ detail[k].count \in Nat
         /\ Enough(k, detail[k].count)
  <1>1. detail[k] \in Detail
    BY DEF DetailInv
  <1> QED BY <1>1 DEF DetailInv, DetailOK, Detail

(* A fresh page is used; else its release groups are fetched.               *)
LEMMA ReadDetailOK ==
  ASSUME IInv, NEW v \in Visits, ReadDetail(v)
  PROVE  IInv'
  <1> DEFINE w == visit[v]
             d == detail[w.of]
  <1>1. w \in Visit /\ VisitOK(w, detail) /\ w.pc = "read"
    BY InHand DEF IInv, ReadDetail
  <1>2. UNCHANGED <<detail, top, sample, tracklist>>
    BY DEF ReadDetail
  <1>3. /\ w.of \in Pages /\ w.known = {} /\ w.page = 0 /\ w.count = 0
        /\ w.kind = "page" \/ (w.kind = "top" /\ w.of \in Acts /\ w.name \in Names)
    BY <1>1 DEF VisitOK
  <1>4. VisitInv'
    <2>1. CASE d.age = "fresh"
      <3>1. d # NoDetail
        BY <2>1 DEF NoDetail
      <3>2. d.of = w.of /\ d.count \in Nat /\ Enough(w.of, d.count)
        BY <1>3, <3>1, CachedPage DEF IInv
      <3>3. Have(v, w.of, d.count)
        BY <2>1, <3>2 DEF ReadDetail
      <3> QED BY <1>1, <1>2, <1>3, <3>2, <3>3, HaveOK DEF IInv
    <2>2. CASE d.age # "fresh"
      <3> DEFINE b == d # NoDetail
                 r == [w EXCEPT !.pc = "fetch", !.stored = b]
      <3>1. Become(v, r)
        BY <2>2 DEF ReadDetail
      <3>2. b \in BOOLEAN
        OBVIOUS
      <3>3. b => d # NoDetail
        OBVIOUS
      <3> HIDE DEF w, b
      <3>4. /\ r \in Visit /\ r.pc = "fetch" /\ r.kind = w.kind /\ r.name = w.name /\ r.of = w.of
            /\ r.page = w.page /\ r.count = w.count /\ r.known = w.known /\ r.stored = b
        BY <1>1, <3>2, FetchingVisit
      <3> HIDE DEF r
      <3>5. Len(Groups[w.of]) \in Nat /\ MaxPages \in Nat \ {0}
        BY <1>3, GroupsType
      <3>6. VisitOK(r, detail)
        BY <1>3, <3>3, <3>4, <3>5 DEF VisitOK
      <3> QED BY <1>2, <3>1, <3>4, <3>6, BecomeOK DEF IInv
    <2> QED BY <2>1, <2>2
  <1> QED BY <1>2, <1>4 DEF IInv, DetailInv, SampleInv, ListInv

(* A page of ReleaseGroups is fetched, or is not.                           *)
LEMMA FetchPageOK ==
  ASSUME IInv, NEW v \in Visits, FetchPage(v)
  PROVE  IInv'
  <1> DEFINE w     == visit[v]
             k     == w.of
             left  == Len(Groups[k]) - w.count
             got   == IF left < PageLimit THEN left ELSE PageLimit
             count == w.count + got
             page  == w.page + 1
             last  == LastPage(k, count, got) \/ page = MaxPages
             pc    == IF last THEN "save" ELSE "fetch"
  <1>1. w \in Visit /\ VisitOK(w, detail) /\ w.pc = "fetch"
    BY InHand DEF IInv, FetchPage
  <1>2. UNCHANGED <<detail, top, sample, tracklist>>
    BY DEF FetchPage
  <1>3. /\ k \in Pages /\ w.known = {} /\ w.page < MaxPages /\ w.count <= Len(Groups[k])
        /\ w.page > 0 => Enough(k, w.count)
        /\ w.kind = "page" \/ (w.kind = "top" /\ k \in Acts /\ w.name \in Names)
        /\ w.stored => detail[k] # NoDetail
    BY <1>1 DEF VisitOK
  <1>4. w.count \in Nat /\ w.page \in 0 .. MaxPages
    BY <1>1, VisitFields
  <1>5. MaxPages \in Nat \ {0}
    BY <1>3, GroupsType
  <1>6. VisitInv'
    <2>1. CASE Become(v, [w EXCEPT !.count = count, !.page = page, !.pc = pc])
      <3> DEFINE r == [w EXCEPT !.count = count, !.page = page, !.pc = pc]
      <3>1. count \in Nat /\ count <= Len(Groups[k]) /\ Enough(k, count)
        BY <1>3, <1>4, PageAdded
      <3>2. page \in 0 .. MaxPages /\ page > 0 /\ (pc = "fetch" => page < MaxPages)
        <4> HIDE DEF w
        <4> QED BY <1>3, <1>4, <1>5
      <3>3. pc \in Steps /\ pc \in {"save", "fetch"}
        BY DEF Steps
      <3> HIDE DEF w, k, count, page, pc
      <3>4. /\ r \in Visit /\ r.pc = pc /\ r.kind = w.kind /\ r.name = w.name /\ r.of = w.of
            /\ r.page = page /\ r.count = count /\ r.known = w.known /\ r.stored = w.stored
        <4>1. w \in Visit
          BY <1>1
        <4>2. count \in Nat /\ page \in 0 .. MaxPages /\ pc \in Steps
          BY <3>1, <3>2, <3>3
        <4> QED BY <4>1, <4>2 DEF Visit, Steps
      <3>5. Become(v, r)
        BY <2>1 DEF w, k, count, page, pc
      <3> HIDE DEF r
      <3>6. VisitOK(r, detail)
        BY <1>3, <3>1, <3>2, <3>3, <3>4 DEF VisitOK, k
      <3> QED BY <1>2, <3>4, <3>5, <3>6, BecomeOK DEF IInv
    <2>2. CASE Goto(v, IF w.page = 0 THEN "fallback" ELSE "save")
      <3> DEFINE to == IF w.page = 0 THEN "fallback" ELSE "save"
                 r == [w EXCEPT !.pc = to]
      <3>1. to \in Steps /\ to \in {"fallback", "save"} /\ (to = "save" => Enough(k, w.count))
        <4>1. w.page # 0 => w.page > 0
          <5> HIDE DEF w
          <5> QED BY <1>4, <1>5
        <4> QED BY <1>3, <4>1 DEF Steps
      <3>2. Become(v, r)
        BY <2>2 DEF Goto
      <3> HIDE DEF w, k, to
      <3>3. /\ r \in Visit /\ r.pc = to /\ r.kind = w.kind /\ r.name = w.name /\ r.of = w.of
            /\ r.count = w.count /\ r.known = w.known /\ r.stored = w.stored
        BY <1>1, <3>1, GotoVisit
      <3> HIDE DEF r
      <3>4. VisitOK(r, detail)
        BY <1>3, <3>1, <3>3 DEF VisitOK, k
      <3> QED BY <1>2, <3>2, <3>3, <3>4, BecomeOK DEF IInv
    <2> QED BY <2>1, <2>2 DEF FetchPage
  <1> QED BY <1>2, <1>6 DEF IInv, DetailInv, SampleInv, ListInv

(* MusicBrainz is down: the stale page is used, when there is one.          *)
LEMMA FallbackOK ==
  ASSUME IInv, NEW v \in Visits, Fallback(v)
  PROVE  IInv'
  <1> DEFINE w == visit[v]
             d == detail[w.of]
  <1>1. w \in Visit /\ VisitOK(w, detail) /\ w.pc = "fallback"
    BY InHand DEF IInv, Fallback
  <1>2. UNCHANGED <<detail, top, sample, tracklist>>
    BY DEF Fallback
  <1>3. /\ w.of \in Pages /\ w.known = {} /\ (w.stored => d # NoDetail)
        /\ w.kind = "page" \/ (w.kind = "top" /\ w.of \in Acts /\ w.name \in Names)
    BY <1>1 DEF VisitOK
  <1>4. VisitInv'
    <2>1. CASE d # NoDetail
      <3>1. d.of = w.of /\ d.count \in Nat /\ Enough(w.of, d.count)
        BY <1>3, <2>1, CachedPage DEF IInv
      <3>2. Have(v, w.of, d.count)
        BY <2>1, <3>1 DEF Fallback
      <3> QED BY <1>1, <1>2, <1>3, <3>1, <3>2, HaveOK DEF IInv
    <2>2. CASE d = NoDetail
      <3>1. Failed(v) /\ ~w.stored
        BY <1>3, <2>2 DEF Fallback
      <3>2. CASE w.kind = "page"
        <4>1. Goto(v, "error")
          BY <3>1, <3>2 DEF Failed
        <4> QED BY <1>1, <1>2, <3>1, <4>1, ErrorOK DEF IInv
      <3>3. CASE w.kind # "page"
        <4> DEFINE r == [w EXCEPT !.pc = "search"]
        <4>1. Become(v, r)
          BY <3>1, <3>3 DEF Failed, Goto
        <4>2. "search" \in Steps
          BY DEF Steps
        <4> HIDE DEF w
        <4>3. /\ r \in Visit /\ r.pc = "search" /\ r.kind = w.kind /\ r.name = w.name /\ r.of = w.of
              /\ r.known = w.known /\ r.stored = w.stored
          BY <1>1, <4>2, GotoVisit
        <4> HIDE DEF r
        <4>4. VisitOK(r, detail)
          BY <1>3, <3>1, <3>3, <4>3 DEF VisitOK
        <4> QED BY <1>2, <4>1, <4>3, <4>4, BecomeOK DEF IInv
      <3> QED BY <3>2, <3>3
    <2> QED BY <2>1, <2>2
  <1> QED BY <1>2, <1>4 DEF IInv, DetailInv, SampleInv, ListInv

(* What was fetched is cached, and is at hand.                              *)
LEMMA SaveDetailOK ==
  ASSUME IInv, NEW v \in Visits, SaveDetail(v)
  PROVE  IInv'
  <1> DEFINE w == visit[v]
             k == w.of
             d == [of |-> k, count |-> w.count, age |-> "fresh"]
  <1>1. w \in Visit /\ VisitOK(w, detail) /\ w.pc = "save"
    BY InHand DEF IInv, SaveDetail
  <1>2. /\ UNCHANGED <<top, sample, tracklist>> /\ detail' = [detail EXCEPT ![k] = d]
        /\ Have(v, k, w.count)
    BY DEF SaveDetail
  <1>3. /\ k \in Pages /\ Enough(k, w.count)
        /\ w.kind = "page" \/ (w.kind = "top" /\ k \in Acts /\ w.name \in Names)
    BY <1>1 DEF VisitOK
  <1>4. w.count \in Nat
    BY <1>1, VisitFields
  <1>5. d \in Detail /\ d.of = k /\ d.count = w.count /\ d # NoDetail
    BY <1>3, <1>4 DEF Detail, NoDetail
  <1> HIDE DEF d
  <1>6. DetailInv'
    BY <1>2, <1>3, <1>5 DEF IInv, DetailInv, DetailOK
  <1>7. \A p \in Pages : detail[p] # NoDetail => detail'[p] # NoDetail
    BY <1>2, <1>5 DEF IInv, DetailInv
  <1>8. VisitInv'
    BY <1>1, <1>2, <1>3, <1>4, <1>7, HaveOK DEF IInv
  <1> QED BY <1>2, <1>6, <1>8 DEF IInv, SampleInv, ListInv

(* The caches, or none of the entries when there were too many.             *)
LEMMA KeptOK ==
  ASSUME SampleInv
  PROVE  /\ TopsOK(IF Full THEN [e \in Tops |-> NoEntry] ELSE top)
         /\ SamplesOK(IF Full THEN [a \in Albums |-> NoSample] ELSE sample)
  BY EmptyOK DEF SampleInv

(* Samples are searched and cached, or the search fails.                    *)
LEMMA SearchOK ==
  ASSUME IInv, NEW v \in Visits, Search(v)
  PROVE  IInv'
  <1> DEFINE w == visit[v]
  <1>1. w \in Visit /\ VisitOK(w, detail) /\ w.pc = "search"
    BY InHand DEF IInv, Search
  <1>2. UNCHANGED <<detail, tracklist>>
    BY DEF Search
  <1>3. /\ w.kind = "top" /\ w.name \in Names /\ w.of \in Acts \cup {NoAct}
        /\ w.known # {} => w.of \in Acts /\ w.known \subseteq Discography(w.of)
    BY <1>1 DEF VisitOK
  <1>4. w.known \in SUBSET Titles
    BY <1>1, VisitFields
  <1>5. CASE Goto(v, "error") /\ UNCHANGED <<top, sample>>
    <2>1. VisitInv'
      BY <1>1, <1>2, <1>3, <1>5, ErrorOK DEF IInv
    <2> QED BY <1>2, <1>5, <2>1 DEF IInv, DetailInv, SampleInv, ListInv
  <1>6. CASE Answer(v) /\ ~(Goto(v, "error") /\ UNCHANGED <<top, sample>>)
    <2> DEFINE tops    == IF Full THEN [e \in Tops |-> NoEntry] ELSE top
               samples == IF Full THEN [a \in Albums |-> NoSample] ELSE sample
               tracks(failed) == IF w.of = NoAct THEN TopPreviews(w.name)
                                 ELSE TopPreviewsFor(w.name, w.known, failed)
               entry(failed)  == [tracks |-> tracks(failed), checked |-> w.known # {}, there |-> TRUE]
    <2>1. PICK failed \in SUBSET Named(w.name) :
            /\ top' = [tops EXCEPT ![<<w.name, w.of>>] = entry(failed)] /\ sample' = samples
      BY <1>6 DEF Search
    <2>2. TopsOK(tops) /\ SamplesOK(samples)
      BY KeptOK DEF IInv
    <2>3. tracks(failed) \subseteq Titles
      BY <1>3, <1>4, TopPreviewsTitles
    <2>4. w.known # {} => w.of \in Acts /\ tracks(failed) \subseteq Discography(w.of)
      <3>1. NoAct \notin Acts
        BY PagesAssumption DEF ConstantsAssumption, Pages
      <3> QED BY <1>3, <3>1, TopPreviewsKnown
    <2> DEFINE e == entry(failed)
    <2>5. /\ e \in Entry \cup {NoEntry}
          /\ e.checked => w.of \in Acts /\ e.tracks \subseteq Discography(w.of)
      <3> HIDE DEF w, tracks
      <3> QED BY <2>3, <2>4 DEF Entry
    <2>6. TopsOK(top')
      <3> HIDE DEF w, tops, e
      <3>1. top' = [tops EXCEPT ![<<w.name, w.of>>] = e]
        BY <2>1 DEF e
      <3> QED BY <1>3, <2>2, <2>5, <3>1, TopCached
    <2>7. SamplesOK(sample')
      BY <2>1, <2>2
    <2>8. VisitInv'
      BY <1>2, <1>6, AnswerOK DEF IInv
    <2> QED BY <1>2, <2>6, <2>7, <2>8 DEF IInv, DetailInv, SampleInv, ListInv
  <1> QED BY <1>5, <1>6 DEF Search

(* AlbumTrackList goes on to MusicBrainz without samples,                   *)
LEMMA TracksOK ==
  ASSUME VisitInv, NEW v \in Visits, visit[v].pc = "album", Goto(v, "tracks"), UNCHANGED detail
  PROVE  VisitInv'
  <1> DEFINE w == visit[v]
             r == [w EXCEPT !.pc = "tracks"]
  <1>1. w \in Visit /\ VisitOK(w, detail)
    BY InHand
  <1>2. "tracks" \in Steps
    BY DEF Steps
  <1>3. Become(v, r)
    BY DEF Goto
  <1>4. w.pc = "album"
    OBVIOUS
  <1> HIDE DEF w
  <1>5. r \in Visit /\ r.pc = "tracks" /\ r.kind = w.kind /\ r.name = w.name /\ r.of = w.of
    BY <1>1, <1>2, GotoVisit
  <1> HIDE DEF r
  <1>6. VisitOK(r, detail)
    BY <1>1, <1>4, <1>5 DEF VisitOK
  <1> QED BY <1>3, <1>5, <1>6, BecomeOK

(* which it looks for first.                                                *)
LEMMA SampleAlbumOK ==
  ASSUME IInv, NEW v \in Visits, SampleAlbum(v)
  PROVE  IInv'
  <1> DEFINE w       == visit[v]
             found   == Verified(w.name, w.title)
             first   == Releases[w.title][Min(found)]
             entry   == IF found = {} THEN Nothing
                        ELSE [name |-> first.name, title |-> first.title, there |-> TRUE]
             tops    == IF Full THEN [e \in Tops |-> NoEntry] ELSE top
             samples == IF Full THEN [a \in Albums |-> NoSample] ELSE sample
  <1>1. w \in Visit /\ VisitOK(w, detail) /\ w.pc = "album"
    BY InHand DEF IInv, SampleAlbum
  <1>2. UNCHANGED <<detail, tracklist>>
    BY DEF SampleAlbum
  <1>3. w.name \in Names /\ w.title \in Titles
    BY <1>1, VisitFields DEF VisitOK
  <1>4. VisitInv'
    <2>1. Goto(v, "tracks") \/ Answer(v)
      BY DEF SampleAlbum
    <2> QED BY <1>1, <1>2, <2>1, TracksOK, AnswerOK DEF IInv
  <1>5. SampleInv'
    <2>1. CASE UNCHANGED <<top, sample>>
      BY <2>1 DEF IInv, SampleInv
    <2>2. CASE sample' = [samples EXCEPT ![<<w.name, w.title>>] = entry] /\ top' = tops
      <3>1. TopsOK(tops) /\ SamplesOK(samples)
        BY KeptOK DEF IInv
      <3>2. Nothing \notin Sample
        <4>1. NoAct \notin Names
          BY PagesAssumption DEF ConstantsAssumption
        <4> QED BY <4>1 DEF Nothing, Sample
      <3>3. found # {} => first.name = w.name /\ first.title = w.title
        BY <1>3, VerifiedFirst
      <3> HIDE DEF w, found, first
      <3>4. /\ entry \in Sample \cup {NoSample, Nothing}
            /\ entry \in Sample => entry.name = w.name /\ entry.title = w.title
        <4>1. CASE found = {}
          BY <3>2, <4>1
        <4>2. CASE found # {}
          <5>1. entry = [name |-> w.name, title |-> w.title, there |-> TRUE]
            BY <3>3, <4>2
          <5> HIDE DEF entry
          <5> QED BY <1>3, <5>1 DEF Sample
        <4> QED BY <4>1, <4>2
      <3> HIDE DEF entry, samples, tops
      <3>5. SamplesOK(sample')
        BY <1>3, <2>2, <3>1, <3>4, SampleCached
      <3>6. TopsOK(top')
        BY <2>2, <3>1
      <3> QED BY <3>5, <3>6 DEF SampleInv
    <2> QED BY <2>1, <2>2 DEF SampleAlbum
  <1> QED BY <1>2, <1>4, <1>5 DEF IInv, DetailInv, ListInv

(* A track list is kept under the act's release group.                      *)
LEMMA ListTracksOK ==
  ASSUME IInv, NEW v \in Visits, ListTracks(v)
  PROVE  IInv'
  <1> DEFINE w == visit[v]
  <1>1. w \in Visit /\ VisitOK(w, detail) /\ w.pc = "tracks"
    BY InHand DEF IInv, ListTracks
  <1>2. UNCHANGED <<detail, top, sample>>
    BY DEF ListTracks
  <1>3. w.kind = "album" /\ w.of \in Acts \cup {NoAct} /\ w.title \in Titles
    BY <1>1, VisitFields DEF VisitOK
  <1>4. VisitInv'
    <2>1. Goto(v, "error") \/ Answer(v)
      BY DEF ListTracks
    <2> QED BY <1>1, <1>2, <1>3, <2>1, ErrorOK, AnswerOK DEF IInv
  <1>5. ListInv'
    <2>1. \/ UNCHANGED tracklist
          \/ w.of # NoAct /\ tracklist' = tracklist \cup {<<w.of, w.title>>}
      BY DEF ListTracks
    <2> QED BY <1>3, <2>1 DEF IInv, ListInv
  <1> QED BY <1>2, <1>4, <1>5 DEF IInv, DetailInv, SampleInv

(* The step of a visit.                                                     *)
LEMMA StepOK ==
  ASSUME IInv, NEW v \in Visits, Step(v)
  PROVE  IInv'
  BY ResolveOK, ReadDetailOK, FetchPageOK, FallbackOK, SaveDetailOK, SearchOK, SampleAlbumOK,
     ListTracksOK DEF Step

(* An error page is answered as well.                                       *)
LEMMA CloseOK ==
  ASSUME IInv, NEW v \in Visits, Close(v)
  PROVE  IInv'
  <1>1. Answer(v) /\ UNCHANGED <<detail, top, sample, tracklist>>
    BY DEF Close
  <1>2. VisitInv'
    BY <1>1, AnswerOK DEF IInv
  <1> QED BY <1>1, <1>2 DEF IInv, DetailInv, SampleInv, ListInv
-----------------------------------------------------------------------------
(* Visits begin, and the caches age.                                        *)

(* A visit of a page,                                                       *)
LEMMA OpenPageOK ==
  ASSUME IInv, NEW v \in Visits,
         (\E a \in Acts : OpenPage(v, Name[a])) \/ (\E k \in Pages : OpenKnown(v, k))
  PROVE  IInv'
  <1>1. Foreign \in Titles /\ \A a \in Acts : Name[a] \in Names
    BY PagesAssumption DEF ConstantsAssumption
  <1>2. "resolve" \in Steps /\ "read" \in Steps
    BY DEF Steps
  <1> QED BY <1>1, <1>2, StartOK DEF OpenPage, OpenKnown

(* of samples,                                                              *)
LEMMA OpenTopOK ==
  ASSUME IInv, NEW v \in Visits, NEW a \in Acts, NEW k \in {a, NoAct}, OpenTop(v, Name[a], k)
  PROVE  IInv'
  <1>1. Foreign \in Titles /\ Name[a] \in Names /\ NoAct \notin Acts
    BY PagesAssumption DEF ConstantsAssumption, Pages
  <1>2. "search" \in Steps /\ "read" \in Steps
    BY DEF Steps
  <1>3. k \in Pages \cup {NoAct} /\ a \in Pages
    BY DEF Pages
  <1>4. CASE k = NoAct
    <2>1. Start(v, "top", "search", Name[a], k, Foreign)
      BY <1>4 DEF OpenTop
    <2> QED BY <1>1, <1>2, <1>3, <1>4, <2>1, StartOK
  <1>5. CASE k # NoAct
    <2>1. Start(v, "top", "read", Name[a], k, Foreign)
      BY <1>5 DEF OpenTop
    <2> QED BY <1>1, <1>2, <1>3, <1>5, <2>1, StartOK
  <1> QED BY <1>4, <1>5

(* or of an album.                                                          *)
LEMMA OpenAlbumOK ==
  ASSUME IInv, NEW v \in Visits, NEW a \in Acts, NEW t \in Wanted, NEW k \in {a, NoAct},
         OpenAlbum(v, Name[a], t, k)
  PROVE  IInv'
  <1>1. t \in Titles /\ Name[a] \in Names
    BY PagesAssumption DEF ConstantsAssumption
  <1>2. "album" \in Steps /\ "tracks" \in Steps
    BY DEF Steps
  <1>3. k \in Pages \cup {NoAct} /\ k \in Acts \cup {NoAct}
    BY DEF Pages
  <1>4. Start(v, "album", "tracks", Name[a], k, t) \/ Start(v, "album", "album", Name[a], k, t)
    BY DEF OpenAlbum
  <1> QED BY <1>1, <1>2, <1>3, <1>4, StartOK

(* A page that is no longer fresh is still there.                           *)
LEMMA AgeOK ==
  ASSUME IInv, NEW k \in Pages, Age(k)
  PROVE  IInv'
  <1> DEFINE d == detail[k]
             e == [d EXCEPT !.age = "stale"]
  <1>1. UNCHANGED <<top, sample, tracklist, visit>> /\ detail' = [detail EXCEPT ![k] = e]
    BY DEF Age
  <1>2. d # NoDetail
    BY DEF Age, NoDetail
  <1>3. d \in Detail /\ DetailOK(k, d)
    BY <1>2 DEF IInv, DetailInv
  <1>4. e \in Detail /\ e # NoDetail /\ e.of = d.of /\ e.count = d.count
    BY <1>3 DEF Detail, NoDetail
  <1> HIDE DEF e
  <1>5. DetailInv'
    <2>1. DetailOK(k, e)
      BY <1>2, <1>3, <1>4 DEF DetailOK
    <2> QED BY <1>1, <1>4, <2>1 DEF IInv, DetailInv
  <1>6. VisitInv'
    <2>1. \A p \in Pages : detail[p] # NoDetail => detail'[p] # NoDetail
      BY <1>1, <1>4 DEF IInv, DetailInv
    <2>2. ASSUME NEW v \in Visits PROVE VisitOK(visit[v], detail')
      <3>1. VisitOK(visit[v], detail)
        BY DEF IInv, VisitInv
      <3> QED BY <2>1, <3>1, PagesKept
    <2> QED BY <1>1, <2>2 DEF IInv, VisitInv
  <1> QED BY <1>1, <1>5, <1>6 DEF IInv, SampleInv, ListInv

(* A page that expires is not: who was about to fall back on it cannot.     *)
LEMMA ExpireOK ==
  ASSUME IInv, NEW k \in Pages, Expire(k)
  PROVE  IInv'
  <1> DEFINE Affected(v) == visit[v].pc \in {"fetch", "fallback"} /\ visit[v].of = k
             expired(v)  == [visit[v] EXCEPT !.stored = FALSE]
  <1>1. /\ UNCHANGED <<top, sample, tracklist>> /\ detail' = [detail EXCEPT ![k] = NoDetail]
        /\ visit' = [v \in Visits |-> IF Affected(v) THEN expired(v) ELSE visit[v]]
    BY DEF Expire
  <1>2. DetailInv'
    BY <1>1 DEF IInv, DetailInv, DetailOK
  <1>3. ASSUME NEW v \in Visits
        PROVE  visit'[v] \in Visit \cup {Idle} /\ VisitOK(visit'[v], detail')
    <2> DEFINE w == visit[v]
    <2>0. w \in Visit \cup {Idle} /\ VisitOK(w, detail)
      BY DEF IInv, VisitInv
    <2>1. CASE Affected(v)
      <3> DEFINE r == [w EXCEPT !.stored = FALSE]
      <3>1. visit'[v] = r
        BY <1>1, <2>1
      <3>2. w \in Visit
        BY <2>1, InHand DEF IInv
      <3>3. w.pc \in {"fetch", "fallback"}
        BY <2>1
      <3> HIDE DEF w
      <3>4. /\ r \in Visit /\ r.pc = w.pc /\ r.kind = w.kind /\ r.name = w.name /\ r.of = w.of
            /\ r.page = w.page /\ r.count = w.count /\ r.known = w.known /\ ~r.stored
        BY <3>2, ExpiredVisit
      <3> HIDE DEF r
      <3>5. VisitOK(r, detail')
        BY <2>0, <3>3, <3>4 DEF VisitOK
      <3> QED BY <3>1, <3>4, <3>5
    <2>2. CASE ~Affected(v)
      <3>1. visit'[v] = w
        BY <1>1, <2>2
      <3>2. w.pc \in {"fetch", "fallback"} => w.of # k
        BY <2>2
      <3>3. \A p \in Pages : p # k => detail'[p] = detail[p]
        BY <1>1 DEF IInv, DetailInv
      <3> HIDE DEF w
      <3>4. VisitOK(w, detail')
        BY <2>0, <3>2, <3>3 DEF VisitOK
      <3> QED BY <2>0, <3>1, <3>4
    <2> QED BY <2>1, <2>2
  <1>4. VisitInv'
    <2>1. visit' = [v \in Visits |-> visit'[v]]
      BY <1>1
    <2> QED BY <1>3, <2>1 DEF VisitInv
  <1> QED BY <1>1, <1>2, <1>4 DEF IInv, SampleInv, ListInv

(* Samples are forgotten, and track lists.                                  *)
LEMMA HalfDayOK ==
  ASSUME IInv, HalfDay
  PROVE  IInv'
  <1>1. UNCHANGED <<detail, tracklist, visit>>
    BY DEF HalfDay
  <1>2. ASSUME NEW e \in Tops, top' = [top EXCEPT ![e] = NoEntry], UNCHANGED sample
        PROVE  SampleInv'
    <2>1. PICK n \in Names, k \in Acts \cup {NoAct} : e = <<n, k>>
      BY DEF Tops
    <2>2. ~NoEntry.checked
      BY DEF NoEntry
    <2> QED BY <1>2, <2>1, <2>2, TopCached DEF IInv, SampleInv
  <1>3. ASSUME NEW a \in Albums, sample' = [sample EXCEPT ![a] = NoSample], UNCHANGED top
        PROVE  SampleInv'
    <2>1. PICK n \in Names, t \in Titles : a = <<n, t>>
      BY DEF Albums
    <2>2. NoSample \notin Sample
      BY DEF NoSample, Sample
    <2> QED BY <1>3, <2>1, <2>2, SampleCached DEF IInv, SampleInv
  <1>4. SampleInv'
    BY <1>2, <1>3 DEF HalfDay
  <1> QED BY <1>1, <1>4 DEF IInv, DetailInv, VisitInv, ListInv

LEMMA MonthOK ==
  ASSUME IInv, Month
  PROVE  IInv'
  BY DEF IInv, DetailInv, VisitInv, SampleInv, ListInv, Month
-----------------------------------------------------------------------------
(* The invariant holds when nothing is cached and nobody visits,            *)
LEMMA InitOK == Init => IInv
  <1> SUFFICES ASSUME Init PROVE IInv
    OBVIOUS
  <1>1. DetailInv
    BY DEF Init, DetailInv, DetailOK
  <1>2. VisitInv
    BY IdleOK DEF Init, VisitInv
  <1>3. SampleInv
    BY EmptyOK DEF Init, SampleInv
  <1>4. ListInv
    BY DEF Init, ListInv
  <1> QED BY <1>1, <1>2, <1>3, <1>4 DEF IInv

(* and after every step.                                                    *)
LEMMA NextOK == IInv /\ [Next]_vars => IInv'
  <1> SUFFICES ASSUME IInv, [Next]_vars PROVE IInv'
    OBVIOUS
  <1>0. Listeners \subseteq Visits
    BY PagesAssumption DEF ConstantsAssumption
  <1>1. ASSUME NEW v \in Visits \ Listeners, NEW k \in Pages, OpenKnown(v, k) PROVE IInv'
    BY <1>1, OpenPageOK
  <1>2. ASSUME NEW v \in Visits \ Listeners, NEW a \in Acts, OpenPage(v, Name[a]) PROVE IInv'
    BY <1>2, OpenPageOK
  <1>3. ASSUME NEW v \in Listeners, NEW a \in Acts,
               OpenTop(v, Name[a], a) \/ OpenTop(v, Name[a], NoAct)
        PROVE  IInv'
    BY <1>0, <1>3, OpenTopOK
  <1>4. ASSUME NEW v \in Listeners, NEW a \in Acts, NEW t \in Wanted,
               OpenAlbum(v, Name[a], t, NoAct) \/ OpenAlbum(v, Name[a], t, a)
        PROVE  IInv'
    BY <1>0, <1>4, OpenAlbumOK
  <1>5. ASSUME NEW v \in Visits, Step(v) \/ Close(v) PROVE IInv'
    BY <1>5, StepOK, CloseOK
  <1>6. ASSUME NEW k \in Pages, Age(k) \/ Expire(k) PROVE IInv'
    BY <1>6, AgeOK, ExpireOK
  <1>7. CASE HalfDay \/ Month
    BY <1>7, HalfDayOK, MonthOK
  <1>8. CASE UNCHANGED vars
    BY <1>8 DEF vars, IInv, DetailInv, VisitInv, SampleInv, ListInv
  <1> QED BY <1>1, <1>2, <1>3, <1>4, <1>5, <1>6, <1>7, <1>8 DEF Next

(* However visits interleave, fail and outlive what they read, the          *)
(* inductive invariant holds.                                               *)
THEOREM PagesInvariance == Spec => []IInv
  BY InitOK, NextOK, PTL DEF Spec

(* The caches and the local variables of the handlers are as the code       *)
(* declares them.                                                           *)
THEOREM PagesTypes == Spec => []TypeOK
  <1>1. IInv => TypeOK
    BY DEF IInv, DetailInv, VisitInv, SampleInv, ListInv, TopsOK, SamplesOK, TypeOK
  <1> QED BY <1>1, PagesInvariance, PTL

(* A stale page beats an error page, and an unchecked sample: a page fails  *)
(* for want of a discography only when none is in the cache at that moment, *)
(* and an artist's samples are searched without titles only then, or when   *)
(* the first page of the discography has none (GetArtistDetail, Previews).  *)
THEOREM StaleUsed == Spec => []StaleBeatsError
  <1>1. ASSUME IInv, NEW v \in Visits
        PROVE  /\ visit[v].pc = "error" /\ visit[v].kind = "page" => ~visit[v].stored
               /\ visit[v].pc = "search" /\ visit[v].stored =>
                    visit[v].known # {} \/ TitlesOf(visit[v].of, PageLimit) \subseteq {Foreign}
    <2>1. VisitOK(visit[v], detail)
      BY <1>1 DEF IInv, VisitInv
    <2> QED BY <2>1 DEF VisitOK
  <1>2. IInv => StaleBeatsError
    BY <1>1 DEF StaleBeatsError
  <1> QED BY <1>2, PagesInvariance, PTL

(* Whatever Deezer files under a name and whichever profiles answer, what   *)
(* is cached under an act's MBID after a comparison with its discography is *)
(* of its releases, and an album's sample is of that artist's album of that *)
(* title (TopPreviewsFor, AlbumPreviews).                                   *)
THEOREM TracksOwn == Spec => []OwnTracks
  <1>1. IInv => OwnTracks
    BY DEF IInv, SampleInv, TopsOK, SamplesOK, OwnTracks
  <1> QED BY <1>1, PagesInvariance, PTL
=============================================================================
