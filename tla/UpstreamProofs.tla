--------------------------- MODULE UpstreamProofs ---------------------------
(***************************************************************************)
(* Theorems about what is asked of other services in the background: the   *)
(* limiter all calls share (RateLimiter), for any number of calls and any  *)
(* times, and the pictures the worker looks up (ArtistImages), for any     *)
(* acts, names and answers.                                                *)
(***************************************************************************)
EXTENDS RateLimiter, ArtistImages, TLAPS, FiniteSetTheorems, WellFoundedInduction

-----------------------------------------------------------------------------
(* The limiter: the rate is kept.                                           *)

USE RateLimiterAssumption DEF LimiterConstants

(* The type of a call.  Its ranges have names so that a leaf about records  *)
(* need not know that they hold numbers.                                    *)
Times   == Int
Numbers == 1 .. Attempts
Call == [pc : {"idle", "reserve", "wait", "send", "backoff"}, attempt : Numbers,
         left : Times, context : Times]

LimiterTypes ==
  /\ ahead \in Int /\ ahead >= -Gap
  /\ quiet \in 0 .. Gap
  /\ call \in [Calls -> Call]

InQueue(c) == call[c].pc = "wait"

(* No timer is forgotten for more than Late ticks.                          *)
TimersOK == \A c \in Calls : InQueue(c) => call[c].left >= -Late

(* The slots of those who wait are a gap apart, and all before the next one.*)
SlotsApart ==
  /\ \A c \in Calls : InQueue(c) => call[c].left + Gap <= ahead
  /\ \A c, d \in Calls : c # d /\ InQueue(c) /\ InQueue(d) =>
       call[c].left + Gap <= call[d].left \/ call[d].left + Gap <= call[c].left

(* No slot comes too soon after the last request, whether somebody waits    *)
(* for it or it is still free.                                              *)
SlotsLater ==
  /\ \A c \in Calls : InQueue(c) => call[c].left + quiet >= Gap - Late
  /\ quiet = Gap \/ ahead + quiet >= Gap - Late

LimiterInv == LimiterTypes /\ TimersOK /\ SlotsApart /\ SlotsLater
-----------------------------------------------------------------------------
(* A step of a call that neither waits for a slot afterwards nor takes one. *)
LEMMA BesideOK ==
  ASSUME LimiterInv, NEW c \in Calls, NEW r \in Call, Become(c, r),
         r.pc # "wait", UNCHANGED <<ahead, quiet>>
  PROVE  LimiterInv'
  <1>1. /\ call' \in [Calls -> Call]
        /\ \A d \in Calls : InQueue(d)' => InQueue(d) /\ call'[d] = call[d]
    BY DEF Become, LimiterInv, LimiterTypes, InQueue
  <1>2. LimiterTypes'
    BY <1>1 DEF LimiterInv, LimiterTypes
  <1>3. TimersOK' /\ SlotsApart' /\ SlotsLater'
    BY <1>1 DEF LimiterInv, TimersOK, SlotsApart, SlotsLater
  <1>4. QED
    BY <1>2, <1>3 DEF LimiterInv

(* A call that found a free slot is a call.                                 *)
LEMMA SendsAtOnce ==
  ASSUME NEW q \in Call
  PROVE  /\ [q EXCEPT !.pc = "send"] \in Call
         /\ [q EXCEPT !.pc = "send"].pc = "send"
  BY DEF Call

(* So is one whose slot has come,                                           *)
LEMMA SendsNow ==
  ASSUME NEW q \in Call, NEW n \in Times
  PROVE  /\ [q EXCEPT !.pc = "send", !.left = n] \in Call
         /\ [q EXCEPT !.pc = "send", !.left = n].pc = "send"
  BY DEF Call

(* one that asks for a slot, after a backoff                                *)
LEMMA AsksAgain ==
  ASSUME NEW q \in Call, NEW n \in Times
  PROVE  /\ [q EXCEPT !.pc = "reserve", !.left = n] \in Call
         /\ [q EXCEPT !.pc = "reserve", !.left = n].pc = "reserve"
  BY DEF Call

(* or for the first time,                                                   *)
LEMMA AsksFirst ==
  ASSUME NEW q \in Call, NEW n \in Times
  PROVE  /\ [q EXCEPT !.pc = "reserve", !.context = n] \in Call
         /\ [q EXCEPT !.pc = "reserve", !.context = n].pc = "reserve"
  BY DEF Call

(* one that waits for its slot,                                             *)
LEMMA Waits ==
  ASSUME NEW q \in Call, NEW n \in Times
  PROVE  /\ [q EXCEPT !.pc = "wait", !.left = n] \in Call
         /\ [q EXCEPT !.pc = "wait", !.left = n].pc = "wait"
         /\ [q EXCEPT !.pc = "wait", !.left = n].left = n
  BY DEF Call

(* and one that backs off.                                                  *)
LEMMA BacksOff ==
  ASSUME NEW q \in Call, NEW n \in Times, NEW k \in Numbers
  PROVE  /\ [q EXCEPT !.pc = "backoff", !.left = n, !.attempt = k] \in Call
         /\ [q EXCEPT !.pc = "backoff", !.left = n, !.attempt = k].pc = "backoff"
  BY DEF Call

(* Zero and one are times and numbers.                                       *)
LEMMA SomeRanges == 0 \in Times /\ 1 \in Numbers /\ Forever \in Times
  BY DEF Times, Numbers, Attempts, Forever

(* Before the first call.                                                   *)
LEMMA LimiterInitOK == LimiterInit => LimiterInv
  <1> SUFFICES ASSUME LimiterInit PROVE LimiterInv
    OBVIOUS
  <1>1. \A c \in Calls : call[c].pc = "idle"
    BY DEF LimiterInit, Idle
  <1>2. LimiterTypes
    BY SomeRanges DEF LimiterInit, LimiterTypes, Idle, Call
  <1>3. QED
    BY <1>1, <1>2 DEF LimiterInit, LimiterInv, TimersOK, SlotsApart, SlotsLater, InQueue

(* The parts of a call.                                                     *)
LEMMA CallType ==
  ASSUME NEW c \in Calls, LimiterInv
  PROVE  call[c] \in Call /\ Idle \in Call
  BY SomeRanges DEF LimiterInv, LimiterTypes, Call, Idle

(* A call begins with nothing reserved.                                     *)
LEMMA BeginOK == ASSUME LimiterInv, NEW c \in Calls, NEW context \in 0 .. Forever, Begin(c, context)
                 PROVE  LimiterInv'
  <1> DEFINE r == [Idle EXCEPT !.pc = "reserve", !.context = context]
  <1>1. Idle \in Call /\ context \in Times
    BY CallType DEF Forever, Times
  <1>2. r \in Call /\ r.pc = "reserve"
    BY <1>1, AsksFirst
  <1>3. QED
    BY <1>2, BesideOK DEF Begin

(* A call that ends has nothing to keep to.                                 *)
LEMMA LeaveOK == ASSUME LimiterInv, NEW c \in Calls, GiveUp(c) \/ Answer(c) PROVE LimiterInv'
  BY CallType, BesideOK DEF GiveUp, Answer, Idle

(* A failed request backs off from now.                                     *)
LEMMA FailOK == ASSUME LimiterInv, NEW c \in Calls, Fail(c) PROVE LimiterInv'
  <1>1. CASE call[c].attempt = Attempts
    BY <1>1, CallType, BesideOK DEF Fail, Idle
  <1>2. CASE call[c].attempt # Attempts
    <2> DEFINE k == call[c].attempt
               n == k * Backoff
               m == k + 1
               r == [call[c] EXCEPT !.pc = "backoff", !.left = n, !.attempt = m]
    <2>1. call[c] \in Call /\ k \in Numbers
      BY CallType DEF Call
    <2>2. n \in Times /\ m \in Numbers
      BY <1>2, <2>1 DEF Times, Numbers, Attempts
    <2>3. r \in Call /\ r.pc = "backoff"
      BY <2>1, <2>2, BacksOff
    <2>4. Become(c, r)
      BY <1>2 DEF Fail
    <2>5. QED
      BY <2>3, <2>4, BesideOK DEF Fail
  <1>3. QED
    BY <1>1, <1>2

(* After the backoff a call asks for a new slot.                            *)
LEMMA ResumeOK == ASSUME LimiterInv, NEW c \in Calls, Resume(c) PROVE LimiterInv'
  <1> DEFINE r == [call[c] EXCEPT !.pc = "reserve", !.left = 0]
  <1>1. r \in Call /\ r.pc = "reserve"
    BY CallType, AsksAgain, SomeRanges
  <1>2. QED
    BY <1>1, BesideOK DEF Resume
-----------------------------------------------------------------------------
(* A slot that is not ahead is free: nobody waits, and the last request was *)
(* sent long enough ago.                                                    *)
LEMMA FreeSlot ==
  ASSUME LimiterInv, ahead <= 0
  PROVE  quiet >= Gap - Late /\ \A c \in Calls : ~InQueue(c)
  <1>1. quiet >= Gap - Late
    BY DEF LimiterInv, LimiterTypes, SlotsLater
  <1>2. ASSUME NEW c \in Calls, InQueue(c) PROVE FALSE
    <2>1. call[c].left \in Int
      BY CallType DEF Call, Times
    <2>2. QED
      BY <1>2, <2>1 DEF LimiterInv, LimiterTypes, TimersOK, SlotsApart
  <1>3. QED
    BY <1>1, <1>2

(* A slot is a gap after the last one.                                      *)
LEMMA ReserveOK == ASSUME LimiterInv, NEW c \in Calls, Reserve(c) PROVE LimiterInv'
  <1>0. call[c] \in Call /\ LimiterTypes
    BY CallType DEF LimiterInv
  <1>1. CASE ahead <= 0
    <2> DEFINE r == [call[c] EXCEPT !.pc = "send"]
    <2>1. ahead' = Gap /\ quiet' = 0 /\ Become(c, r)
      BY <1>0, <1>1 DEF Reserve, NextSlot, LimiterTypes
    <2>2. r \in Call /\ r.pc = "send"
      BY <1>0, SendsAtOnce
    <2>3. call' \in [Calls -> Call] /\ \A d \in Calls : ~InQueue(d)'
      BY <1>0, <1>1, <2>1, <2>2, FreeSlot DEF Become, LimiterTypes, InQueue
    <2>4. LimiterTypes'
      BY <2>1, <2>3 DEF LimiterTypes
    <2>5. QED
      BY <2>1, <2>3, <2>4 DEF LimiterInv, TimersOK, SlotsApart, SlotsLater
  <1>2. CASE ahead > 0
    <2> DEFINE r == [call[c] EXCEPT !.pc = "wait", !.left = ahead]
    <2>0. NextSlot = ahead /\ ~(NextSlot <= 0)
      BY <1>0, <1>2 DEF NextSlot, LimiterTypes
    <2>1. ahead' = ahead + Gap /\ quiet' = quiet /\ Become(c, r)
      BY <2>0 DEF Reserve
    <2>2. r \in Call /\ r.pc = "wait" /\ r.left = ahead
      <3>1. ahead \in Times
        BY <1>0 DEF LimiterTypes, Times
      <3>2. QED
        BY <1>0, <3>1, Waits
    <2>3. /\ call' \in [Calls -> Call]
          /\ InQueue(c)' /\ call'[c].left = ahead
          /\ \A d \in Calls \ {c} : call'[d] = call[d]
      BY <1>0, <2>1, <2>2 DEF Become, LimiterTypes, InQueue
    <2>4. LimiterTypes'
      BY <1>0, <1>2, <2>1, <2>3 DEF LimiterTypes
    <2>5. \A d \in Calls : call[d].left \in Int
      BY <1>0 DEF LimiterTypes, Call, Times
    <2>6. TimersOK'
      BY <1>0, <1>2, <2>3 DEF LimiterInv, LimiterTypes, TimersOK, InQueue
    <2>7. SlotsApart'
      BY <1>0, <2>1, <2>3, <2>5 DEF LimiterInv, LimiterTypes, SlotsApart, InQueue
    <2>8. SlotsLater'
      BY <1>0, <1>2, <2>1, <2>3, <2>5 DEF LimiterInv, LimiterTypes, SlotsLater, InQueue
    <2>9. QED
      BY <2>4, <2>6, <2>7, <2>8 DEF LimiterInv
  <1>3. QED
    BY <1>0, <1>1, <1>2 DEF LimiterTypes

(* A request is sent at its slot or later.                                  *)
LEMMA PassOK == ASSUME LimiterInv, NEW c \in Calls, Pass(c) PROVE LimiterInv'
  <1> DEFINE r == [call[c] EXCEPT !.pc = "send", !.left = 0]
  <1>1. call[c] \in Call /\ LimiterTypes /\ InQueue(c) /\ call[c].left <= 0
    BY CallType DEF LimiterInv, Pass, InQueue
  <1>2. r \in Call /\ r.pc = "send"
    BY <1>1, SendsNow, SomeRanges
  <1>3. /\ call' \in [Calls -> Call]
        /\ \A d \in Calls : InQueue(d)' => d # c /\ InQueue(d) /\ call'[d] = call[d]
        /\ quiet' = 0 /\ ahead' = ahead
    BY <1>1, <1>2 DEF Pass, Become, LimiterTypes, InQueue
  <1>4. \A d \in Calls : call[d].left \in Int
    BY <1>1 DEF LimiterTypes, Call, Times
  <1>5. LimiterTypes'
    BY <1>1, <1>3 DEF LimiterTypes
  <1>6. TimersOK' /\ SlotsApart'
    BY <1>3 DEF LimiterInv, TimersOK, SlotsApart
  <1>7. ahead' + quiet' >= Gap - Late
    BY <1>1, <1>3, <1>4 DEF LimiterInv, LimiterTypes, TimersOK, SlotsApart
  <1>8. ASSUME NEW d \in Calls, InQueue(d)' PROVE call'[d].left + quiet' >= Gap - Late
    <2>1. /\ call[c].left >= -Late /\ call[d].left >= -Late
          /\ call[c].left + Gap <= call[d].left \/ call[d].left + Gap <= call[c].left
      BY <1>1, <1>3, <1>8 DEF LimiterInv, TimersOK, SlotsApart
    <2>2. QED
      BY <1>1, <1>3, <1>4, <1>8, <2>1
  <1>9. QED
    BY <1>5, <1>6, <1>7, <1>8 DEF LimiterInv, SlotsLater
-----------------------------------------------------------------------------
(* All times come a tick nearer, except those that are cut.                 *)
LEMMA TickOK == ASSUME LimiterInv, Tick PROVE LimiterInv'
  <1>0. LimiterTypes
    BY DEF LimiterInv
  <1>1. /\ ahead \in Int /\ ahead >= -Gap /\ quiet \in 0 .. Gap
        /\ ahead' = IF ahead > -Gap THEN ahead - 1 ELSE ahead
        /\ quiet' = IF quiet < Gap THEN quiet + 1 ELSE quiet
    BY <1>0 DEF Tick, LimiterTypes
  <1>2. ASSUME NEW c \in Calls
        PROVE  /\ call'[c] \in Call
               /\ InQueue(c)' = InQueue(c)
               /\ InQueue(c) => call'[c].left = call[c].left - 1 /\ call[c].left > -Late
    <2>1. call[c] \in Call
      BY <1>0 DEF LimiterTypes
    <2> DEFINE l == IF Waiting(c) THEN call[c].left - 1 ELSE call[c].left
               x == IF call[c].context \in 1 .. Deadline THEN call[c].context - 1 ELSE call[c].context
    <2>2. call'[c] = [call[c] EXCEPT !.left = l, !.context = x]
      BY DEF Tick
    <2>3. l \in Times /\ x \in Times
      BY <2>1 DEF Call, Times
    <2>4. call'[c] \in Call /\ call'[c].pc = call[c].pc /\ call'[c].left = l
      <3>1. PICK y \in Times, z \in Times :
              y = l /\ call'[c] = [call[c] EXCEPT !.left = y, !.context = z]
        BY <2>2, <2>3
      <3>2. QED
        BY <2>1, <3>1 DEF Call
    <2>5. QED
      BY <2>4 DEF InQueue, Waiting, Tick
  <1>3. \A c \in Calls : call[c].left \in Int
    BY <1>0 DEF LimiterTypes, Call, Times
  <1>4. LimiterTypes'
    <2>1. call' \in [Calls -> Call]
      BY <1>2 DEF Tick
    <2>2. QED
      BY <1>1, <2>1 DEF LimiterTypes
  <1>5. TimersOK'
    BY <1>2, <1>3 DEF TimersOK
  <1>6. SlotsApart'
    <2>1. ASSUME NEW c \in Calls, InQueue(c) PROVE call'[c].left + Gap <= ahead'
      <3>1. call[c].left + Gap <= ahead /\ call[c].left > -Late
        BY <1>2, <2>1 DEF LimiterInv, SlotsApart
      <3>2. QED
        BY <1>1, <1>2, <1>3, <2>1, <3>1
    <2>2. QED
      BY <1>2, <1>3, <2>1 DEF LimiterInv, SlotsApart
  <1>7. SlotsLater'
    <2>1. ASSUME NEW c \in Calls, InQueue(c) PROVE call'[c].left + quiet' >= Gap - Late
      <3>1. call[c].left + quiet >= Gap - Late /\ call[c].left > -Late
        BY <1>2, <2>1 DEF LimiterInv, SlotsLater
      <3>2. QED
        BY <1>1, <1>2, <1>3, <2>1, <3>1
    <2>2. quiet' = Gap \/ ahead' + quiet' >= Gap - Late
      BY <1>1 DEF LimiterInv, SlotsLater
    <2>3. QED
      BY <1>2, <2>1, <2>2 DEF SlotsLater
  <1>8. QED
    BY <1>4, <1>5, <1>6, <1>7 DEF LimiterInv

(* Every step keeps the inductive invariant.                                *)
LEMMA LimiterNextOK == LimiterInv /\ [LimiterNext]_limiterVars => LimiterInv'
  <1> SUFFICES ASSUME LimiterInv, [LimiterNext]_limiterVars PROVE LimiterInv'
    OBVIOUS
  <1>1. ASSUME NEW c \in Calls, Step(c) PROVE LimiterInv'
    BY <1>1, ReserveOK, PassOK, LeaveOK, FailOK, ResumeOK DEF Step
  <1>2. ASSUME NEW c \in Calls, NEW context \in 0 .. Forever, Begin(c, context) PROVE LimiterInv'
    BY <1>2, BeginOK
  <1>3. CASE Tick
    BY <1>3, TickOK
  <1>4. CASE UNCHANGED limiterVars
    BY <1>4 DEF limiterVars, LimiterInv, LimiterTypes, TimersOK, SlotsApart, SlotsLater, InQueue
  <1>5. QED
    BY <1>1, <1>2, <1>3, <1>4 DEF LimiterNext

(* The invariant of the limiter: slots are a gap apart, and none comes too  *)
(* soon after the last request.                                             *)
THEOREM LimiterInvariance == LimiterSpec => []LimiterInv
  <1>1. LimiterInit => LimiterInv
    BY LimiterInitOK
  <1>2. LimiterInv /\ [LimiterNext]_limiterVars => LimiterInv'
    BY LimiterNextOK
  <1>3. QED
    BY <1>1, <1>2, PTL DEF LimiterSpec
-----------------------------------------------------------------------------
(* A request that is sent is sent late enough.                              *)
LEMMA SentLate ==
  ASSUME LimiterInv, LimiterNext, NEW c \in Calls, call[c].pc # "send", call'[c].pc = "send"
  PROVE  quiet >= Gap - Late
  <1>0. LimiterTypes
    BY DEF LimiterInv
  <1>1. ASSUME NEW d \in Calls, NEW r \in Call, Become(d, r), r.pc # "send" PROVE FALSE
    BY <1>0, <1>1 DEF Become, LimiterTypes
  <1>2. ASSUME NEW d \in Calls, Reserve(d) PROVE quiet >= Gap - Late
    <2>1. CASE ahead <= 0
      BY <2>1, FreeSlot
    <2>2. CASE ahead > 0
      <3> DEFINE r == [call[d] EXCEPT !.pc = "wait", !.left = ahead]
      <3>1. NextSlot = ahead /\ ~(NextSlot <= 0)
        BY <1>0, <2>2 DEF NextSlot, LimiterTypes
      <3>2. Become(d, r)
        BY <1>2, <3>1 DEF Reserve
      <3>3. r \in Call /\ r.pc = "wait"
        <4>1. call[d] \in Call /\ ahead \in Times
          BY <1>0 DEF LimiterTypes, Times
        <4>2. QED
          BY <4>1, Waits
      <3>4. QED
        BY <1>1, <3>2, <3>3
    <2>3. QED
      BY <1>0, <2>1, <2>2 DEF LimiterTypes
  <1>3. ASSUME NEW d \in Calls, Pass(d) PROVE quiet >= Gap - Late
    <2>1. InQueue(d) /\ call[d].left <= 0 /\ call[d].left \in Int
      BY <1>0, <1>3 DEF Pass, InQueue, LimiterTypes, Call, Times
    <2>2. call[d].left + quiet >= Gap - Late
      BY <2>1 DEF LimiterInv, SlotsLater
    <2>3. QED
      BY <1>0, <2>1, <2>2 DEF LimiterTypes
  <1>4. ASSUME NEW d \in Calls,
               \/ GiveUp(d) \/ Answer(d) \/ Fail(d) \/ Resume(d)
               \/ \E context \in 0 .. Forever : Begin(d, context)
        PROVE  FALSE
    <2> DEFINE q == call[d]
    <2>1. q \in Call /\ Idle \in Call /\ Idle.pc = "idle"
      BY CallType DEF Idle
    <2>2. CASE GiveUp(d) \/ Answer(d)
      BY <1>1, <2>1, <2>2 DEF GiveUp, Answer
    <2>3. CASE Fail(d)
      <3> DEFINE n == q.attempt * Backoff
                 m == q.attempt + 1
                 r == [q EXCEPT !.pc = "backoff", !.left = n, !.attempt = m]
      <3>1. CASE q.attempt = Attempts
        BY <1>1, <2>1, <2>3, <3>1 DEF Fail
      <3>2. CASE q.attempt # Attempts
        <4>1. q.attempt \in Numbers
          BY <2>1 DEF Call
        <4>2. n \in Times /\ m \in Numbers
          BY <3>2, <4>1 DEF Times, Numbers, Attempts
        <4>3. r \in Call /\ r.pc = "backoff"
          BY <2>1, <4>2, BacksOff
        <4>4. Become(d, r)
          BY <2>3, <3>2 DEF Fail
        <4>5. QED
          BY <1>1, <4>3, <4>4
      <3>3. QED
        BY <3>1, <3>2
    <2>4. CASE Resume(d)
      <3> DEFINE r == [q EXCEPT !.pc = "reserve", !.left = 0]
      <3>1. r \in Call /\ r.pc = "reserve"
        BY <2>1, AsksAgain, SomeRanges
      <3>2. QED
        BY <1>1, <2>4, <3>1 DEF Resume
    <2>5. ASSUME NEW context \in 0 .. Forever, Begin(d, context) PROVE FALSE
      <3> DEFINE r == [Idle EXCEPT !.pc = "reserve", !.context = context]
      <3>1. context \in Times
        BY DEF Times, Forever
      <3>2. r \in Call /\ r.pc = "reserve"
        BY <2>1, <3>1, AsksFirst
      <3>3. QED
        BY <1>1, <2>5, <3>2 DEF Begin
    <2>6. QED
      BY <1>4, <2>2, <2>3, <2>4, <2>5
  <1>5. CASE Tick
    <2>1. call'[c].pc = call[c].pc
      BY <1>0, <1>5 DEF Tick, LimiterTypes, Call
    <2>2. QED
      BY <2>1
  <1>6. QED
    BY <1>2, <1>3, <1>4, <1>5 DEF LimiterNext, Step

(* However many calls share the limiter, give up and try again, requests    *)
(* are sent a gap apart less what a timer may be late (limiter.wait and     *)
(* getJSON).                                                                *)
THEOREM RateAlwaysKept == LimiterSpec => RateKept
  <1> DEFINE Late_ == \A c \in Calls : call[c].pc # "send" /\ call'[c].pc = "send"
                                       => quiet >= Gap - Late
  <1>1. LimiterInv /\ [LimiterNext]_limiterVars => [Late_]_limiterVars
    BY SentLate
  <1>2. QED
    BY <1>1, LimiterInvariance, PTL DEF LimiterSpec, RateKept

HIDE RateLimiterAssumption DEF LimiterConstants
-----------------------------------------------------------------------------
(* Pictures.                                                                *)

(* A job's MBID is that of an act of its name.                              *)
Own(j) == j.mbid \in MBIDs(j.name)

(* What the artists table satisfies, whoever wrote it last: the pictures    *)
(* are photos, of namesakes unless TheAudioDB was asked by name, and the    *)
(* MBIDs that the backfill hands to the worker are those of namesakes.      *)
TableInv ==
  /\ row \in [Names -> Row \cup {NoRow}]
  /\ order \in Seq(Names) /\ ToSet(order) = {n \in Names : row[n].there}
  /\ PhotoOfNamesake
  /\ \A n \in Names : row[n].mbid \in MBIDs(n)

(* What holds of the channel and of the job the worker has in hand: an MBID *)
(* that TheAudioDB is asked for belongs to the name its answer is stored    *)
(* for.                                                                     *)
WorkInv ==
  /\ detail \subseteq Acts
  /\ queue \in Seq(Job) /\ Len(queue) <= Capacity
  /\ \A i \in DOMAIN queue : Own(queue[i])
  /\ job \in Job \cup {NoJob} /\ (job # NoJob => Own(job))
  /\ job.known => job.mbid \in detail
  /\ seen \subseteq Names
  /\ offers \in 0 .. MaxOffers /\ restarts \in 0 .. MaxRestarts

ImagesInv == TableInv /\ WorkInv
-----------------------------------------------------------------------------
(* The table.                                                               *)

(* A written row is a row: an upserted one,                                 *)
LEMMA UpsertedRow ==
  ASSUME NEW r \in Row \cup {NoRow}, NEW x \in Acts \cup {NoAct}
  PROVE  LET s == [r EXCEPT !.there = TRUE, !.mbid = x]
         IN  s \in Row /\ s.there /\ s.mbid = x /\ s.image = r.image /\ s.guess = r.guess
  <1>1. CASE r \in Row
    BY <1>1 DEF Row
  <1>2. CASE r = NoRow
    BY <1>2 DEF Row, NoRow, Pictures
  <1> QED BY <1>1, <1>2

(* and one that was looked up in vain.                                      *)
LEMMA CheckedRow ==
  ASSUME NEW r \in Row
  PROVE  LET s == [r EXCEPT !.checked = TRUE]
         IN  s \in Row /\ s.there /\ s.mbid = r.mbid /\ s.image = r.image /\ s.guess = r.guess
  BY DEF Row

(* Rows are only added, at the end.                                         *)
LEMMA ListedOK ==
  ASSUME TableInv, NEW n \in Names, order' = Listed(n),
         row' \in [Names -> Row \cup {NoRow}], row'[n].there,
         \A k \in Names \ {n} : row'[k] = row[k]
  PROVE  order' \in Seq(Names) /\ ToSet(order') = {k \in Names : row'[k].there}
  <1>1. CASE row[n].there
    BY <1>1 DEF Listed, TableInv
  <1>2. CASE ~row[n].there
    <2>1. order \in Seq(Names) /\ order' = Append(order, n)
      BY <1>2 DEF Listed, TableInv
    <2>2. ToSet(order') = ToSet(order) \cup {n}
      BY <2>1 DEF ToSet
    <2>3. \A k \in Names : k \in ToSet(order') <=> row'[k].there
      <3>1. \A k \in Names : k \in ToSet(order) <=> row[k].there
        BY DEF TableInv
      <3> QED BY <2>2, <3>1
    <2>4. ToSet(order') \subseteq Names
      BY <2>2 DEF TableInv
    <2> QED BY <2>1, <2>3, <2>4
  <1> QED BY <1>1, <1>2

(* An upsert leaves the picture alone.                                      *)
LEMMA UpsertOK ==
  ASSUME TableInv, NEW n \in Names, NEW m \in MBIDs(n), Upsert(n, m)
  PROVE  TableInv'
  <1> DEFINE x == IF m = NoAct THEN row[n].mbid ELSE m
  <1>1. row[n] \in Row \cup {NoRow} /\ x \in MBIDs(n) /\ x \in Acts \cup {NoAct}
    BY DEF TableInv, MBIDs
  <1> DEFINE s == [row[n] EXCEPT !.there = TRUE, !.mbid = x]
  <1>2. row' = [row EXCEPT ![n] = s]
    BY DEF Upsert
  <1> HIDE DEF x
  <1>6. s \in Row /\ s.there /\ s.mbid = x /\ s.image = row[n].image /\ s.guess = row[n].guess
    BY <1>1, UpsertedRow
  <1> HIDE DEF s
  <1>3. /\ row' \in [Names -> Row \cup {NoRow}]
        /\ row'[n].there /\ row'[n].mbid = x
        /\ row'[n].image = row[n].image /\ row'[n].guess = row[n].guess
        /\ \A k \in Names \ {n} : row'[k] = row[k]
    BY <1>2, <1>6 DEF TableInv
  <1>4. order' \in Seq(Names) /\ ToSet(order') = {k \in Names : row'[k].there}
    BY <1>3, ListedOK DEF Upsert
  <1>5. PhotoOfNamesake'
    BY <1>3 DEF TableInv, PhotoOfNamesake
  <1> QED BY <1>1, <1>3, <1>4, <1>5 DEF TableInv, MBIDs

(* A photo may be stored by anybody at any time, if it is of a namesake or  *)
(* put down as the first result of a search.                                *)
LEMMA SetArtistImageOK ==
  ASSUME TableInv, NEW n \in Names, NEW a \in Acts, NEW g \in BOOLEAN, g \/ Name[a] = n,
         SetArtistImage(n, a, g)
  PROVE  TableInv'
  <1>1. row[n] \in Row \cup {NoRow} /\ a \in Pictures
    BY DEF TableInv, Pictures
  <1>5. PICK s : /\ s = [row[n] EXCEPT !.there = TRUE, !.image = a, !.checked = TRUE, !.guess = g]
                 /\ row' = [row EXCEPT ![n] = s]
    BY DEF SetArtistImage
  <1>6. s \in Row /\ s.there /\ s.mbid = row[n].mbid /\ s.image = a /\ s.guess = g
    <2>1. CASE row[n] \in Row
      BY <1>1, <1>5, <2>1 DEF Row
    <2>2. CASE row[n] = NoRow
      <3>1. s = [NoRow EXCEPT !.there = TRUE, !.image = a, !.checked = TRUE, !.guess = g]
        BY <1>5, <2>2
      <3>2. s = [mbid |-> NoAct, image |-> a, checked |-> TRUE, there |-> TRUE, guess |-> g]
        BY <3>1 DEF NoRow
      <3>3. s \in Row
        BY <1>1, <3>2 DEF Row
      <3> QED BY <2>2, <3>2, <3>3 DEF NoRow
    <2> QED BY <1>1, <2>1, <2>2
  <1>2. /\ row' \in [Names -> Row \cup {NoRow}]
        /\ row'[n].there /\ row'[n].mbid = row[n].mbid /\ row'[n].image = a /\ row'[n].guess = g
        /\ \A k \in Names \ {n} : row'[k] = row[k]
    BY <1>5, <1>6 DEF TableInv
  <1>3. order' \in Seq(Names) /\ ToSet(order') = {k \in Names : row'[k].there}
    BY <1>2, ListedOK DEF SetArtistImage
  <1>4. PhotoOfNamesake'
    BY <1>2 DEF TableInv, PhotoOfNamesake
  <1>7. \A k \in Names : row'[k].mbid \in MBIDs(k)
    BY <1>2 DEF TableInv
  <1> QED BY <1>2, <1>3, <1>4, <1>7 DEF TableInv

(* A lookup in vain leaves its mark on a row, if there is one.              *)
LEMMA MarkImageCheckedOK ==
  ASSUME TableInv, NEW n \in Names, MarkImageChecked(n)
  PROVE  TableInv'
  <1>1. CASE row[n].there
    <2>1. row[n] \in Row
      BY <1>1 DEF TableInv, NoRow
    <2> DEFINE s == [row[n] EXCEPT !.checked = TRUE]
    <2>2. row' = [row EXCEPT ![n] = s] /\ order' = order
      BY <1>1 DEF MarkImageChecked
    <2>6. /\ s \in Row /\ s.there /\ s.mbid = row[n].mbid
          /\ s.image = row[n].image /\ s.guess = row[n].guess
      BY <2>1, CheckedRow
    <2> HIDE DEF s
    <2>3. /\ row' \in [Names -> Row \cup {NoRow}]
          /\ row'[n].there /\ row'[n].mbid = row[n].mbid
          /\ row'[n].image = row[n].image /\ row'[n].guess = row[n].guess
          /\ \A k \in Names \ {n} : row'[k] = row[k]
      BY <2>2, <2>6 DEF TableInv
    <2>4. ToSet(order') = {k \in Names : row'[k].there}
      BY <1>1, <2>2, <2>3 DEF TableInv
    <2>5. PhotoOfNamesake'
      BY <2>3 DEF TableInv, PhotoOfNamesake
    <2>7. \A k \in Names : row'[k].mbid \in MBIDs(k)
      BY <2>3 DEF TableInv
    <2> QED BY <2>2, <2>3, <2>4, <2>5, <2>7 DEF TableInv
  <1>2. CASE ~row[n].there
    BY <1>2 DEF MarkImageChecked, TableInv, PhotoOfNamesake
  <1> QED BY <1>1, <1>2
-----------------------------------------------------------------------------
(* The channel.                                                             *)

(* Jobs behind jobs are jobs.                                               *)
LEMMA BehindOK ==
  ASSUME NEW q \in Seq(Job), \A i \in DOMAIN q : Own(q[i]),
         NEW s \in Seq(Job), \A i \in DOMAIN s : Own(s[i])
  PROVE  LET r == q \o s
         IN  r \in Seq(Job) /\ Len(r) = Len(q) + Len(s) /\ \A i \in DOMAIN r : Own(r[i])
  <1> DEFINE r == q \o s
  <1>1. r \in Seq(Job) /\ Len(r) = Len(q) + Len(s) /\ Len(q) \in Nat /\ Len(s) \in Nat
    OBVIOUS
  <1>2. ASSUME NEW i \in 1 .. Len(r) PROVE Own(r[i])
    <2>1. CASE i <= Len(q)
      <3>1. i \in DOMAIN q /\ r[i] = q[i]
        BY <1>1, <2>1
      <3> QED BY <3>1
    <2>2. CASE i > Len(q)
      <3>1. i - Len(q) \in DOMAIN s /\ r[i] = s[i - Len(q)]
        BY <1>1, <2>2
      <3> QED BY <3>1
    <2> QED BY <1>1, <2>1, <2>2
  <1>3. DOMAIN r = 1 .. Len(r)
    BY <1>1
  <1> QED BY <1>1, <1>2, <1>3

(* However many jobs are offered, the channel keeps its capacity, and what  *)
(* it takes in was offered.                                                 *)
LEMMA OfferedOK ==
  ASSUME NEW q \in Seq(Job), Len(q) <= Capacity, \A i \in DOMAIN q : Own(q[i]),
         NEW jobs \in Seq(Job), \A i \in DOMAIN jobs : Own(jobs[i])
  PROVE  LET r == Offered(q, jobs)
         IN  r \in Seq(Job) /\ Len(r) <= Capacity /\ \A i \in DOMAIN r : Own(r[i])
  <1> DEFINE room == Capacity - Len(q)
  <1>0. room \in Nat /\ Capacity \in Nat
    BY ImagesAssumption DEF ConstantsAssumption
  <1>1. CASE Len(jobs) <= room
    <2>1. Offered(q, jobs) = q \o jobs
      BY <1>1 DEF Offered
    <2>2. Len(q) + Len(jobs) <= Capacity
      BY <1>0, <1>1
    <2>3. /\ q \o jobs \in Seq(Job) /\ Len(q \o jobs) = Len(q) + Len(jobs)
          /\ \A i \in DOMAIN (q \o jobs) : Own((q \o jobs)[i])
      BY BehindOK
    <2> QED BY <2>1, <2>2, <2>3, Zenon
  <1>2. CASE ~(Len(jobs) <= room)
    <2> DEFINE s == SubSeq(jobs, 1, room)
    <2>1. Offered(q, jobs) = q \o s
      BY <1>2 DEF Offered
    <2>2. s \in Seq(Job) /\ Len(s) = room /\ \A i \in DOMAIN s : Own(s[i])
      <3>1. Len(jobs) \in Nat /\ room <= Len(jobs)
        BY <1>0, <1>2
      <3>2. s \in Seq(Job) /\ Len(s) = room /\ \A i \in 1 .. room : s[i] = jobs[i]
        BY <1>0, <3>1
      <3> QED BY <1>0, <3>1, <3>2
    <2>3. Len(q) + room = Capacity
      BY <1>0
    <2> HIDE DEF s, room
    <2>4. /\ q \o s \in Seq(Job) /\ Len(q \o s) = Len(q) + Len(s)
          /\ \A i \in DOMAIN (q \o s) : Own((q \o s)[i])
      BY <2>2, BehindOK
    <2>5. Len(q) + Len(s) <= Capacity
      BY <1>0, <2>2, <2>3
    <2> QED BY <2>1, <2>4, <2>5, Zenon
  <1> QED BY <1>1, <1>2

(* A new job is a job.                                                      *)
LEMMA NewJobOK ==
  ASSUME NEW n \in Names, NEW m \in MBIDs(n)
  PROVE  NewJob(n, m) \in Job /\ Own(NewJob(n, m))
  BY DEF NewJob, Job, Own, MBIDs

(* One that the worker has compared with the cache stays one.               *)
LEMMA KnownJob ==
  ASSUME NEW j \in Job, Own(j), NEW b \in BOOLEAN
  PROVE  LET k == [j EXCEPT !.known = b]
         IN  k \in Job /\ Own(k) /\ k.mbid = j.mbid /\ k.known = b
  BY DEF Job, Own

(* A page or a chart entry offers its job.                                  *)
LEMMA OfferKeepsWork ==
  ASSUME WorkInv, NEW n \in Names, NEW m \in MBIDs(n), offers < MaxOffers, offers' = offers + 1,
         queue' = Offered(queue, <<NewJob(n, m)>>), UNCHANGED <<detail, job, seen, restarts>>
  PROVE  WorkInv'
  <1> DEFINE jobs == <<NewJob(n, m)>>
  <1>1. jobs \in Seq(Job) /\ \A i \in DOMAIN jobs : Own(jobs[i])
    BY NewJobOK
  <1>2. queue' \in Seq(Job) /\ Len(queue') <= Capacity /\ \A i \in DOMAIN queue' : Own(queue'[i])
    BY <1>1, OfferedOK DEF WorkInv
  <1>3. offers' \in 0 .. MaxOffers
    BY ImagesAssumption DEF WorkInv, ConstantsAssumption
  <1> QED BY <1>2, <1>3 DEF WorkInv

(* The worker takes a job.                                                  *)
LEMMA TakeKeepsWork ==
  ASSUME WorkInv, TableInv, Take
  PROVE  WorkInv'
  <1> DEFINE j == Head(queue)
             b == j.mbid \in detail
  <1>1. queue \in Seq(Job) /\ queue # <<>> /\ queue' = Tail(queue)
    BY DEF WorkInv, Take
  <1>2. j \in Job /\ Own(j)
    BY <1>1 DEF WorkInv
  <1>3. queue' \in Seq(Job) /\ Len(queue') <= Capacity /\ \A i \in DOMAIN queue' : Own(queue'[i])
    <2>1. queue' \in Seq(Job) /\ Len(queue') = Len(queue) - 1
          /\ \A i \in 1 .. Len(queue') : queue'[i] = queue[i + 1] /\ i + 1 \in 1 .. Len(queue)
      BY <1>1
    <2>2. Capacity \in Nat
      BY ImagesAssumption DEF ConstantsAssumption
    <2>3. \A i \in 1 .. Len(queue') : Own(queue'[i])
      BY <2>1 DEF WorkInv
    <2> QED BY <2>1, <2>2, <2>3 DEF WorkInv
  <1>4. seen' \subseteq Names
    BY <1>2 DEF Take, WorkInv, Remembered, Job
  <1>5. /\ job' \in Job \cup {NoJob} /\ (job' # NoJob => Own(job'))
        /\ job'.known => job'.mbid \in detail
    <2> DEFINE k == [j EXCEPT !.known = b]
    <2>1. b \in BOOLEAN
      OBVIOUS
    <2>2. k \in Job /\ Own(k) /\ k.mbid = j.mbid /\ k.known = b
      <3> HIDE DEF b, j
      <3> QED BY <1>2, <2>1, KnownJob
    <2>3. job' = job \/ job' = NoJob \/ job' = k
      BY DEF Take
    <2>4. NoJob.known = FALSE
      BY DEF NoJob
    <2>5. k.known => k.mbid \in detail
      BY <2>2
    <2> HIDE DEF k
    <2> QED BY <2>2, <2>3, <2>4, <2>5 DEF WorkInv
  <1>6. UNCHANGED <<detail, offers, restarts>>
    BY DEF Take
  <1> QED BY <1>3, <1>4, <1>5, <1>6 DEF WorkInv

(* The backfill offers rows.                                                *)
LEMMA BackfillKeepsWork ==
  ASSUME WorkInv, TableInv, Backfill
  PROVE  WorkInv'
  <1> DEFINE N == Min({Cardinality(Missing), BackfillLimit})
  <1>0. UNCHANGED <<detail, job, seen, offers, restarts>>
    BY DEF Backfill
  <1>1. PICK first \in [1 .. N -> Missing] :
          queue' = Offered(queue, [i \in DOMAIN first |->
                     NewJob(order[first[i]], row[order[first[i]]].mbid)])
    BY DEF Backfill
  <1> DEFINE jobs == [i \in 1 .. N |-> NewJob(order[first[i]], row[order[first[i]]].mbid)]
  <1>2. N \in Nat
    <2>1. IsFiniteSet(1 .. Len(order))
      <3>1. 1 \in Int /\ Len(order) \in Int
        BY DEF TableInv
      <3> QED BY <3>1, FS_Interval
    <2>2. Missing \subseteq 1 .. Len(order)
      BY DEF Missing, TableInv
    <2>3. Cardinality(Missing) \in Nat
      BY <2>1, <2>2, FS_Subset, FS_CardinalityType
    <2>4. BackfillLimit \in Nat
      BY ImagesAssumption DEF ConstantsAssumption
    <2>5. \E x \in {Cardinality(Missing), BackfillLimit} :
            \A y \in {Cardinality(Missing), BackfillLimit} : x <= y
      BY <2>3, <2>4
    <2> QED BY <2>3, <2>4, <2>5 DEF Min
  <1>3. \A i \in 1 .. N : jobs[i] \in Job /\ Own(jobs[i])
    <2>1. ASSUME NEW i \in 1 .. N PROVE order[first[i]] \in Names
      <3>1. first[i] \in Missing
        BY <1>1
      <3> QED BY <3>1 DEF Missing, TableInv
    <2>2. \A n \in Names : row[n].mbid \in MBIDs(n)
      BY DEF TableInv
    <2> QED BY <2>1, <2>2, NewJobOK
  <1>4. jobs \in Seq(Job) /\ \A i \in DOMAIN jobs : Own(jobs[i])
    <2> HIDE DEF N
    <2>1. jobs \in [1 .. N -> Job]
      BY <1>3
    <2> QED BY <1>2, <1>3, <2>1
  <1>5. queue' = Offered(queue, jobs)
    BY <1>1
  <1>6. queue' \in Seq(Job) /\ Len(queue') <= Capacity /\ \A i \in DOMAIN queue' : Own(queue'[i])
    <2> HIDE DEF jobs
    <2> QED BY <1>4, <1>5, OfferedOK DEF WorkInv
  <1> QED BY <1>0, <1>6 DEF WorkInv
-----------------------------------------------------------------------------
(* Deezer and TheAudioDB.                                                   *)

(* Positions have a least one: the sets of those before them are            *)
(* well-ordered by inclusion.                                               *)
LEMMA LeastPosition ==
  ASSUME NEW n \in Nat, NEW S \in SUBSET (1 .. n), S # {}
  PROVE  Min(S) \in S
  <1> DEFINE Before(m) == {i \in S : i < m}
             T == {Before(m) : m \in S}
             R == StrictSubsetOrdering(S)
  <1>0. \A i \in S : i \in Int
    OBVIOUS
  <1>1. IsWellFoundedOn(R, SUBSET S)
    <2>1. IsFiniteSet(1 .. n)
      <3>1. 1 \in Int /\ n \in Int
        OBVIOUS
      <3> QED BY <3>1, FS_Interval
    <2>2. IsFiniteSet(S)
      BY <2>1, FS_Subset
    <2>3. FiniteSubsetsOf(S) = SUBSET S
      BY <2>2, FS_FiniteSubsetsOfFinite
    <2> QED BY <2>3, FS_StrictSubsetOrderingWellFounded
  <1>2. T \subseteq SUBSET S /\ T # {}
    OBVIOUS
  <1>3. \E x \in T : \A y \in T : ~ (<<y, x>> \in R)
    <2> HIDE DEF T, R
    <2> QED BY <1>1, <1>2, WFMin
  <1>4. PICK m \in S : \A k \in S : ~ (<<Before(k), Before(m)>> \in R)
    BY <1>3
  <1>5. ASSUME NEW i \in S, i < m PROVE FALSE
    <2>1. Before(i) \subseteq Before(m)
      <3>1. \A k \in S : k < i => k < m
        BY <1>0, <1>5
      <3> QED BY <3>1
    <2>2. i \in Before(m) /\ i \notin Before(i)
      BY <1>0, <1>5
    <2>3. <<Before(i), Before(m)>> \in R
      BY <2>1, <2>2 DEF StrictSubsetOrdering
    <2> QED BY <1>4, <2>3
  <1>6. \A i \in S : m <= i
    BY <1>0, <1>5
  <1> QED BY <1>6 DEF Min

(* A picture that is none of Deezer's silhouettes is a photo of the act.    *)
LEMMA PictureOK ==
  ASSUME NEW a, picture(a) # None
  PROVE  picture(a) = a /\ a \in Acts
  BY ImagesAssumption DEF picture, ConstantsAssumption

(* A hit of Deezer that counts has the name that was asked for.             *)
LEMMA ExactHit ==
  ASSUME NEW n \in Names, NEW i \in Exact(n)
  PROVE  Name[Hits[n][i]] = n /\ picture(Hits[n][i]) = Hits[n][i] /\ Hits[n][i] \in Acts
  BY PictureOK DEF Exact

(* So has the first one.                                                    *)
LEMMA FirstExactOK ==
  ASSUME NEW n \in Names, Exact(n) # {}
  PROVE  FirstExact(n) \in Acts /\ Name[FirstExact(n)] = n
  <1>1. Hits[n] \in Seq(Acts)
    BY ImagesAssumption DEF ConstantsAssumption
  <1>2. Exact(n) \in SUBSET (1 .. Len(Hits[n])) /\ Len(Hits[n]) \in Nat
    BY <1>1 DEF Exact
  <1>3. Min(Exact(n)) \in Exact(n)
    BY <1>2, LeastPosition
  <1> QED BY <1>3, ExactHit DEF FirstExact

(* With a discography, one act of several is an act with a title of it.     *)
LEMMA VerifiedHit ==
  ASSUME NEW n \in Names, NEW m, NEW f \in ArtistImageFor(n, m, TRUE), f # None,
         Cardinality(Exact(n)) # 1
  PROVE  f \in Acts /\ Name[f] = n /\ f \in Shared[m]
  <1>1. Exact(n) # {}
    BY DEF ArtistImageFor
  <1>2. PICK a \in {Hits[n][i] : i \in Exact(n)} \cap Shared[m] : f = picture(a)
    BY <1>1 DEF ArtistImageFor
  <1>3. PICK i \in Exact(n) : a = Hits[n][i]
    BY <1>2
  <1> QED BY <1>2, <1>3, ExactHit

(* Whatever comes back from a lookup is a photo, and of somebody of that    *)
(* name: TheAudioDB's as well, if the job has an MBID, which is that of its *)
(* name.  Without one it is a guess.                                        *)
LEMMA FoundOK ==
  ASSUME NEW j \in Job, Own(j), NEW f \in Found(j), f # None
  PROVE  f \in Acts /\ (Guess(j, f) \/ Name[f] = j.name)
  <1> DEFINE n == j.name
             m == j.mbid
  <1>0. n \in Names /\ m \in MBIDs(n)
    BY DEF Job, Own
  <1>1. CASE f \in AudioDB(m) /\ f \notin ArtistImageFor(n, m, j.known)
    BY <1>0, <1>1, ImagesAssumption DEF AudioDB, Guess, MBIDs, ConstantsAssumption
  <1>2. CASE f \in ArtistImageFor(n, m, j.known)
    <2>1. CASE f = FirstExact(n) /\ Exact(n) # {}
      BY <1>0, <2>1, FirstExactOK
    <2>2. CASE ~(f = FirstExact(n) /\ Exact(n) # {})
      <3>1. PICK a \in {Hits[n][i] : i \in Exact(n)} : f = picture(a)
        BY <1>2, <2>2 DEF ArtistImageFor
      <3> QED BY <1>0, <3>1, ExactHit
    <2> QED BY <2>1, <2>2
  <1> QED BY <1>1, <1>2 DEF Found
-----------------------------------------------------------------------------
(* The steps.                                                               *)

(* Before the first start the table is empty.                               *)
LEMMA ImagesInitOK == Init => ImagesInv
  <1> SUFFICES ASSUME Init PROVE ImagesInv
    OBVIOUS
  <1>1. TableInv
    <2>1. \A n \in Names : row[n] = NoRow /\ NoRow.image = None /\ NoRow.mbid = NoAct /\ ~NoRow.there
      BY DEF Init, NoRow
    <2>2. order \in Seq(Names) /\ ToSet(order) = {}
      BY DEF Init, ToSet
    <2>3. row \in [Names -> Row \cup {NoRow}]
      BY DEF Init
    <2> QED BY <2>1, <2>2, <2>3 DEF TableInv, PhotoOfNamesake, MBIDs
  <1>2. WorkInv
    <2>1. ~NoJob.known
      BY DEF NoJob
    <2> QED BY <2>1, ImagesAssumption DEF Init, WorkInv, ConstantsAssumption
  <1> QED BY <1>1, <1>2 DEF ImagesInv

(* A lookup ends with a photo, of a namesake or guessed, or with a mark.    *)
LEMMA ResolveOK == ASSUME ImagesInv, Resolve PROVE ImagesInv'
  <1>1. TableInv /\ WorkInv /\ job \in Job /\ Own(job) /\ job.name \in Names
    BY DEF ImagesInv, WorkInv, Resolve, Job
  <1>2. PICK f \in Found(job) :
          IF f # None THEN SetArtistImage(job.name, f, Guess(job, f)) ELSE MarkImageChecked(job.name)
    BY DEF Resolve
  <1>3. TableInv'
    <2>1. CASE f # None
      <3>1. f \in Acts /\ (Guess(job, f) \/ Name[f] = job.name) /\ Guess(job, f) \in BOOLEAN
        BY <1>1, <2>1, FoundOK DEF Guess
      <3> QED BY <1>1, <1>2, <2>1, <3>1, SetArtistImageOK
    <2>2. CASE f = None
      BY <1>1, <1>2, <2>2, MarkImageCheckedOK
    <2> QED BY <2>1, <2>2
  <1>4. WorkInv'
    <2>1. ~NoJob.known
      BY DEF NoJob
    <2> QED BY <1>1, <2>1 DEF Resolve, WorkInv
  <1> QED BY <1>3, <1>4 DEF ImagesInv

(* Every step keeps the inductive invariant.                                *)
LEMMA ImagesNextOK == ImagesInv /\ [Next]_vars => ImagesInv'
  <1> SUFFICES ASSUME ImagesInv, [Next]_vars PROVE ImagesInv'
    OBVIOUS
  <1>0. TableInv /\ WorkInv
    BY DEF ImagesInv
  <1>1. ASSUME UNCHANGED <<row, order>> PROVE TableInv'
    BY <1>0, <1>1 DEF TableInv, PhotoOfNamesake
  <1>2. ASSUME UNCHANGED <<detail, queue, job, seen, offers, restarts>> PROVE WorkInv'
    BY <1>0, <1>2 DEF WorkInv
  <1>3. ASSUME NEW n \in Names, NEW m \in Acts \cup {NoAct}, Visit(n, m) PROVE ImagesInv'
    BY <1>0, <1>1, <1>3, OfferKeepsWork DEF Visit, ImagesInv
  <1>4. ASSUME NEW n \in Names, NEW m \in Acts \cup {NoAct}, Entry(n, m) PROVE ImagesInv'
    BY <1>0, <1>4, OfferKeepsWork, UpsertOK DEF Entry, ImagesInv
  <1>5. ASSUME NEW n \in Names, NEW m \in Acts \cup {NoAct}, Enrich(n, m) PROVE ImagesInv'
    BY <1>0, <1>2, <1>5, UpsertOK DEF Enrich, ImagesInv
  <1>6. ASSUME NEW a \in Acts, ChartPicture(a) PROVE ImagesInv'
    <2>1. picture(a) = a /\ Name[a] \in Names
      BY <1>6, PictureOK, ImagesAssumption DEF ChartPicture, ConstantsAssumption
    <2> QED BY <1>0, <1>2, <1>6, <2>1, SetArtistImageOK DEF ChartPicture, ImagesInv
  <1>7. ASSUME NEW a \in Acts, FetchDetail(a) PROVE ImagesInv'
    <2>1. WorkInv'
      BY <1>0, <1>7 DEF FetchDetail, WorkInv
    <2> QED BY <1>1, <1>7, <2>1 DEF FetchDetail, ImagesInv
  <1>8. CASE Take
    BY <1>0, <1>1, <1>8, TakeKeepsWork DEF Take, ImagesInv
  <1>9. CASE Resolve
    BY <1>9, ResolveOK
  <1>10. CASE Backfill
    BY <1>0, <1>1, <1>10, BackfillKeepsWork DEF Backfill, ImagesInv
  <1>11. ASSUME NEW n \in Names, Forget(n) PROVE ImagesInv'
    <2>1. WorkInv'
      BY <1>0, <1>11 DEF Forget, WorkInv
    <2> QED BY <1>1, <1>11, <2>1 DEF Forget, ImagesInv
  <1>12. CASE Restart
    <2>1. ~NoJob.known
      BY DEF NoJob
    <2>2. WorkInv'
      BY <1>0, <1>12, <2>1, ImagesAssumption DEF Restart, WorkInv, ConstantsAssumption
    <2> QED BY <1>1, <1>12, <2>2 DEF Restart, ImagesInv
  <1>13. CASE UNCHANGED vars
    BY <1>1, <1>2, <1>13 DEF vars, ImagesInv
  <1> QED BY <1>3, <1>4, <1>5, <1>6, <1>7, <1>8, <1>9, <1>10, <1>11, <1>12, <1>13 DEF Next

(* The inductive invariant of pictures: rows, queued jobs and the job in    *)
(* hand only ever pair a name with an act of that name, or with the first   *)
(* result of a search for it where there was no MBID to ask for.            *)
THEOREM ImagesInvariance == Spec => []ImagesInv
  BY ImagesInitOK, ImagesNextOK, PTL DEF Spec

(* The variables keep their types, for any acts, names and answers; in      *)
(* particular the channel never holds more than its capacity, and the rows  *)
(* in order are those that are there.                                       *)
THEOREM ImagesTypes == Spec => []TypeOK
  <1>1. ImagesInv => TypeOK
    BY DEF ImagesInv, TableInv, WorkInv, TypeOK
  <1> QED BY <1>1, ImagesInvariance, PTL

(* A stored picture is a photo, never Deezer's silhouette, and one of an    *)
(* act of that name, whichever of the worker, the charts and the pages      *)
(* wrote last and whichever job had the MBID (SetArtistImage and its        *)
(* callers, ArtistImageFor, picture); unless it is what TheAudioDB's search *)
(* by name put first, which the code stores as it comes (images.go:534-551).*)
THEOREM PicturesOfNamesakes == Spec => []PhotoOfNamesake
  <1>1. ImagesInv => PhotoOfNamesake
    BY DEF ImagesInv, TableInv
  <1> QED BY <1>1, ImagesInvariance, PTL

(* A lookup that has a discography and several acts to choose from changes  *)
(* the picture to one of an act that shares a title, or not at all          *)
(* (ArtistImageFor and imageWorker).                                        *)
THEOREM PicturesVerified == Spec => VerifiedAmongNamesakes
  <1> DEFINE Sound(n) == Resolve /\ job.name = n /\ row'[n].image # row[n].image
                         /\ job.known /\ Cardinality(Exact(n)) > 1
                           => row'[n].image \in Shared[job.mbid]
             Verified == \A n \in Names : Sound(n)
  <1>1. ASSUME ImagesInv, NEW n \in Names PROVE Sound(n)
    <2> SUFFICES ASSUME Resolve, job.name = n, row'[n].image # row[n].image,
                        job.known, Cardinality(Exact(n)) > 1
                 PROVE  row'[n].image \in Shared[job.mbid]
      OBVIOUS
    <2>1. /\ job \in Job /\ row \in [Names -> Row \cup {NoRow}]
          /\ job.mbid \in Acts /\ job.known = TRUE
      BY <1>1 DEF ImagesInv, TableInv, WorkInv, Resolve, Job
    <2>2. PICK f \in Found(job) :
            IF f # None THEN SetArtistImage(n, f, Guess(job, f)) ELSE MarkImageChecked(n)
      BY DEF Resolve
    <2>3. CASE f = None
      <3>1. CASE row[n].there
        <4> DEFINE s == [row[n] EXCEPT !.checked = TRUE]
        <4>1. row' = [row EXCEPT ![n] = s]
          BY <2>2, <2>3, <3>1 DEF MarkImageChecked
        <4>2. s.image = row[n].image
          BY <2>1, <3>1, CheckedRow DEF NoRow
        <4> HIDE DEF s
        <4> QED BY <2>1, <4>1, <4>2
      <3>2. CASE ~row[n].there
        BY <2>2, <2>3, <3>2 DEF MarkImageChecked
      <3> QED BY <3>1, <3>2
    <2>4. CASE f # None
      <3>1. row'[n].image = f
        <4>1. PICK s : /\ s = [row[n] EXCEPT !.there = TRUE, !.image = f, !.checked = TRUE,
                                              !.guess = Guess(job, f)]
                       /\ row' = [row EXCEPT ![n] = s]
          BY <2>2, <2>4 DEF SetArtistImage
        <4>2. s.image = f
          BY <2>1, <4>1 DEF Row, NoRow
        <4> QED BY <2>1, <4>1, <4>2
      <3>2. CASE f \in AudioDB(job.mbid)
        BY <2>1, <3>1, <3>2, ImagesAssumption DEF AudioDB, ConstantsAssumption
      <3>3. CASE f \in ArtistImageFor(n, job.mbid, TRUE)
        <4>1. Cardinality(Exact(n)) # 1
          OBVIOUS
        <4> QED BY <2>4, <3>1, <3>3, <4>1, VerifiedHit
      <3> QED BY <2>1, <2>2, <2>4, <3>2, <3>3 DEF Found
    <2> QED BY <2>3, <2>4
  <1>2. ImagesInv => Verified
    BY <1>1
  <1>3. Spec => [][Verified]_vars
    <2>1. ImagesInv /\ [Next]_vars => [Verified]_vars
      BY <1>2
    <2> QED BY <2>1, ImagesInvariance, PTL DEF Spec
  <1> QED BY <1>3 DEF VerifiedAmongNamesakes
=============================================================================
