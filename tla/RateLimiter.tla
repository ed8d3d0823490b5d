----------------------------- MODULE RateLimiter -----------------------------
(***************************************************************************)
(* Calls to one upstream service (internal/clients/http.go).               *)
(*                                                                         *)
(* getJSON makes up to three attempts.  Each of them takes the next free   *)
(* slot of the service's limiter, which is a point in time, waits for it   *)
(* without the lock, and sends its request.  A caller whose context ends   *)
(* stops waiting, and its slot passes unused.  Visitors, whose context     *)
(* ends after seconds, and background jobs share the limiter.              *)
(*                                                                         *)
(* Every time is counted from now on, in ticks, so that no clock grows.    *)
(* Passing a slot and sending the request are taken to be one moment.      *)
(***************************************************************************)
EXTENDS Integers

CONSTANTS
  Calls,     \* bound: calls under way at one time
  Gap,       \* between two slots
  Backoff,   \* before the second attempt; before the third it is double
  Deadline,  \* what a visitor's context has left at most
  Late,      \* a timer fires at most so much late
  MaxAhead   \* bound: no call begins when the next slot is further away

Attempts == 3  \* of one call

LimiterConstants ==
  /\ Gap \in Nat \ {0} /\ Backoff \in Nat \ {0} /\ Deadline \in Nat
  /\ Late \in 0 .. (Gap - 1)
  /\ MaxAhead \in Nat

ASSUME RateLimiterAssumption == LimiterConstants

VARIABLES
  ahead,  \* limiter.next, counted from now; not below -Gap, where it no longer matters
  call,   \* call[c]: a getJSON with its local variables
  quiet   \* history: ticks since a request was last sent, up to Gap

limiterVars == <<ahead, call, quiet>>

Forever == Deadline + 1  \* a context without an end

(* The next thing a call does, its number of the attempt, the time until    *)
(* its timer fires and until ctx.Done(), 0 when the context is over.        *)
Idle == [pc |-> "idle", attempt |-> 1, left |-> 0, context |-> Forever]
-----------------------------------------------------------------------------
Become(c, r) == call' = [call EXCEPT ![c] = r]

(* getJSON.  One call may be a page of many under one context, so there may *)
(* be little left of that, or nothing.                                      *)
Begin(c, context) ==
  /\ call[c] = Idle /\ ahead <= MaxAhead
  /\ Become(c, [Idle EXCEPT !.pc = "reserve", !.context = context])
  /\ UNCHANGED <<ahead, quiet>>

Slip_NextSlot == ahead  \* after a pause the slots of the past are handed out

(* "if l.next.Before(now) { l.next = now }"                                 *)
NextSlot == IF ahead < 0 THEN 0 ELSE ahead

(* limiter.wait up to the select.  Without a wait the context is not asked. *)
Reserve(c) ==
  /\ call[c].pc = "reserve"
  /\ ahead' = NextSlot + Gap
  /\ IF NextSlot <= 0 THEN Become(c, [call[c] EXCEPT !.pc = "send"]) /\ quiet' = 0
     ELSE Become(c, [call[c] EXCEPT !.pc = "wait", !.left = NextSlot]) /\ UNCHANGED quiet

Pass(c) ==
  /\ call[c].pc = "wait" /\ call[c].left <= 0
  /\ Become(c, [call[c] EXCEPT !.pc = "send", !.left = 0])
  /\ quiet' = 0
  /\ UNCHANGED ahead

(* ctx.Done() in either select; the slot stays taken.                       *)
GiveUp(c) ==
  /\ call[c].pc \in {"wait", "backoff"} /\ call[c].context = 0
  /\ Become(c, Idle)
  /\ UNCHANGED <<ahead, quiet>>

(* An answer, good or a 4xx, while the context lives.                       *)
Answer(c) ==
  /\ call[c].pc = "send" /\ call[c].context > 0
  /\ Become(c, Idle)
  /\ UNCHANGED <<ahead, quiet>>

Slip_Fail(c) ==  \* counts no attempts
  /\ call[c].pc = "send"
  /\ Become(c, [call[c] EXCEPT !.pc = "backoff", !.left = Backoff])
  /\ UNCHANGED <<ahead, quiet>>

(* A dropped connection, 429, 5xx, a timeout, a dead context.               *)
Fail(c) ==
  /\ call[c].pc = "send"
  /\ Become(c, IF call[c].attempt = Attempts THEN Idle
               ELSE [call[c] EXCEPT !.pc = "backoff", !.left = call[c].attempt * Backoff,
                                    !.attempt = @ + 1])
  /\ UNCHANGED <<ahead, quiet>>

Resume(c) ==
  /\ call[c].pc = "backoff" /\ call[c].left <= 0
  /\ Become(c, [call[c] EXCEPT !.pc = "reserve", !.left = 0])
  /\ UNCHANGED <<ahead, quiet>>

Step(c) == Reserve(c) \/ Pass(c) \/ GiveUp(c) \/ Answer(c) \/ Fail(c) \/ Resume(c)

Waiting(c) == call[c].pc \in {"wait", "backoff"}

(* Time passes, but no timer is forgotten.                                  *)
Tick ==
  /\ \A c \in Calls : Waiting(c) => call[c].left > -Late
  /\ ahead' = IF ahead > -Gap THEN ahead - 1 ELSE ahead
  /\ quiet' = IF quiet < Gap THEN quiet + 1 ELSE quiet
  /\ call' = [c \in Calls |->
       [call[c] EXCEPT !.left    = IF Waiting(c) THEN @ - 1 ELSE @,
                       !.context = IF @ \in 1 .. Deadline THEN @ - 1 ELSE @]]

LimiterInit ==
  /\ ahead = -Gap
  /\ call = [c \in Calls |-> Idle]
  /\ quiet = Gap

LimiterNext ==
  \/ \E c \in Calls : Step(c) \/ \E context \in 0 .. Forever : Begin(c, context)
  \/ Tick

(* Goroutines run, a request is answered or times out, time goes on.        *)
LimiterSpec ==
  /\ LimiterInit /\ [][LimiterNext]_limiterVars
  /\ WF_limiterVars(Tick) /\ \A c \in Calls : WF_limiterVars(Step(c))
-----------------------------------------------------------------------------
(* "MusicBrainz bans clients that exceed 1 rps" (http.go:4): however calls, *)
(* retries and abandoned waits mix, requests are sent at least a gap apart, *)
(* less what a timer may be late; 0.9 a second leaves it a ninth of one.    *)
RateKept ==
  [][ \A c \in Calls : call[c].pc # "send" /\ call'[c].pc = "send" => quiet >= Gap - Late ]_limiterVars

(* Every call ends, whatever the service does and however many slots are    *)
(* taken by calls that have given up: "so a slow third party can never      *)
(* stall" (http.go:5).                                                      *)
CallsEnd == \A c \in Calls : call[c].pc # "idle" ~> call[c].pc = "idle"
=============================================================================
