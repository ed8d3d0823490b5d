------------------------- MODULE RequestFulfilment -------------------------
(***************************************************************************)
(* Music requests and their fulfilment (internal/server/requests.go).      *)
(*                                                                         *)
(* A request is a row of the SQLite table `requests`.  HTTP handlers       *)
(* create, approve, reject, retry and delete rows; an approval starts a    *)
(* goroutine, a PUSH, that talks to Lidarr for up to ten minutes and then  *)
(* writes "sent" or "failed" into the row by its id.  A push keeps the     *)
(* copy of the row it read when it started and never looks at the row      *)
(* again, while handlers, other pushes and restarts go on around it.       *)
(*                                                                         *)
(* SQLite runs with one connection, so a statement is one atomic step; a   *)
(* push takes one step per statement and per call to Lidarr.               *)
(*                                                                         *)
(* An operator Slip_X is X with a plausible mistake.  No action uses it: it *)
(* serves to see that a property notices the mistake.                      *)
(***************************************************************************)
EXTENDS Integers, FiniteSets

CONSTANTS
  Users,         \* accounts that submit requests
  AutoApproved,  \* admins and users with can_auto_approve
  Targets,       \* what the open-request index tells apart: artist name as
                 \* typed, with an album MBID as typed or without one
  Artists,       \* artists Lidarr tells apart
  Albums,        \* release groups Lidarr tells apart (letter case folded)
  Artist,        \* Artist[t]: the artist a target resolves to
  Album,         \* Album[t]: the release group it names, or NoAlbum
  NoAlbum, NoUser, NoTarget,
  Pushes,        \* bound: the goroutines and batch handlers ever started
  MaxId,         \* bound: row ids
  MaxInserts,    \* bound: rows ever inserted
  MaxPolls       \* bound: polls of Lidarr's album list (60 in the code)

ConstantsAssumption ==
  /\ AutoApproved \subseteq Users
  /\ Artist \in [Targets -> Artists]
  /\ Album \in [Targets -> Albums \cup {NoAlbum}]
  /\ NoAlbum \notin Albums
  /\ NoUser \notin Users
  /\ NoTarget \notin Targets
  /\ \A t, u \in Targets :
        Album[t] = Album[u] /\ Album[t] # NoAlbum => Artist[t] = Artist[u]
  /\ MaxId \in Nat \ {0}
  /\ MaxInserts \in Nat
  /\ MaxPolls \in Nat \ {0}

ASSUME FulfilmentAssumption == ConstantsAssumption

VARIABLES
  row,        \* row[i]: the request stored under rowid i, or NoRow
  inserts,    \* how many rows have been inserted
  push,       \* push[p]: a goroutine's program counter and local variables
  mode,       \* Lidarr: how each artist is in its library
  listed,     \* Lidarr: albums its album list shows
  monitored,  \* Lidarr: albums this program switched to monitored
  searched,   \* Lidarr: albums it accepted a search command for
  (* history variables: no guard reads them *)
  lost,       \* ids whose approval no goroutine is working on any more
  tainted     \* ids whose status was written by a push started for a row
              \* that has since been deleted

lidarr  == <<mode, listed, monitored, searched>>
history == <<lost, tainted>>
vars    == <<row, inserts, push, lidarr, history>>

Ids == 1 .. MaxId

Open   == {"pending", "approved", "sent"}
Status == Open \cup {"rejected", "failed"}
NoRow  == [status |-> "absent", user |-> NoUser, target |-> NoTarget]
Row    == [status : Status \cup {"absent"},
           user   : Users \cup {NoUser},
           target : Targets \cup {NoTarget}]

(* How an artist can be in Lidarr's library: not at all, put there by its   *)
(* own users, or added by this program with "none" or "all" monitored.      *)
Mode == {"absent", "existing", "none", "all"}

Step == {"idle", "done", "create", "load", "connect", "find", "add", "refind",
         "addAll", "poll", "monitor", "search", "record"}

Idle == [pc |-> "idle", batch |-> FALSE, user |-> NoUser, pick |-> {},
         todo |-> {}, snap |-> [i \in Ids |-> NoTarget], live |-> TRUE,
         polls |-> 0, found |-> {}, out |-> [i \in Ids |-> "none"],
         gone |-> {}]
Done == [Idle EXCEPT !.pc = "done"]

Push == [pc    : Step,
         batch : BOOLEAN,                        \* pushAlbumBatch?
         user  : Users \cup {NoUser},            \* batch handler: who asks
         pick  : SUBSET Targets,                 \* batch handler: not yet inserted
         todo  : SUBSET Ids,                     \* rows not yet read
         snap  : [Ids -> Targets \cup {NoTarget}], \* the rows as read
         live  : BOOLEAN,                        \* the 10-minute context
         polls : 0 .. (MaxPolls - 1),
         found : SUBSET Albums,
         out   : [Ids -> {"none", "sent", "failed"}], \* outcomes left to write
         gone  : SUBSET Ids]                     \* history: rows deleted since
-----------------------------------------------------------------------------
(* The request table.                                                       *)

(* Push p still has to read row i or to write its outcome.  A batch handler *)
(* whose user is not auto-approved will start no push for its rows.         *)
Owes(p, i) ==
  \/ i \in push[p].todo /\ (push[p].pc = "create" => push[p].user \in AutoApproved)
  \/ push[p].snap[i] # NoTarget /\ (push[p].pc = "record" => push[p].out[i] # "none")

(* rowid of the next INSERT: one above the largest in use.  The table has   *)
(* no AUTOINCREMENT, so the id of a deleted last row is handed out again.   *)
IsNextId(i) ==
  /\ \A j \in Ids : j >= i => row[j] = NoRow
  /\ \A j \in Ids : j = i - 1 => row[j] # NoRow

Slip_IndexAllows(i, user, target) ==  \* an index that forgets "sent"
  \A j \in Ids \ {i} :
    row[j].status \in Open \ {"sent"} => <<row[j].user, row[j].target>> # <<user, target>>

(* idx_requests_unique_open2: one open row per user, artist name, album.    *)
IndexAllows(i, user, target) ==
  \A j \in Ids \ {i} : row[j].status \in Open => <<row[j].user, row[j].target>> # <<user, target>>

(* UpdateRequestStatus: an UPDATE by id, refused when it would open a       *)
(* second row for the same key and without effect when the row is gone.     *)
MayBecome(i, s) == s \in Open => IndexAllows(i, row[i].user, row[i].target)
WithStatus(i, s) ==
  IF row[i] # NoRow /\ MayBecome(i, s) THEN [row EXCEPT ![i].status = s] ELSE row

Initially(u) == IF u \in AutoApproved THEN "approved" ELSE "pending"

InsertRow(i, u, t) ==
  /\ inserts < MaxInserts /\ inserts' = inserts + 1
  /\ IsNextId(i)
  /\ IndexAllows(i, u, t)
  /\ row' = [row EXCEPT ![i] = [status |-> Initially(u), user |-> u, target |-> t]]
  /\ UNCHANGED history

(* A status written by a handler starts the history of row i afresh.        *)
Forget(i) == lost' = lost \ {i} /\ tainted' = tainted \ {i}

(* go s.pushToLidarr(i)                                                     *)
Go(p, i, gone) ==
  /\ push[p] = Idle
  /\ push' = [push EXCEPT ![p] = [Idle EXCEPT !.pc = "load", !.todo = {i}, !.gone = gone]]
-----------------------------------------------------------------------------
(* HTTP handlers.                                                           *)

Slip_Create(u, t) ==  \* pushes without a look at the status
  /\ \E i \in Ids : InsertRow(i, u, t) /\ \E p \in Pushes : Go(p, i, {})
  /\ UNCHANGED lidarr

(* handleRequestCreate                                                      *)
Create(u, t) ==
  /\ \E i \in Ids :
       /\ InsertRow(i, u, t)
       /\ IF u \in AutoApproved THEN \E p \in Pushes : Go(p, i, {})
                                ELSE UNCHANGED push
  /\ UNCHANGED lidarr

(* handleRequestBatch: the handler inserts one row after another, with      *)
(* other statements in between, and starts one push for all of them.        *)
BatchStart(p, u, picked) ==
  /\ push[p] = Idle
  /\ picked # {}
  /\ \A t, v \in picked : Album[t] # NoAlbum /\ Artist[t] = Artist[v]
  /\ push' = [push EXCEPT ![p] = [Idle EXCEPT !.pc = "create", !.batch = TRUE,
                                              !.user = u, !.pick = picked]]
  /\ UNCHANGED <<row, inserts, lidarr, history>>

BatchInsert(p, t) ==
  /\ push[p].pc = "create"
  /\ t \in push[p].pick
  /\ LET u    == push[p].user
         left == push[p].pick \ {t}
         Advance(ids) ==
           push' = [push EXCEPT ![p] =
             IF left # {}
               THEN [push[p] EXCEPT !.pick = left, !.todo = ids]
               ELSE IF u \in AutoApproved /\ ids # {}
                 THEN [push[p] EXCEPT !.pick = {}, !.todo = ids, !.pc = "load", !.user = NoUser]
                 ELSE Done]
     IN  \/ \E i \in Ids : InsertRow(i, u, t) /\ Advance(push[p].todo \cup {i})
         \/ (* the INSERT fails (in the model also when ids run out) *)
            /\ \A i \in Ids : ~(IsNextId(i) /\ IndexAllows(i, u, t) /\ inserts < MaxInserts)
            /\ Advance(push[p].todo)
            /\ UNCHANGED <<row, inserts, history>>
  /\ UNCHANGED lidarr

(* handleRequestApprove: no look at the status, not even at whether the row *)
(* exists.  A violated index makes the UPDATE fail and nothing is started.  *)
Approve(i, p) ==
  /\ MayBecome(i, "approved")
  /\ row' = WithStatus(i, "approved")
  /\ Forget(i)
  /\ Go(p, i, IF row[i] = NoRow THEN {i} ELSE {})
  /\ UNCHANGED <<inserts, lidarr>>

Slip_Retry(i, p) ==  \* starts over without marking the row
  /\ row[i].status = "failed"
  /\ Go(p, i, {})
  /\ UNCHANGED <<row, inserts, lidarr, history>>

(* handleRequestRetry: the same statements as an approval.                  *)
Retry(i, p) == Approve(i, p)

(* handleRequestReject                                                      *)
Reject(i) ==
  /\ row[i] # NoRow
  /\ row' = WithStatus(i, "rejected")
  /\ Forget(i)
  /\ UNCHANGED <<inserts, push, lidarr>>

(* handleRequestDelete: by the owner or by any admin, whatever the status.  *)
Delete(i) ==
  /\ row[i] # NoRow
  /\ row' = [row EXCEPT ![i] = NoRow]
  /\ push' = [p \in Pushes |->
                IF Owes(p, i) THEN [push[p] EXCEPT !.gone = @ \cup {i}] ELSE push[p]]
  /\ Forget(i)
  /\ UNCHANGED <<inserts, lidarr>>
-----------------------------------------------------------------------------
(* Pushes.                                                                  *)

Held(p)    == {i \in Ids : push[p].snap[i] # NoTarget}
Wanted(p)  == {Album[push[p].snap[i]] : i \in Held(p)}
IsAlbum(p) == push[p].batch \/ Wanted(p) # {NoAlbum}

(* The artist the push is about: a batch takes it from its first request.   *)
First(p)    == CHOOSE i \in Held(p) : \A j \in Held(p) : i <= j
ArtistOf(p) == Artist[push[p].snap[First(p)]]
AlbumsOf(a) == {Album[t] : t \in {u \in Targets : Artist[u] = a}}

To(p, step) == push' = [push EXCEPT ![p].pc = step]

Slip_Fail(p) ==  \* logs the error and returns
  push' = [push EXCEPT ![p] = Done] /\ UNCHANGED lost

(* fail / failAll: every row the push read is to become "failed".           *)
Fail(p) ==
  /\ push' = [push EXCEPT ![p].pc = "record",
                          ![p].out = [i \in Ids |-> IF i \in Held(p) THEN "failed" ELSE "none"]]
  /\ UNCHANGED lost

(* The batch files its requests under the folded album id, so of two that   *)
(* differ in spelling only the last one is kept: the other is never written.*)
Kept(p) == {i \in Held(p) : \A j \in Held(p) :
              Album[push[p].snap[j]] = Album[push[p].snap[i]] => j <= i}
Slip_Conclude(p, sent) ==  \* leaves out the albums Lidarr never listed
  /\ push' = [push EXCEPT ![p].pc = "record",
                          ![p].out = [i \in Ids |->
                             IF i \in Kept(p) /\ Album[push[p].snap[i]] \in sent
                               THEN "sent" ELSE "none"]]
  /\ UNCHANGED lost
Conclude(p, sent) ==
  /\ push' = [push EXCEPT ![p].pc = "record",
                          ![p].out = [i \in Ids |->
                             IF i \notin Kept(p) THEN "none"
                             ELSE IF Album[push[p].snap[i]] \in sent THEN "sent" ELSE "failed"]]
  /\ lost' = lost \cup {i \in Held(p) \ Kept(p) : row[i].status = "approved"}

(* RequestByID for each id; a row that is gone is dropped, and a push that  *)
(* holds no row ends.  The status of the row is read but not looked at.     *)
Load(p) ==
  /\ push[p].pc = "load"
  /\ \E i \in push[p].todo :
       LET left == push[p].todo \ {i}
           read == [push[p].snap EXCEPT ![i] = row[i].target]
       IN push' = [push EXCEPT ![p] =
                     IF left # {} THEN [push[p] EXCEPT !.todo = left, !.snap = read]
                     ELSE IF \E j \in Ids : read[j] # NoTarget
                       THEN [push[p] EXCEPT !.todo = {}, !.snap = read, !.pc = "connect"]
                       ELSE Done]
  /\ UNCHANGED <<row, inserts, lidarr, lost, tainted>>

(* First active Lidarr instance, its API key and profile settings, and the  *)
(* artist's MBID looked up by name when the request has none: any of them   *)
(* may be missing.                                                          *)
Connect(p) ==
  /\ push[p].pc = "connect"
  /\ \/ To(p, IF IsAlbum(p) THEN "find" ELSE "addAll") /\ UNCHANGED lost
     \/ Fail(p)
  /\ UNCHANGED <<row, inserts, lidarr, tainted>>

(* FindArtistID before the artist is added.  A dead context fails the call. *)
Find(p) ==
  /\ push[p].pc = "find"
  /\ \/ /\ push[p].live
        /\ To(p, IF mode[ArtistOf(p)] = "absent" THEN "add" ELSE "poll")
        /\ UNCHANGED lost
     \/ Fail(p)
  /\ UNCHANGED <<row, inserts, lidarr, tainted>>

(* AddArtist with nothing monitored.  A duplicate is looked up again; any   *)
(* other error fails the push, also when Lidarr did add the artist.         *)
Add(p) ==
  /\ push[p].pc = "add"
  /\ LET a == ArtistOf(p)
         added == [mode EXCEPT ![a] = "none"]
     IN \/ /\ push[p].live /\ mode[a] = "absent"
           /\ mode' = added
           /\ To(p, "poll") /\ UNCHANGED lost
        \/ /\ push[p].live /\ mode[a] # "absent"
           /\ To(p, "refind")
           /\ UNCHANGED <<mode, lost>>
        \/ /\ mode' \in IF push[p].live /\ mode[a] = "absent" THEN {mode, added} ELSE {mode}
           /\ Fail(p)
  /\ UNCHANGED <<row, inserts, listed, monitored, searched, tainted>>

(* FindArtistID after a duplicate: its error is dropped and leaves id 0.    *)
Refind(p) ==
  /\ push[p].pc = "refind"
  /\ \/ /\ push[p].live /\ mode[ArtistOf(p)] # "absent"
        /\ To(p, "poll") /\ UNCHANGED lost
     \/ Fail(p)
  /\ UNCHANGED <<row, inserts, lidarr, tainted>>

(* AddArtist for an artist-level request, everything monitored and searched;*)
(* an artist Lidarr already has, however it is monitored, counts as sent.   *)
AddAll(p) ==
  /\ push[p].pc = "addAll"
  /\ LET a == ArtistOf(p)
         added == [mode EXCEPT ![a] = "all"]
     IN \/ /\ push[p].live
           /\ mode' = IF mode[a] = "absent" THEN added ELSE mode
           /\ Conclude(p, {NoAlbum})
        \/ /\ mode' \in IF push[p].live /\ mode[a] = "absent" THEN {mode, added} ELSE {mode}
           /\ Fail(p)
  /\ UNCHANGED <<row, inserts, listed, monitored, searched, tainted>>

Slip_MorePolls(p) == push[p].polls < MaxPolls  \* one round too many
MorePolls(p) == push[p].polls + 1 < MaxPolls

(* One round of the poll loop: an album listing, then five seconds or the   *)
(* end of the context.  A single push fails when the context ends or the    *)
(* rounds run out; a batch goes on with the albums found so far.            *)
Poll(p) ==
  /\ push[p].pc = "poll"
  /\ \E seen \in {push[p].found} \cup
                  (IF push[p].live
                     THEN {push[p].found \cup (Wanted(p) \cap AlbumsOf(ArtistOf(p)) \cap listed)}
                     ELSE {}) :
       IF seen = Wanted(p)
         THEN push' = [push EXCEPT ![p].pc = "monitor", ![p].found = seen] /\ UNCHANGED lost
       ELSE IF push[p].live /\ MorePolls(p)
         THEN push' = [push EXCEPT ![p].polls = @ + 1, ![p].found = seen] /\ UNCHANGED lost
       ELSE IF ~push[p].batch THEN Fail(p)
       ELSE IF seen = {} THEN Conclude(p, {})
       ELSE push' = [push EXCEPT ![p].pc = "monitor", ![p].found = seen] /\ UNCHANGED lost
  /\ UNCHANGED <<row, inserts, lidarr, tainted>>

(* MonitorAlbums; an error fails the push, whether or not Lidarr acted.     *)
Monitor(p) ==
  /\ push[p].pc = "monitor"
  /\ LET done == monitored \cup push[p].found
     IN \/ /\ push[p].live
           /\ monitored' = done
           /\ To(p, "search") /\ UNCHANGED lost
        \/ /\ monitored' \in {monitored} \cup (IF push[p].live THEN {done} ELSE {})
           /\ Fail(p)
  /\ UNCHANGED <<row, inserts, mode, listed, searched, tainted>>

Slip_Search(p) ==  \* ignores the error of the call
  /\ push[p].pc = "search"
  /\ searched' \in {searched} \cup (IF push[p].live THEN {searched \cup push[p].found} ELSE {})
  /\ Conclude(p, push[p].found)
  /\ UNCHANGED <<row, inserts, mode, listed, monitored, tainted>>

(* SearchAlbums, and the outcome of every request is known.                 *)
Search(p) ==
  /\ push[p].pc = "search"
  /\ LET done == searched \cup push[p].found
     IN \/ /\ push[p].live
           /\ searched' = done
           /\ Conclude(p, push[p].found)
        \/ /\ searched' \in {searched} \cup (IF push[p].live THEN {done} ELSE {})
           /\ Fail(p)
  /\ UNCHANGED <<row, inserts, mode, listed, monitored, tainted>>

(* One of the closing UpdateRequestStatus calls; its error is ignored.      *)
Record(p) ==
  /\ push[p].pc = "record"
  /\ \E i \in Ids :
       LET rest == [push[p].out EXCEPT ![i] = "none"]
       IN /\ push[p].out[i] # "none"
          /\ row' = WithStatus(i, push[p].out[i])
          /\ IF row' # row
               THEN /\ lost' = lost \ {i}
                    /\ tainted' = IF i \in push[p].gone THEN tainted \cup {i} ELSE tainted \ {i}
               ELSE UNCHANGED <<lost, tainted>>
          /\ push' = [push EXCEPT ![p] =
                        IF \A j \in Ids : rest[j] = "none" THEN Done
                                                           ELSE [push[p] EXCEPT !.out = rest]]
  /\ UNCHANGED <<inserts, lidarr>>

PushStep(p) ==
  \/ Load(p) \/ Connect(p) \/ Find(p) \/ Add(p) \/ Refind(p) \/ AddAll(p)
  \/ Poll(p) \/ Monitor(p) \/ Search(p) \/ Record(p)
-----------------------------------------------------------------------------
(* The rest of the world.                                                   *)

(* The ten minutes of a push are over.  Only the poll loop tells this from  *)
(* an error of the call in hand, so only there it is a step of its own.     *)
Expire(p) ==
  /\ push[p].pc = "poll"
  /\ push[p].live
  /\ push' = [push EXCEPT ![p].live = FALSE]
  /\ UNCHANGED <<row, inserts, lidarr, history>>

(* Lidarr fetches the albums of an artist it has, in its own time.          *)
ListAlbum(t) ==
  /\ Album[t] # NoAlbum
  /\ mode[Artist[t]] # "absent"
  /\ listed' = listed \cup {Album[t]}
  /\ UNCHANGED <<row, inserts, push, mode, monitored, searched, history>>

(* The process dies or is shut down (main waits for no push and no handler) *)
(* and starts again.  Nothing picks approved rows up.                       *)
Restart ==
  /\ push' = [p \in Pushes |-> IF push[p] = Idle THEN Idle ELSE Done]
  /\ lost' = {i \in Ids : row[i].status = "approved"}
  /\ UNCHANGED <<row, inserts, lidarr, tainted>>
-----------------------------------------------------------------------------
Init ==
  /\ row = [i \in Ids |-> NoRow]
  /\ inserts = 0
  /\ push = [p \in Pushes |-> Idle]
  /\ mode \in [Artists -> {"absent", "existing"}]
  /\ listed = {} /\ monitored = {} /\ searched = {}
  /\ lost = {} /\ tainted = {}

Next ==
  \/ \E u \in Users, t \in Targets : Create(u, t)
  \/ \E p \in Pushes, u \in Users, picked \in SUBSET Targets : BatchStart(p, u, picked)
  \/ \E p \in Pushes, t \in Targets : BatchInsert(p, t)
  \/ \E i \in Ids, p \in Pushes : Approve(i, p) \/ Retry(i, p)
  \/ \E i \in Ids : Reject(i) \/ Delete(i)
  \/ \E p \in Pushes : PushStep(p) \/ Expire(p)
  \/ \E t \in Targets : ListAlbum(t)
  \/ Restart

(* Goroutines that can run do run, and each call to Lidarr ends (the HTTP   *)
(* client and the context both time out).  Nobody has to approve anything,  *)
(* Lidarr need not list an album, and the process need not survive.         *)
Fairness == \A p \in Pushes :
              WF_vars(PushStep(p)) /\ WF_vars(\E t \in Targets : BatchInsert(p, t))

Spec == Init /\ [][Next]_vars /\ Fairness
-----------------------------------------------------------------------------
(* Types.                                                                   *)
TypeOK ==
  /\ row \in [Ids -> Row]
  /\ inserts \in 0 .. MaxInserts
  /\ push \in [Pushes -> Push]
  /\ mode \in [Artists -> Mode]
  /\ listed \subseteq Albums /\ monitored \subseteq Albums /\ searched \subseteq Albums
  /\ lost \subseteq Ids /\ tainted \subseteq Ids

(* An approved request always has a push that will write its outcome,       *)
(* unless a restart dropped the push or two spellings of one album met in a *)
(* batch.  In particular the ignored error of the closing UPDATE never      *)
(* leaves a row approved, although another row may hold its key by then.    *)
(* (requests.go:297 "the request row records the outcome either way")       *)
ApprovedHasPush ==
  \A i \in Ids : row[i].status = "approved" => i \in lost \/ \E p \in Pushes : Owes(p, i)

(* A request shown as sent was accepted by Lidarr: its artist is in the     *)
(* library, or its album was monitored and a search for it queued, however  *)
(* many pushes, decisions and retries raced for the row.  The exception is  *)
(* a row that was written by the push of a deleted row with the same id.    *)
Fulfilled(t) == IF Album[t] = NoAlbum THEN mode[Artist[t]] # "absent"
                                      ELSE Album[t] \in monitored \cap searched
SentWasFulfilled ==
  \A i \in Ids : row[i].status = "sent" /\ i \notin tainted => Fulfilled(row[i].target)

(* What a push works on has been approved, and is still the row it was      *)
(* approved as: a request waiting for a decision is in no push's hands,     *)
(* unless it took over the id of a deleted row.                             *)
OnlyApprovedPushed ==
  \A p \in Pushes, i \in Ids :
    /\ Owes(p, i) /\ i \notin push[p].gone
    => /\ row[i].status \notin {"absent", "pending"}
       /\ push[p].snap[i] \in {NoTarget, row[i].target}

(* One open request per user, artist and album.                             *)
OneOpenRequest ==
  \A i, j \in Ids : /\ i # j
                    /\ row[i].status \in Open /\ row[j].status \in Open
                    => <<row[i].user, row[i].target>> # <<row[j].user, row[j].target>>

(* Every approval is settled: the row leaves "approved" unless a restart or *)
(* a batch lost it.                                                         *)
ApprovalSettled ==
  \A i \in Ids : row[i].status = "approved" ~> row[i].status # "approved" \/ i \in lost

(* What the goroutines do to the table is what the ledger of RequestLedger  *)
(* allows: a claim is an outcome that some push still owes, a stale one is  *)
(* owed to a row deleted since.                                             *)
Ledger == INSTANCE RequestLedger WITH
            entry <- row,
            claim <- [p \in Pushes |-> {i \in Ids : Owes(p, i)}],
            stale <- [p \in Pushes |-> {i \in push[p].gone : Owes(p, i)}],
            done  <- {t \in Targets : Fulfilled(t)},
            Jobs  <- Pushes

(* Between approval and outcome a row goes only the ways of the ledger:     *)
(* statuses change by decisions and by one answer per claim, "sent" is an   *)
(* answer Lidarr stands behind, Lidarr is asked for nothing nobody claims,  *)
(* and a claim is given up unanswered only for a deleted row, for the other *)
(* spelling of an album, or by a restart.                                   *)
ImplementsLedger == Ledger!Spec
=============================================================================
