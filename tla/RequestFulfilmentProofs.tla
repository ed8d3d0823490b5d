---------------------- MODULE RequestFulfilmentProofs ----------------------
(***************************************************************************)
(* Proofs about RequestFulfilment for every set of users, targets, artists *)
(* and pushes and every bound: types, the safety invariants that the       *)
(* fulfilment run checks on a small instance, and that it implements the   *)
(* ledger of RequestLedger.                                                *)
(***************************************************************************)
EXTENDS RequestFulfilment, TLAPS, FiniteSetTheorems, WellFoundedInduction

(* A set of ids that is not empty has a largest one.                        *)
LEMMA HasLast ==
  ASSUME NEW n \in Nat, NEW S \in SUBSET (1 .. n), S # {}
  PROVE  \E m \in S : \A i \in S : i <= m
<1> DEFINE Above(m) == {i \in S : i > m}
           T == {Above(m) : m \in S}
           R == StrictSubsetOrdering(S)
<1>1. IsFiniteSet(S)
  <2>1. 1 \in Int /\ n \in Int
    OBVIOUS
  <2>2. IsFiniteSet(1 .. n)
    BY <2>1, FS_Interval
  <2>3. QED
    BY <2>2, FS_Subset
<1>2. FiniteSubsetsOf(S) = SUBSET S
  BY <1>1, FS_FiniteSubsetsOfFinite
<1>3. T \subseteq SUBSET S /\ T # {}
  OBVIOUS
<1>4. \E x \in T : \A y \in T : ~ (<<y, x>> \in R)
  <2> HIDE DEF T, R
  <2>1. IsWellFoundedOn(R, SUBSET S)
    BY <1>2, FS_StrictSubsetOrderingWellFounded DEF R
  <2>2. QED
    BY <1>3, <2>1, WFMin
<1>5. PICK m \in S : \A k \in S : ~ (<<Above(k), Above(m)>> \in R)
  BY <1>4
<1>6. ASSUME NEW i \in S, i > m PROVE FALSE
  <2>1. \A k \in S : k \in Int
    OBVIOUS
  <2>2. \A k \in S : k > i => k > m
    BY <1>6, <2>1
  <2>3. Above(i) \subseteq Above(m)
    BY <2>2
  <2>4. i \in Above(m) /\ i \notin Above(i)
    BY <1>6, <2>1
  <2>5. <<Above(i), Above(m)>> \in R
    BY <2>3, <2>4 DEF StrictSubsetOrdering
  <2>6. QED
    BY <1>5, <2>5
<1>7. QED
  BY <1>6

USE FulfilmentAssumption DEF ConstantsAssumption

(* The types of the idle and the finished push, and of the empty row.       *)
LEMMA ConstantTypes == NoRow \in Row /\ Idle \in Push /\ Done \in Push
  <1>1. NoRow \in Row
    BY DEF NoRow, Row
  <1>2. Idle \in Push
    BY DEF Idle, Push, Step, Ids
  <1>3. [Idle EXCEPT !.pc = "done"] \in Push
    BY <1>2 DEF Push, Step
  <1>4. QED
    BY <1>1, <1>2, <1>3 DEF Done

(* A status update keeps the table well typed.                              *)
LEMMA WithStatusType ==
  ASSUME NEW i \in Ids, NEW s \in Status, row \in [Ids -> Row]
  PROVE  WithStatus(i, s) \in [Ids -> Row]
  <1>1. [row[i] EXCEPT !.status = s] \in Row
    BY DEF Row
  <1>2. QED
    BY <1>1 DEF WithStatus

(* What the steps of a push assign to its fields keeps it well typed.       *)
LEMMA PushEdits ==
  ASSUME NEW q \in Push
  PROVE  /\ \A s \in Step : [q EXCEPT !.pc = s] \in Push
         /\ \A out \in [Ids -> {"none", "sent", "failed"}] :
              [q EXCEPT !.pc = "record", !.out = out] \in Push
         /\ \A gone \in SUBSET Ids : [q EXCEPT !.gone = gone] \in Push
         /\ \A found \in SUBSET Albums : [q EXCEPT !.pc = "monitor", !.found = found] \in Push
         /\ \A found \in SUBSET Albums, n \in 0 .. (MaxPolls - 1) :
              [q EXCEPT !.polls = n, !.found = found] \in Push
         /\ [q EXCEPT !.live = FALSE] \in Push
  <1>1. ASSUME NEW s \in Step PROVE [q EXCEPT !.pc = s] \in Push
    BY DEF Push
  <1>2. ASSUME NEW out \in [Ids -> {"none", "sent", "failed"}]
        PROVE  [q EXCEPT !.pc = "record", !.out = out] \in Push
    BY DEF Push, Step
  <1>3. ASSUME NEW gone \in SUBSET Ids PROVE [q EXCEPT !.gone = gone] \in Push
    BY DEF Push
  <1>4. ASSUME NEW found \in SUBSET Albums
        PROVE  [q EXCEPT !.pc = "monitor", !.found = found] \in Push
    BY DEF Push, Step
  <1>5. ASSUME NEW found \in SUBSET Albums, NEW n \in 0 .. (MaxPolls - 1)
        PROVE  [q EXCEPT !.polls = n, !.found = found] \in Push
    BY DEF Push
  <1>6. [q EXCEPT !.live = FALSE] \in Push
    BY DEF Push
  <1>7. QED
    BY <1>1, <1>2, <1>3, <1>4, <1>5, <1>6

(* Starting a push keeps the pushes well typed.                             *)
LEMMA GoType ==
  ASSUME NEW i \in Ids, NEW p \in Pushes, NEW gone \in SUBSET Ids,
         push \in [Pushes -> Push], Go(p, i, gone)
  PROVE  push' \in [Pushes -> Push]
  <1>1. [Idle EXCEPT !.pc = "load", !.todo = {i}, !.gone = gone] \in Push
    BY ConstantTypes DEF Push, Step
  <1>2. QED
    BY <1>1 DEF Go

(* So do failing and concluding a push.                                     *)
LEMMA RecordType ==
  ASSUME NEW p \in Pushes, NEW out \in [Ids -> {"none", "sent", "failed"}],
         push \in [Pushes -> Push],
         push' = [push EXCEPT ![p].pc = "record", ![p].out = out]
  PROVE  push' \in [Pushes -> Push]
  <1>1. [push[p] EXCEPT !.pc = "record", !.out = out] \in Push
    BY PushEdits
  <1>2. QED
    BY <1>1

(* The pushes stay well typed when one of them fails.                       *)
LEMMA FailType ==
  ASSUME NEW p \in Pushes, TypeOK, Fail(p)
  PROVE  push' \in [Pushes -> Push] /\ lost' \subseteq Ids
  <1>1. [i \in Ids |-> IF i \in Held(p) THEN "failed" ELSE "none"]
           \in [Ids -> {"none", "sent", "failed"}]
    OBVIOUS
  <1>2. QED
    BY <1>1, RecordType DEF TypeOK, Fail

(* The pushes stay well typed when one of them concludes.                   *)
LEMMA ConcludeType ==
  ASSUME NEW p \in Pushes, NEW sent, TypeOK, Conclude(p, sent)
  PROVE  push' \in [Pushes -> Push] /\ lost' \subseteq Ids
  <1>1. [i \in Ids |-> IF i \notin Kept(p) THEN "none"
                       ELSE IF Album[push[p].snap[i]] \in sent THEN "sent" ELSE "failed"]
           \in [Ids -> {"none", "sent", "failed"}]
    OBVIOUS
  <1>2. QED
    BY <1>1, RecordType DEF TypeOK, Conclude, Held

(* The pushes stay well typed when one of them goes on to its next call.    *)
LEMMA ToType ==
  ASSUME NEW p \in Pushes, NEW step \in Step, push \in [Pushes -> Push], To(p, step)
  PROVE  push' \in [Pushes -> Push]
  <1>1. [push[p] EXCEPT !.pc = step] \in Push
    BY PushEdits
  <1>2. QED
    BY <1>1 DEF To

(* Type correctness: every variable keeps the shape the model gives it; in  *)
(* particular the poll counter of a push never reaches its bound            *)
(* (requests.go:389, "attempt < 60").                                       *)
THEOREM TypeCorrect == Spec => []TypeOK
<1>1. Init => TypeOK
  BY ConstantTypes DEF Init, TypeOK, Mode, Ids
<1>2. TypeOK /\ [Next]_vars => TypeOK'
  <2> SUFFICES ASSUME TypeOK, [Next]_vars PROVE TypeOK'
    OBVIOUS
  <2> USE DEF TypeOK, history, lidarr
  <2>1. ASSUME NEW u \in Users, NEW t \in Targets, Create(u, t) PROVE TypeOK'
    <3>1. PICK i \in Ids : /\ InsertRow(i, u, t)
                           /\ (\E p \in Pushes : Go(p, i, {})) \/ UNCHANGED push
      BY <2>1 DEF Create
    <3>2. row' \in [Ids -> Row] /\ inserts' \in 0 .. MaxInserts /\ UNCHANGED history
      BY <3>1 DEF InsertRow, Initially, Row, Status, Open
    <3>3. push' \in [Pushes -> Push]
      BY <3>1, GoType
    <3>4. QED
      BY <2>1, <3>2, <3>3 DEF Create
  <2>2. ASSUME NEW p \in Pushes, NEW u \in Users, NEW picked \in SUBSET Targets,
               BatchStart(p, u, picked)
        PROVE  TypeOK'
    <3>1. [Idle EXCEPT !.pc = "create", !.batch = TRUE, !.user = u, !.pick = picked] \in Push
      BY ConstantTypes DEF Push, Step
    <3>2. QED
      BY <2>2, <3>1 DEF BatchStart
  <2>3. ASSUME NEW p \in Pushes, NEW t \in Targets, BatchInsert(p, t) PROVE TypeOK'
    <3> DEFINE u == push[p].user
               Next1(ids) == [push[p] EXCEPT !.pick = push[p].pick \ {t}, !.todo = ids]
               Next2(ids) == [push[p] EXCEPT !.pick = {}, !.todo = ids, !.pc = "load", !.user = NoUser]
               After(ids) == push' \in {[push EXCEPT ![p] = Next1(ids)],
                                        [push EXCEPT ![p] = Next2(ids)],
                                        [push EXCEPT ![p] = Done]}
    <3>1. push[p] \in Push
      OBVIOUS
    <3>2. ASSUME NEW ids \in SUBSET Ids, After(ids) PROVE push' \in [Pushes -> Push]
      <4>1. Next1(ids) \in Push /\ Next2(ids) \in Push
        BY <3>1 DEF Push, Step
      <4>2. QED
        BY <3>2, <4>1, ConstantTypes
    <3>3. CASE \E i \in Ids : InsertRow(i, u, t) /\ After(push[p].todo \cup {i})
      <4>1. PICK i \in Ids : InsertRow(i, u, t) /\ After(push[p].todo \cup {i})
        BY <3>3, Zenon
      <4>2. push[p].todo \cup {i} \subseteq Ids /\ u \in Users \cup {NoUser}
        BY <3>1 DEF Push
      <4>3. row' \in [Ids -> Row] /\ inserts' \in 0 .. MaxInserts /\ UNCHANGED history
        <5>1. InsertRow(i, u, t)
          BY <4>1, Zenon
        <5>2. QED
          BY <4>2, <5>1 DEF InsertRow, Initially, Row, Status, Open
      <4>4. push' \in [Pushes -> Push]
        BY <3>2, <4>1, <4>2, Zenon
      <4>5. QED
        BY <2>3, <4>3, <4>4, Zenon DEF BatchInsert
    <3>4. CASE After(push[p].todo) /\ UNCHANGED <<row, inserts, history>>
      <4>1. push' \in [Pushes -> Push]
        BY <3>1, <3>2, <3>4 DEF Push
      <4>2. QED
        BY <2>3, <3>4, <4>1, Zenon DEF BatchInsert
    <3>5. QED
      BY <2>3, <3>3, <3>4, Zenon DEF BatchInsert
  <2>4. ASSUME NEW i \in Ids, NEW p \in Pushes, Approve(i, p) PROVE TypeOK'
    BY <2>4, WithStatusType, GoType DEF Approve, Forget, Status, Open
  <2>5. ASSUME NEW i \in Ids, Reject(i) PROVE TypeOK'
    BY <2>5, WithStatusType DEF Reject, Forget, Status
  <2>6. ASSUME NEW i \in Ids, Delete(i) PROVE TypeOK'
    <3>1. \A p \in Pushes : [push[p] EXCEPT !.gone = push[p].gone \cup {i}] \in Push
      <4>1. \A p \in Pushes : push[p] \in Push /\ push[p].gone \cup {i} \in SUBSET Ids
        BY DEF Push
      <4>2. QED
        BY <4>1, PushEdits
    <3>2. push' \in [Pushes -> Push]
      BY <2>6, <3>1 DEF Delete
    <3>3. QED
      BY <2>6, <3>2, ConstantTypes DEF Delete, Forget
  <2>7. ASSUME NEW p \in Pushes, Load(p) PROVE TypeOK'
    <3> DEFINE read(i) == [push[p].snap EXCEPT ![i] = row[i].target]
               Next1(i) == [push[p] EXCEPT !.todo = push[p].todo \ {i}, !.snap = read(i)]
               Next2(i) == [push[p] EXCEPT !.todo = {}, !.snap = read(i), !.pc = "connect"]
    <3>1. PICK i \in push[p].todo :
            push' \in {[push EXCEPT ![p] = Next1(i)], [push EXCEPT ![p] = Next2(i)],
                      [push EXCEPT ![p] = Done]}
      BY <2>7 DEF Load
    <3>2. push[p] \in Push /\ i \in Ids
      BY DEF Push
    <3>3. read(i) \in [Ids -> Targets \cup {NoTarget}]
      BY <3>2 DEF Push, Row
    <3>4. Next1(i) \in Push /\ Next2(i) \in Push
      BY <3>2, <3>3 DEF Push, Step
    <3>5. push' \in [Pushes -> Push]
      BY <3>1, <3>4, ConstantTypes
    <3>6. QED
      BY <2>7, <3>5 DEF Load
  <2>8. ASSUME NEW p \in Pushes, Connect(p) PROVE TypeOK'
    BY <2>8, FailType, ToType DEF Connect, Step
  <2>9. ASSUME NEW p \in Pushes, Find(p) PROVE TypeOK'
    BY <2>9, FailType, ToType DEF Find, Step
  <2>10. ASSUME NEW p \in Pushes, Add(p) PROVE TypeOK'
    <3>1. mode' \in [Artists -> Mode]
      BY <2>10 DEF Add, Mode
    <3>2. push' \in [Pushes -> Push] /\ lost' \subseteq Ids
      BY <2>10, FailType, ToType DEF Add, Step
    <3>3. QED
      BY <2>10, <3>1, <3>2 DEF Add
  <2>11. ASSUME NEW p \in Pushes, Refind(p) PROVE TypeOK'
    BY <2>11, FailType, ToType DEF Refind, Step
  <2>12. ASSUME NEW p \in Pushes, AddAll(p) PROVE TypeOK'
    <3>1. mode' \in [Artists -> Mode]
      BY <2>12 DEF AddAll, Mode
    <3>2. push' \in [Pushes -> Push] /\ lost' \subseteq Ids
      BY <2>12, FailType, ConcludeType DEF AddAll
    <3>3. QED
      BY <2>12, <3>1, <3>2 DEF AddAll
  <2>13. ASSUME NEW p \in Pushes, Poll(p) PROVE TypeOK'
    <3>1. PICK seen \in {push[p].found} \cup {push[p].found \cup (Wanted(p) \cap AlbumsOf(ArtistOf(p)) \cap listed)} :
            \/ push' = [push EXCEPT ![p].pc = "monitor", ![p].found = seen] /\ UNCHANGED lost
            \/ /\ push[p].polls + 1 < MaxPolls
               /\ push' = [push EXCEPT ![p].polls = @ + 1, ![p].found = seen] /\ UNCHANGED lost
            \/ Fail(p)
            \/ Conclude(p, {})
      BY <2>13 DEF Poll, MorePolls
    <3>2. push[p] \in Push
      OBVIOUS
    <3>3. seen \subseteq Albums /\ push[p].polls \in 0 .. (MaxPolls - 1)
      BY <3>1, <3>2 DEF Push
    <3>4. CASE push' = [push EXCEPT ![p].pc = "monitor", ![p].found = seen] /\ UNCHANGED lost
      <4>1. [push[p] EXCEPT !.pc = "monitor", !.found = seen] \in Push
        BY <3>2, <3>3, PushEdits
      <4>2. QED
        BY <2>13, <3>4, <4>1 DEF Poll
    <3>5. CASE /\ push[p].polls + 1 < MaxPolls
               /\ push' = [push EXCEPT ![p].polls = @ + 1, ![p].found = seen]
               /\ UNCHANGED lost
      <4>1. push[p].polls + 1 \in 0 .. (MaxPolls - 1)
        BY <3>3, <3>5
      <4>2. [push[p] EXCEPT !.polls = push[p].polls + 1, !.found = seen] \in Push
        BY <3>2, <3>3, <4>1, PushEdits
      <4>3. QED
        BY <2>13, <3>5, <4>2 DEF Poll
    <3>6. CASE Fail(p) \/ Conclude(p, {})
      BY <2>13, <3>6, FailType, ConcludeType DEF Poll
    <3>7. QED
      BY <3>1, <3>4, <3>5, <3>6
  <2>14. ASSUME NEW p \in Pushes, Monitor(p) PROVE TypeOK'
    <3>1. push[p].found \subseteq Albums
      BY DEF Push
    <3>2. push' \in [Pushes -> Push] /\ lost' \subseteq Ids
      BY <2>14, FailType, ToType DEF Monitor, Step
    <3>3. QED
      BY <2>14, <3>1, <3>2 DEF Monitor
  <2>15. ASSUME NEW p \in Pushes, Search(p) PROVE TypeOK'
    <3>1. push[p].found \subseteq Albums
      BY DEF Push
    <3>2. push' \in [Pushes -> Push] /\ lost' \subseteq Ids
      BY <2>15, FailType, ConcludeType DEF Search
    <3>3. QED
      BY <2>15, <3>1, <3>2 DEF Search
  <2>16. ASSUME NEW p \in Pushes, Record(p) PROVE TypeOK'
    <3> DEFINE rest(i) == [push[p].out EXCEPT ![i] = "none"]
               Left(i) == [push[p] EXCEPT !.out = rest(i)]
    <3>1. PICK i \in Ids :
            /\ push[p].out[i] # "none"
            /\ row' = WithStatus(i, push[p].out[i])
            /\ lost' \subseteq lost
            /\ tainted' \subseteq tainted \cup {i}
            /\ push' \in {[push EXCEPT ![p] = Done], [push EXCEPT ![p] = Left(i)]}
      BY <2>16 DEF Record
    <3>2. push[p] \in Push
      OBVIOUS
    <3>3. push[p].out[i] \in Status /\ Left(i) \in Push
      BY <3>1, <3>2 DEF Push, Status, Open
    <3>4. push' \in [Pushes -> Push]
      BY <3>1, <3>3, ConstantTypes
    <3>5. QED
      BY <2>16, <3>1, <3>3, <3>4, WithStatusType DEF Record
  <2>17. ASSUME NEW p \in Pushes, Expire(p) PROVE TypeOK'
    <3>1. [push[p] EXCEPT !.live = FALSE] \in Push
      BY PushEdits
    <3>2. QED
      BY <2>17, <3>1 DEF Expire
  <2>18. ASSUME NEW t \in Targets, ListAlbum(t) PROVE TypeOK'
    BY <2>18 DEF ListAlbum
  <2>19. CASE Restart
    BY <2>19, ConstantTypes DEF Restart
  <2>20. CASE UNCHANGED vars
    BY <2>20 DEF vars
  <2>21. QED
    BY <2>1, <2>2, <2>3, <2>4, <2>5, <2>6, <2>7, <2>8, <2>9, <2>10, <2>11, <2>12, <2>13,
       <2>14, <2>15, <2>16, <2>17, <2>18, <2>19, <2>20 DEF Next, PushStep, Retry
<1>3. QED
  BY <1>1, <1>2, PTL DEF Spec
-----------------------------------------------------------------------------
(* The inductive invariant.                                                 *)

RowsOK == \A i \in Ids : \/ row[i] = NoRow
                         \/ /\ row[i].status \in Status
                            /\ row[i].user \in Users /\ row[i].target \in Targets

(* What a push knows at each of its steps: a batch handler has read nothing *)
(* yet, a single push has one row in its hands, only a single artist-level  *)
(* request takes the short way, the albums to search are monitored, and an  *)
(* outcome "sent" was earned.                                               *)
OneRow(p)  == push[p].batch \/ \E i \in Ids : \A j \in Ids :
                 j \in push[p].todo \/ push[p].snap[j] # NoTarget => j = i
Earned(p)  == push[p].pc = "record" => \A i \in Ids : push[p].out[i] = "sent" =>
                 push[p].snap[i] # NoTarget /\ Fulfilled(push[p].snap[i])
PushInv(p) ==
  /\ push[p].pc = "create" => /\ push[p].batch /\ push[p].user \in Users
                              /\ \A i \in Ids : push[p].snap[i] = NoTarget
  /\ push[p].pc \notin {"create", "load"} => push[p].todo = {}
  /\ OneRow(p)
  /\ push[p].pc = "addAll" =>
       /\ ~push[p].batch
       /\ \A i \in Ids : push[p].snap[i] # NoTarget => Album[push[p].snap[i]] = NoAlbum
  /\ push[p].pc = "search" => push[p].found \subseteq monitored
  /\ Earned(p)

IInv == /\ RowsOK /\ OneOpenRequest /\ OnlyApprovedPushed /\ ApprovedHasPush /\ SentWasFulfilled
        /\ \A p \in Pushes : PushInv(p)
-----------------------------------------------------------------------------
(* A conversation with Lidarr: a step of push p that leaves the table and   *)
(* the other pushes alone.  What Lidarr has done stays done, and when the   *)
(* step ends the conversation every row p holds has an outcome, an earned   *)
(* one, or is lost; at least one has an outcome.                            *)
SameButFor(p) ==
  /\ \A q \in Pushes \ {p} : push'[q] = push[q]
  /\ push'[p].todo = push[p].todo /\ push'[p].snap = push[p].snap
  /\ push'[p].gone = push[p].gone /\ push'[p].batch = push[p].batch
  /\ push'[p].user = push[p].user

LidarrGrows ==
  /\ monitored \subseteq monitored' /\ searched \subseteq searched'
  /\ \A a \in Artists : mode[a] # "absent" => mode'[a] # "absent"

OutOfHeld(p) ==
  /\ \A i \in Ids : push'[p].out[i] # "none" => i \in Held(p)
  /\ Held(p) # {} => \E i \in Held(p) : push'[p].out[i] # "none"

Talk(p) ==
  /\ UNCHANGED <<row, tainted>> /\ lost \subseteq lost'
  /\ LidarrGrows /\ SameButFor(p)
  /\ push[p].pc \notin {"create", "load", "record"} /\ push'[p].pc \notin {"create", "load"}
  /\ push'[p].pc = "addAll" => PushInv(p)'
  /\ push'[p].pc = "search" => push'[p].found \subseteq monitored'
  /\ Earned(p)'
  /\ push'[p].pc = "record" =>
       /\ \A i \in Held(p) : push'[p].out[i] # "none" \/ i \in lost' \/ row[i].status # "approved"
       /\ OutOfHeld(p)

(* A push keeps what it knows while Lidarr grows around it.                 *)
LEMMA PushInvStays ==
  ASSUME TypeOK, LidarrGrows, NEW q \in Pushes, PushInv(q),
         push'[q].pc = push[q].pc, push'[q].batch = push[q].batch,
         push'[q].user = push[q].user, push'[q].todo = push[q].todo,
         push'[q].snap = push[q].snap, push'[q].found = push[q].found,
         push'[q].out = push[q].out
  PROVE  PushInv(q)'
<1>1. Earned(q)'
  <2> SUFFICES ASSUME push'[q].pc = "record", NEW i \in Ids, push'[q].out[i] = "sent"
               PROVE  push'[q].snap[i] # NoTarget /\ Fulfilled(push[q].snap[i])'
    BY DEF Earned
  <2>1. push[q].snap[i] # NoTarget /\ Fulfilled(push[q].snap[i])
    BY DEF PushInv, Earned
  <2>2. push[q] \in Push
    BY DEF TypeOK
  <2>3. push[q].snap[i] \in Targets
    BY <2>1, <2>2 DEF Push
  <2>4. QED
    BY <2>1, <2>3 DEF LidarrGrows, Fulfilled
<1>2. QED
  BY <1>1 DEF PushInv, OneRow, LidarrGrows

(* A step that leaves the table alone keeps the invariant if no push takes  *)
(* up a row and every approved row stays in some push's hands.              *)
LEMMA TableStays ==
  ASSUME TypeOK, TypeOK', IInv, UNCHANGED <<row, tainted>>, LidarrGrows,
         \A q \in Pushes : PushInv(q)', ApprovedHasPush',
         \A q \in Pushes, i \in Ids : Owes(q, i)' =>
           /\ Owes(q, i) /\ push'[q].gone = push[q].gone
           /\ push'[q].snap[i] \in {push[q].snap[i], row[i].target}
  PROVE  IInv'
<1>1. RowsOK' /\ OneOpenRequest'
  BY DEF IInv, RowsOK, OneOpenRequest
<1>2. OnlyApprovedPushed'
  <2> SUFFICES ASSUME NEW q \in Pushes, NEW i \in Ids, Owes(q, i)', i \notin push'[q].gone
               PROVE  /\ row'[i].status \notin {"absent", "pending"}
                      /\ push'[q].snap[i] \in {NoTarget, row'[i].target}
    BY DEF OnlyApprovedPushed
  <2>1. QED
    BY DEF IInv, OnlyApprovedPushed
<1>3. SentWasFulfilled'
  <2> SUFFICES ASSUME NEW i \in Ids, row'[i].status = "sent", i \notin tainted'
               PROVE  Fulfilled(row[i].target)'
    BY DEF SentWasFulfilled
  <2>1. Fulfilled(row[i].target)
    BY DEF IInv, SentWasFulfilled
  <2>2. row[i].target \in Targets
    BY DEF IInv, RowsOK, NoRow
  <2>3. QED
    BY <2>1, <2>2 DEF LidarrGrows, Fulfilled
<1>4. QED
  BY <1>1, <1>2, <1>3 DEF IInv

(* So do the calls to Lidarr.                                               *)
LEMMA TalkKeepsIInv ==
  ASSUME TypeOK, TypeOK', IInv, NEW p \in Pushes, Talk(p)
  PROVE  IInv'
<1>1. ASSUME NEW q \in Pushes PROVE PushInv(q)'
  <2>1. CASE q = p
    BY <2>1 DEF Talk, SameButFor, PushInv, OneRow, IInv
  <2>2. CASE q # p
    BY <2>2, PushInvStays DEF Talk, SameButFor, IInv
  <2>3. QED
    BY <2>1, <2>2
<1>2. ApprovedHasPush'
  <2> SUFFICES ASSUME NEW i \in Ids, row'[i].status = "approved", i \notin lost'
               PROVE  \E q \in Pushes : Owes(q, i)'
    BY DEF ApprovedHasPush
  <2>1. PICK q \in Pushes : Owes(q, i)
    BY DEF Talk, IInv, ApprovedHasPush
  <2>2. CASE q = p
    <3>1. i \in push[p].todo => Owes(p, i)'
      BY DEF Talk, SameButFor, Owes
    <3>2. i \in Held(p) => Owes(p, i)'
      BY DEF Talk, SameButFor, Owes, Held
    <3>3. QED
      BY <2>1, <2>2, <3>1, <3>2 DEF Owes, Held
  <2>3. CASE q # p
    BY <2>1, <2>3 DEF Talk, SameButFor, Owes
  <2>4. QED
    BY <2>2, <2>3
<1>3. \A q \in Pushes, i \in Ids : Owes(q, i)' =>
         /\ Owes(q, i) /\ push'[q].gone = push[q].gone
         /\ push'[q].snap[i] \in {push[q].snap[i], row[i].target}
  BY DEF Talk, SameButFor, Owes
<1>4. QED
  BY <1>1, <1>2, <1>3, TableStays DEF Talk

(* The three ways such a step leaves the push: further on in the            *)
(* conversation, failed, or concluded.                                      *)
LEMMA ToTalks ==
  ASSUME TypeOK, NEW p \in Pushes, NEW step \in Step, To(p, step)
  PROVE  SameButFor(p) /\ push'[p].pc = step /\ push'[p].found = push[p].found
<1>1. push[p] \in Push
  BY DEF TypeOK
<1>2. push'[p] = [push[p] EXCEPT !.pc = step]
  BY DEF To, TypeOK
<1>3. \A q \in Pushes \ {p} : push'[q] = push[q]
  BY DEF To, TypeOK
<1>4. QED
  BY <1>1, <1>2, <1>3 DEF Push, SameButFor

(* A push that writes its list of outcomes keeps the invariant if it owes   *)
(* the rows it owed and has earned every "sent" on the list.                *)
LEMMA RecordTalks ==
  ASSUME TypeOK, NEW p \in Pushes, NEW out \in [Ids -> {"none", "sent", "failed"}],
         push' = [push EXCEPT ![p].pc = "record", ![p].out = out]
  PROVE  SameButFor(p) /\ push'[p].pc = "record" /\ push'[p].out = out
<1>1. PICK q \in Push : q = push[p]
  BY DEF TypeOK
<1>2. PICK r : r = [q EXCEPT !.pc = "record", !.out = out]
  OBVIOUS
<1>3. push'[p] = r /\ \A v \in Pushes \ {p} : push'[v] = push[v]
  BY <1>1, <1>2 DEF TypeOK
<1>4. /\ r.pc = "record" /\ r.out = out
      /\ r.todo = q.todo /\ r.snap = q.snap /\ r.gone = q.gone
      /\ r.batch = q.batch /\ r.user = q.user
  BY <1>2 DEF Push
<1>5. QED
  BY <1>1, <1>3, <1>4 DEF SameButFor

(* A push that fails still owes the rows it owed, and claims nothing.       *)
LEMMA FailTalks ==
  ASSUME TypeOK, NEW p \in Pushes, Fail(p)
  PROVE  /\ SameButFor(p) /\ push'[p].pc = "record" /\ lost' = lost
         /\ Earned(p)' /\ OutOfHeld(p)
         /\ \A i \in Held(p) : push'[p].out[i] # "none"
<1> DEFINE out == [i \in Ids |-> IF i \in Held(p) THEN "failed" ELSE "none"]
<1>1. SameButFor(p) /\ push'[p].pc = "record" /\ push'[p].out = out
  BY RecordTalks DEF Fail
<1>2. \A i \in Ids : push'[p].out[i] = IF i \in Held(p) THEN "failed" ELSE "none"
  BY <1>1
<1>3. \A i \in Held(p) : push'[p].out[i] # "none"
  BY <1>2 DEF Held
<1>4. \A i \in Ids : push'[p].out[i] # "sent"
  BY <1>2
<1>5. OutOfHeld(p)
  BY <1>2, <1>3 DEF OutOfHeld, Held
<1>6. QED
  BY <1>1, <1>3, <1>4, <1>5 DEF Fail, Earned

(* A push that concludes owes the rows it keeps; the others become lost.    *)
LEMMA ConcludeTalks ==
  ASSUME TypeOK, NEW p \in Pushes, NEW sent, Conclude(p, sent),
         \A i \in Held(p), t \in Targets :
            t = push[p].snap[i] /\ Album[t] \in sent => Fulfilled(t)'
  PROVE  /\ SameButFor(p) /\ push'[p].pc = "record" /\ lost \subseteq lost'
         /\ Earned(p)' /\ OutOfHeld(p)
         /\ \A i \in Held(p) : \/ push'[p].out[i] # "none" \/ i \in lost'
                               \/ row[i].status # "approved"
<1> DEFINE out == [i \in Ids |->
                     IF i \notin Kept(p) THEN "none"
                     ELSE IF Album[push[p].snap[i]] \in sent THEN "sent" ELSE "failed"]
<1>1. SameButFor(p) /\ push'[p].pc = "record" /\ push'[p].out = out
  BY RecordTalks DEF Conclude
<1>2. Earned(p)'
  <2> SUFFICES ASSUME NEW i \in Ids, push'[p].out[i] = "sent"
               PROVE  push'[p].snap[i] # NoTarget /\ Fulfilled(push[p].snap[i])'
    BY DEF Earned
  <2>1. i \in Held(p) /\ Album[push[p].snap[i]] \in sent
    BY <1>1 DEF Kept
  <2>2. push'[p].snap = push[p].snap
    BY <1>1 DEF SameButFor
  <2>3. push[p] \in Push /\ i \in Ids
    BY DEF TypeOK
  <2>4. PICK t \in Targets : t = push[p].snap[i]
    BY <2>1, <2>3 DEF Held, Push
  <2>5. Fulfilled(t)'
    BY <2>1, <2>4
  <2>6. QED
    BY <2>1, <2>2, <2>4, <2>5 DEF Held, Fulfilled
<1>3. \A i \in Held(p) : push'[p].out[i] # "none" \/ i \in lost' \/ row[i].status # "approved"
  <2>1. \A i \in Kept(p) : push'[p].out[i] # "none"
    BY <1>1 DEF Kept, Held
  <2>2. \A i \in Held(p) \ Kept(p) : i \in lost' \/ row[i].status # "approved"
    BY DEF Conclude
  <2>3. QED
    BY <2>1, <2>2
<1>4. OutOfHeld(p)
  <2>1. \A i \in Ids : push'[p].out[i] # "none" <=> i \in Kept(p)
    BY <1>1 DEF Kept, Held
  <2>2. Kept(p) \subseteq Held(p)
    BY DEF Kept
  <2>3. Held(p) # {} => Kept(p) # {}
    <3>1. Held(p) \in SUBSET (1 .. MaxId)
      BY DEF Held, Ids
    <3>2. Held(p) # {} => \E m \in Held(p) : \A i \in Held(p) : i <= m
      BY <3>1, HasLast
    <3>3. QED
      BY <3>2 DEF Kept
  <2>4. QED
    BY <2>1, <2>2, <2>3 DEF OutOfHeld, Held
<1>5. QED
  BY <1>1, <1>2, <1>3, <1>4 DEF Conclude

(* Every call of a push to Lidarr, and the end of its context, is a Talk.   *)
LEMMA CallsTalk ==
  ASSUME TypeOK, IInv, NEW p \in Pushes,
         \/ Connect(p) \/ Find(p) \/ Add(p) \/ Refind(p) \/ AddAll(p)
         \/ Poll(p) \/ Monitor(p) \/ Search(p) \/ Expire(p)
  PROVE  Talk(p)
<1> USE DEF lidarr, history
<1>1. ASSUME Fail(p), UNCHANGED <<row, tainted>>, LidarrGrows,
             push[p].pc \notin {"create", "load", "record"}
      PROVE  Talk(p)
  BY <1>1, FailTalks DEF Talk
<1>2. ASSUME NEW step \in Step, To(p, step), UNCHANGED <<row, tainted, lost>>, LidarrGrows,
             step \notin {"create", "load", "record", "addAll", "search"},
             push[p].pc \notin {"create", "load", "record"}
      PROVE  Talk(p)
  BY <1>2, ToTalks DEF Talk, Earned
<1>3. UNCHANGED lidarr => LidarrGrows
  BY DEF LidarrGrows
<1>4. CASE Connect(p)
  <2>1. CASE To(p, "addAll") /\ ~IsAlbum(p) /\ UNCHANGED lost
    <3>1. SameButFor(p) /\ push'[p].pc = "addAll"
      BY <2>1, ToTalks DEF Step
    <3>2. ~push[p].batch /\ \A i \in Held(p) : Album[push[p].snap[i]] = NoAlbum
      BY <2>1 DEF IsAlbum, Wanted
    <3>3. OneRow(p)
      BY DEF IInv, PushInv
    <3>4. PushInv(p)'
      <4>1. push[p].todo = {} /\ push'[p].todo = push[p].todo
        BY <1>4, <3>1 DEF IInv, PushInv, Connect, SameButFor
      <4>2. OneRow(p)'
        BY <3>1, <3>3 DEF OneRow, SameButFor
      <4>3. ~push'[p].batch /\ \A i \in Ids : push'[p].snap[i] # NoTarget => Album[push'[p].snap[i]] = NoAlbum
        BY <3>1, <3>2 DEF SameButFor, Held
      <4>4. QED
        BY <3>1, <4>1, <4>2, <4>3 DEF PushInv, Earned
    <3>5. Earned(p)' /\ push[p].pc = "connect" /\ UNCHANGED <<row, tainted, lost, lidarr>>
      BY <1>4, <2>1, <3>1 DEF Connect, Earned
    <3>6. QED
      BY <1>3, <3>1, <3>4, <3>5 DEF Talk
  <2>2. QED
    BY <1>1, <1>2, <1>3, <1>4, <2>1 DEF Connect, Step
<1>5. CASE Find(p)
  BY <1>1, <1>2, <1>3, <1>5 DEF Find, Step
<1>6. CASE Add(p)
  <2>1. LidarrGrows
    BY <1>6 DEF Add, LidarrGrows, TypeOK
  <2>2. QED
    BY <1>1, <1>2, <1>6, <2>1 DEF Add, Step
<1>7. CASE Refind(p)
  BY <1>1, <1>2, <1>3, <1>7 DEF Refind, Step
<1>8. CASE AddAll(p)
  <2>1. LidarrGrows
    BY <1>8 DEF AddAll, LidarrGrows, TypeOK
  <2>2. CASE Fail(p)
    BY <1>1, <1>8, <2>1, <2>2 DEF AddAll
  <2>3. CASE /\ Conclude(p, {NoAlbum})
             /\ mode' = IF mode[ArtistOf(p)] = "absent" THEN [mode EXCEPT ![ArtistOf(p)] = "all"]
                                                        ELSE mode
    <3>1. ASSUME NEW i \in Held(p), NEW t \in Targets, t = push[p].snap[i] PROVE Fulfilled(t)'
      <4>1. Held(p) = {i}
        BY <1>8 DEF AddAll, IInv, PushInv, OneRow, Held
      <4>2. First(p) = i
        BY <4>1 DEF First, Held, Ids
      <4>3. Album[t] = NoAlbum
        BY <1>8, <3>1 DEF AddAll, IInv, PushInv, Held
      <4>4. mode'[Artist[t]] # "absent"
        BY <2>3, <3>1, <4>2 DEF ArtistOf, TypeOK
      <4>5. QED
        BY <4>3, <4>4 DEF Fulfilled
    <3>2. QED
      BY <1>8, <2>1, <2>3, <3>1, ConcludeTalks DEF AddAll, Talk
  <2>4. QED
    BY <1>8, <2>2, <2>3 DEF AddAll
<1>9. CASE Poll(p)
  <2>1. PICK seen :
          \/ push' = [push EXCEPT ![p].pc = "monitor", ![p].found = seen] /\ UNCHANGED lost
          \/ push' = [push EXCEPT ![p].polls = @ + 1, ![p].found = seen] /\ UNCHANGED lost
          \/ Fail(p)
          \/ Conclude(p, {})
    BY <1>9 DEF Poll
  <2>2. push[p].pc = "poll" /\ UNCHANGED <<row, tainted>> /\ LidarrGrows
    BY <1>3, <1>9 DEF Poll
  <2>3. CASE push' = [push EXCEPT ![p].pc = "monitor", ![p].found = seen] /\ UNCHANGED lost
    <3>1. PICK q \in Push : q = push[p]
      BY DEF TypeOK
    <3>2. PICK r : r = [q EXCEPT !.pc = "monitor", !.found = seen]
      OBVIOUS
    <3>3. push'[p] = r /\ \A v \in Pushes \ {p} : push'[v] = push[v]
      BY <2>3, <3>1, <3>2 DEF TypeOK
    <3>4. /\ r.pc = "monitor" /\ r.todo = q.todo /\ r.snap = q.snap /\ r.gone = q.gone
          /\ r.batch = q.batch /\ r.user = q.user
      BY <3>2 DEF Push
    <3>5. QED
      BY <2>2, <2>3, <3>1, <3>3, <3>4 DEF Talk, SameButFor, Earned
  <2>4. CASE push' = [push EXCEPT ![p].polls = @ + 1, ![p].found = seen] /\ UNCHANGED lost
    <3>1. PICK q \in Push : q = push[p]
      BY DEF TypeOK
    <3>2. PICK r : r = [q EXCEPT !.polls = q.polls + 1, !.found = seen]
      OBVIOUS
    <3>3. push'[p] = r /\ \A v \in Pushes \ {p} : push'[v] = push[v]
      BY <2>4, <3>1, <3>2 DEF TypeOK
    <3>4. /\ r.pc = q.pc /\ r.todo = q.todo /\ r.snap = q.snap /\ r.gone = q.gone
          /\ r.batch = q.batch /\ r.user = q.user
      BY <3>2 DEF Push
    <3>5. QED
      BY <2>2, <2>4, <3>1, <3>3, <3>4 DEF Talk, SameButFor, Earned
  <2>5. CASE Fail(p)
    BY <1>1, <2>2, <2>5
  <2>6. CASE Conclude(p, {})
    BY <2>2, <2>6, ConcludeTalks DEF Talk
  <2>7. QED
    BY <2>1, <2>3, <2>4, <2>5, <2>6
<1>10. CASE Monitor(p)
  <2>1. LidarrGrows /\ push[p].pc = "monitor" /\ UNCHANGED <<row, tainted>>
    BY <1>10 DEF Monitor, LidarrGrows
  <2>2. CASE monitored' = monitored \cup push[p].found /\ To(p, "search") /\ UNCHANGED lost
    <3>1. SameButFor(p) /\ push'[p].pc = "search" /\ push'[p].found = push[p].found
      BY <2>2, ToTalks DEF Step
    <3>2. QED
      BY <2>1, <2>2, <3>1 DEF Talk, Earned
  <2>3. QED
    BY <1>1, <1>10, <2>1, <2>2 DEF Monitor
<1>11. CASE Search(p)
  <2>1. LidarrGrows /\ push[p].pc = "search" /\ UNCHANGED <<row, tainted>>
    BY <1>11 DEF Search, LidarrGrows
  <2>2. CASE searched' = searched \cup push[p].found /\ Conclude(p, push[p].found)
    <3>1. push[p].found \subseteq monitored' /\ push[p].found \subseteq searched'
      BY <1>11, <2>1, <2>2 DEF Search, IInv, PushInv
    <3>2. push[p].found \subseteq Albums
      BY DEF TypeOK, Push
    <3>3. \A t \in Targets : Album[t] \in push[p].found => Fulfilled(t)'
      BY <3>1, <3>2 DEF Fulfilled
    <3>4. QED
      BY <2>1, <2>2, <3>3, ConcludeTalks DEF Talk
  <2>3. QED
    BY <1>1, <1>11, <2>1, <2>2 DEF Search
<1>12. CASE Expire(p)
  <2>1. PICK q \in Push : q = push[p]
    BY DEF TypeOK
  <2>2. PICK r : r = [q EXCEPT !.live = FALSE]
    OBVIOUS
  <2>3. push'[p] = r /\ \A v \in Pushes \ {p} : push'[v] = push[v]
    BY <1>12, <2>1, <2>2 DEF Expire, TypeOK
  <2>4. /\ r.pc = q.pc /\ r.todo = q.todo /\ r.snap = q.snap /\ r.gone = q.gone
        /\ r.batch = q.batch /\ r.user = q.user
    BY <2>2 DEF Push
  <2>5. QED
    BY <1>3, <1>12, <2>1, <2>3, <2>4 DEF Expire, Talk, SameButFor, Earned
<1>13. QED
  BY <1>4, <1>5, <1>6, <1>7, <1>8, <1>9, <1>10, <1>11, <1>12
-----------------------------------------------------------------------------
(* The handlers.                                                            *)

(* A push that starts for row i owed nothing and now owes that row only.    *)
LEMMA GoStarts ==
  ASSUME TypeOK, NEW p \in Pushes, NEW i \in Ids, NEW gone \in SUBSET Ids, Go(p, i, gone)
  PROVE  /\ \A q \in Pushes \ {p} : push'[q] = push[q]
         /\ push'[p].gone = gone /\ push'[p].pc = "load"
         /\ \A j \in Ids : ~Owes(p, j) /\ push'[p].snap[j] = NoTarget /\ (Owes(p, j)' <=> j = i)
         /\ PushInv(p)'
<1>1. PICK r : r = [Idle EXCEPT !.pc = "load", !.todo = {i}, !.gone = gone]
  OBVIOUS
<1>2. push'[p] = r /\ push[p] = Idle /\ \A q \in Pushes \ {p} : push'[q] = push[q]
  BY <1>1 DEF Go, TypeOK
<1>3. /\ r.pc = "load" /\ ~r.batch /\ r.todo = {i} /\ r.gone = gone
      /\ \A j \in Ids : r.snap[j] = NoTarget
  BY <1>1 DEF Idle
<1>4. \A j \in Ids : ~Owes(p, j)
  BY <1>2 DEF Owes, Idle
<1>5. \A j \in Ids : Owes(p, j)' <=> j = i
  BY <1>2, <1>3 DEF Owes
<1>6. PushInv(p)'
  BY <1>2, <1>3 DEF PushInv, OneRow, Earned
<1>7. QED
  BY <1>2, <1>3, <1>4, <1>5, <1>6

(* A new row is nobody's: whoever still owes its id owes it to a deleted    *)
(* row.  If it is approved, some push has to take it up.                    *)
LEMMA InsertKeepsIInv ==
  ASSUME TypeOK, TypeOK', IInv, NEW u \in Users, NEW t \in Targets, NEW i \in Ids,
         InsertRow(i, u, t), UNCHANGED lidarr,
         \A q \in Pushes : PushInv(q)',
         \A q \in Pushes, j \in Ids : Owes(q, j)' =>
           /\ push'[q].gone = push[q].gone /\ push'[q].snap = push[q].snap
           /\ Owes(q, j) \/ (j = i /\ u \in AutoApproved /\ push'[q].snap[i] = NoTarget),
         \A q \in Pushes, j \in Ids \ {i} : Owes(q, j) => Owes(q, j)',
         u \in AutoApproved => \E q \in Pushes : Owes(q, i)'
  PROVE  IInv'
<1> USE DEF lidarr, history
<1>1. row[i] = NoRow
  BY DEF InsertRow, IsNextId, Ids
<1>2. /\ \A j \in Ids \ {i} : row'[j] = row[j]
      /\ row'[i].user = u /\ row'[i].target = t
      /\ row'[i].status = IF u \in AutoApproved THEN "approved" ELSE "pending"
  BY DEF InsertRow, Initially, TypeOK
<1>3. RowsOK'
  BY <1>2 DEF IInv, RowsOK, Status, Open
<1>4. OneOpenRequest'
  BY <1>2 DEF IInv, OneOpenRequest, InsertRow, IndexAllows
<1>5. OnlyApprovedPushed'
  <2> SUFFICES ASSUME NEW q \in Pushes, NEW j \in Ids, Owes(q, j)', j \notin push'[q].gone
               PROVE  /\ row'[j].status \notin {"absent", "pending"}
                      /\ push'[q].snap[j] \in {NoTarget, row'[j].target}
    BY DEF OnlyApprovedPushed
  <2>1. CASE Owes(q, j)
    <3>1. row[j].status # "absent"
      BY <2>1 DEF IInv, OnlyApprovedPushed
    <3>2. j # i
      BY <1>1, <3>1 DEF NoRow
    <3>3. QED
      BY <1>2, <2>1, <3>2 DEF IInv, OnlyApprovedPushed
  <2>2. CASE j = i /\ u \in AutoApproved /\ push'[q].snap[i] = NoTarget
    BY <1>2, <2>2
  <2>3. QED
    BY <2>1, <2>2
<1>6. ApprovedHasPush'
  BY <1>2 DEF IInv, ApprovedHasPush, InsertRow
<1>7. SentWasFulfilled'
  BY <1>2 DEF IInv, SentWasFulfilled, Fulfilled, InsertRow
<1>8. QED
  BY <1>3, <1>4, <1>5, <1>6, <1>7 DEF IInv

(* handleRequestCreate keeps the invariant.                                 *)
LEMMA CreateKeepsIInv ==
  ASSUME TypeOK, TypeOK', IInv, NEW u \in Users, NEW t \in Targets, Create(u, t)
  PROVE  IInv'
<1>1. PICK i \in Ids :
        /\ InsertRow(i, u, t)
        /\ IF u \in AutoApproved THEN \E p \in Pushes : Go(p, i, {}) ELSE UNCHANGED push
  BY DEF Create
<1>2. LidarrGrows /\ UNCHANGED lidarr
  BY DEF Create, LidarrGrows, lidarr
<1>3. CASE u \notin AutoApproved
  <2>1. \A q \in Pushes : PushInv(q)'
    BY <1>1, <1>2, <1>3, PushInvStays DEF IInv
  <2>2. \A q \in Pushes, j \in Ids : Owes(q, j)' <=> Owes(q, j)
    BY <1>1, <1>3 DEF Owes
  <2>3. \A q \in Pushes, j \in Ids : Owes(q, j)' =>
          /\ push'[q].gone = push[q].gone /\ push'[q].snap = push[q].snap
          /\ Owes(q, j) \/ (j = i /\ u \in AutoApproved /\ push'[q].snap[i] = NoTarget)
    BY <1>1, <1>3, <2>2
  <2>4. QED
    BY <1>1, <1>2, <1>3, <2>1, <2>2, <2>3, InsertKeepsIInv
<1>4. CASE u \in AutoApproved
  <2>1. PICK p \in Pushes : Go(p, i, {})
    BY <1>1, <1>4
  <2>2. /\ \A q \in Pushes \ {p} : push'[q] = push[q]
        /\ push'[p].gone = {}
        /\ \A j \in Ids : ~Owes(p, j) /\ push'[p].snap[j] = NoTarget /\ (Owes(p, j)' <=> j = i)
        /\ PushInv(p)'
    BY <2>1, GoStarts
  <2>3. \A q \in Pushes : PushInv(q)'
    BY <1>2, <2>2, PushInvStays DEF IInv
  <2>4. push[p].gone = {} /\ push'[p].snap = push[p].snap
    <3>1. PICK r : r = [Idle EXCEPT !.pc = "load", !.todo = {i}, !.gone = {}]
      OBVIOUS
    <3>2. push'[p] = r /\ push[p] = Idle
      BY <2>1, <3>1 DEF Go, TypeOK
    <3>3. QED
      BY <3>1, <3>2 DEF Idle
  <2>5. \A q \in Pushes \ {p}, j \in Ids : Owes(q, j)' <=> Owes(q, j)
    BY <2>2 DEF Owes
  <2>6. \A q \in Pushes, j \in Ids : Owes(q, j)' =>
          /\ push'[q].gone = push[q].gone /\ push'[q].snap = push[q].snap
          /\ Owes(q, j) \/ (j = i /\ u \in AutoApproved /\ push'[q].snap[i] = NoTarget)
    BY <1>4, <2>2, <2>4, <2>5
  <2>7. /\ \A q \in Pushes, j \in Ids \ {i} : Owes(q, j) => Owes(q, j)'
        /\ \E q \in Pushes : Owes(q, i)'
    BY <2>2, <2>5
  <2>8. QED
    BY <1>1, <1>2, <2>3, <2>6, <2>7, InsertKeepsIInv
<1>5. QED
  BY <1>3, <1>4

(* A batch handler that has inserted nothing yet owes nothing.              *)
LEMMA BatchStartKeepsIInv ==
  ASSUME TypeOK, TypeOK', IInv, NEW p \in Pushes, NEW u \in Users, NEW picked \in SUBSET Targets,
         BatchStart(p, u, picked)
  PROVE  IInv'
<1>1. PICK r : r = [Idle EXCEPT !.pc = "create", !.batch = TRUE, !.user = u, !.pick = picked]
  OBVIOUS
<1>2. push'[p] = r /\ push[p] = Idle /\ \A q \in Pushes \ {p} : push'[q] = push[q]
  BY <1>1 DEF BatchStart, TypeOK
<1>3. /\ r.pc = "create" /\ r.batch /\ r.user = u /\ r.todo = {}
      /\ \A j \in Ids : r.snap[j] = NoTarget
  BY <1>1 DEF Idle
<1>4. UNCHANGED <<row, tainted, lost>> /\ LidarrGrows
  BY DEF BatchStart, LidarrGrows, lidarr, history
<1>5. \A q \in Pushes : PushInv(q)'
  <2>1. PushInv(p)'
    BY <1>2, <1>3 DEF PushInv, OneRow, Earned
  <2>2. QED
    BY <1>2, <1>4, <2>1, PushInvStays DEF IInv
<1>6. /\ \A q \in Pushes \ {p}, i \in Ids : Owes(q, i)' <=> Owes(q, i)
      /\ \A i \in Ids : ~Owes(p, i) /\ ~Owes(p, i)'
  BY <1>2, <1>3 DEF Owes, Idle
<1>7. ApprovedHasPush'
  BY <1>4, <1>6 DEF IInv, ApprovedHasPush
<1>8. \A q \in Pushes, i \in Ids : Owes(q, i)' =>
         /\ Owes(q, i) /\ push'[q].gone = push[q].gone
         /\ push'[q].snap[i] \in {push[q].snap[i], row[i].target}
  BY <1>2, <1>6
<1>9. QED
  BY <1>4, <1>5, <1>7, <1>8, TableStays

(* What a batch handler has after one more target: it goes on inserting,    *)
(* hands its rows to a push, or has nobody to hand them to.                 *)
LEMMA BatchInsertKeepsIInv ==
  ASSUME TypeOK, TypeOK', IInv, NEW p \in Pushes, NEW t \in Targets, BatchInsert(p, t)
  PROVE  IInv'
<1> DEFINE u == push[p].user
           Next1(ids) == [push[p] EXCEPT !.pick = push[p].pick \ {t}, !.todo = ids]
           Next2(ids) == [push[p] EXCEPT !.pick = {}, !.todo = ids, !.pc = "load", !.user = NoUser]
           Advance(ids) == \/ push' = [push EXCEPT ![p] = Next1(ids)]
                           \/ u \in AutoApproved /\ push' = [push EXCEPT ![p] = Next2(ids)]
                           \/ (u \in AutoApproved => ids = {}) /\ push' = [push EXCEPT ![p] = Done]
<1>1. /\ push[p] \in Push /\ push[p].pc = "create" /\ push[p].batch /\ u \in Users
      /\ \A i \in Ids : push[p].snap[i] = NoTarget
  <2>1. push[p].pc = "create"
    BY Zenon DEF BatchInsert
  <2>2. push[p] \in Push /\ PushInv(p)
    BY DEF IInv, TypeOK
  <2>3. QED
    BY <2>1, <2>2 DEF PushInv, Push
<1>2. UNCHANGED lidarr /\ LidarrGrows
  <2>1. UNCHANGED lidarr
    BY Zenon DEF BatchInsert
  <2>2. QED
    BY <2>1 DEF LidarrGrows, lidarr
<1>3. ASSUME NEW ids \in SUBSET Ids, Advance(ids)
      PROVE  /\ \A q \in Pushes \ {p} : push'[q] = push[q]
             /\ PushInv(p)'
             /\ \A i \in Ids : Owes(p, i)' <=> i \in ids /\ u \in AutoApproved
             /\ \A i \in Ids : Owes(p, i)' => push'[p].gone = push[p].gone /\ push'[p].snap = push[p].snap
  <2>1. \A q \in Pushes \ {p} : push'[q] = push[q]
    BY <1>3 DEF TypeOK
  <2>2. PICK q \in Push : q = push[p]
    BY <1>1
  <2>3. CASE push' = [push EXCEPT ![p] = Next1(ids)]
    <3>1. PICK r : r = [q EXCEPT !.pick = q.pick \ {t}, !.todo = ids]
      OBVIOUS
    <3>2. push'[p] = r
      BY <2>2, <2>3, <3>1 DEF TypeOK
    <3>3. /\ r.pc = q.pc /\ r.batch = q.batch /\ r.user = q.user /\ r.todo = ids
          /\ r.snap = q.snap /\ r.gone = q.gone
      BY <3>1 DEF Push
    <3>4. PushInv(p)'
      BY <1>1, <2>2, <3>2, <3>3 DEF PushInv, OneRow, Earned
    <3>5. QED
      BY <1>1, <2>1, <2>2, <3>2, <3>3, <3>4 DEF Owes
  <2>4. CASE u \in AutoApproved /\ push' = [push EXCEPT ![p] = Next2(ids)]
    <3>1. PICK r : r = [q EXCEPT !.pick = {}, !.todo = ids, !.pc = "load", !.user = NoUser]
      OBVIOUS
    <3>2. push'[p] = r
      BY <2>2, <2>4, <3>1 DEF TypeOK
    <3>3. /\ r.pc = "load" /\ r.batch = q.batch /\ r.todo = ids
          /\ r.snap = q.snap /\ r.gone = q.gone
      BY <3>1 DEF Push
    <3>4. PushInv(p)'
      BY <1>1, <2>2, <3>2, <3>3 DEF PushInv, OneRow, Earned
    <3>5. QED
      BY <1>1, <2>1, <2>2, <2>4, <3>2, <3>3, <3>4 DEF Owes
  <2>5. CASE (u \in AutoApproved => ids = {}) /\ push' = [push EXCEPT ![p] = Done]
    <3>1. push'[p] = Done
      BY <2>5 DEF TypeOK
    <3>2. /\ Done.pc = "done" /\ Done.todo = {} /\ ~Done.batch
          /\ \A i \in Ids : Done.snap[i] = NoTarget
      BY DEF Done, Idle
    <3>3. PushInv(p)'
      BY <3>1, <3>2, ConstantTypes DEF PushInv, OneRow, Earned, Ids
    <3>4. \A i \in Ids : ~Owes(p, i)'
      BY <3>1, <3>2 DEF Owes
    <3>5. QED
      BY <2>1, <2>5, <3>3, <3>4
  <2>6. QED
    BY <1>3, <2>3, <2>4, <2>5
<1>4. \A i \in Ids : Owes(p, i) <=> i \in push[p].todo /\ u \in AutoApproved
  BY <1>1 DEF Owes
<1>5. CASE \E i \in Ids : InsertRow(i, u, t) /\ Advance(push[p].todo \cup {i})
  <2>1. PICK i \in Ids : InsertRow(i, u, t) /\ Advance(push[p].todo \cup {i})
    BY <1>5, Zenon
  <2>2. push[p].todo \cup {i} \in SUBSET Ids
    BY <1>1, Zenon DEF Push
  <2>3. /\ \A q \in Pushes \ {p} : push'[q] = push[q]
        /\ PushInv(p)'
        /\ \A j \in Ids : Owes(p, j)' <=> j \in push[p].todo \cup {i} /\ u \in AutoApproved
        /\ \A j \in Ids : Owes(p, j)' => push'[p].gone = push[p].gone /\ push'[p].snap = push[p].snap
    BY <1>3, <2>1, <2>2, Zenon
  <2>4. \A q \in Pushes : PushInv(q)'
    BY <1>2, <2>3, PushInvStays DEF IInv
  <2>5. \A q \in Pushes \ {p}, j \in Ids : Owes(q, j)' <=> Owes(q, j)
    BY <2>3 DEF Owes
  <2>6. \A q \in Pushes, j \in Ids : Owes(q, j)' =>
          /\ push'[q].gone = push[q].gone /\ push'[q].snap = push[q].snap
          /\ Owes(q, j) \/ (j = i /\ u \in AutoApproved /\ push'[q].snap[i] = NoTarget)
    BY <1>1, <1>4, <2>3, <2>5
  <2>7. /\ \A q \in Pushes, j \in Ids \ {i} : Owes(q, j) => Owes(q, j)'
        /\ u \in AutoApproved => \E q \in Pushes : Owes(q, i)'
    BY <1>4, <2>3, <2>5
  <2>8. InsertRow(i, u, t)
    BY <2>1, Zenon
  <2>9. QED
    BY <1>1, <1>2, <2>4, <2>6, <2>7, <2>8, InsertKeepsIInv
<1>6. CASE Advance(push[p].todo) /\ UNCHANGED <<row, inserts, history>>
  <2>1. push[p].todo \in SUBSET Ids
    BY <1>1, Zenon DEF Push
  <2>2. /\ \A q \in Pushes \ {p} : push'[q] = push[q]
        /\ PushInv(p)'
        /\ \A j \in Ids : Owes(p, j)' <=> j \in push[p].todo /\ u \in AutoApproved
        /\ \A j \in Ids : Owes(p, j)' => push'[p].gone = push[p].gone /\ push'[p].snap = push[p].snap
    BY <1>3, <1>6, <2>1, Zenon
  <2>3. \A q \in Pushes : PushInv(q)'
    BY <1>2, <2>2, PushInvStays DEF IInv
  <2>4. \A q \in Pushes, j \in Ids : Owes(q, j)' <=> Owes(q, j)
    BY <1>4, <2>2 DEF Owes
  <2>5. UNCHANGED <<row, tainted, lost>>
    BY <1>6 DEF history
  <2>6. ApprovedHasPush'
    BY <2>4, <2>5 DEF IInv, ApprovedHasPush
  <2>7. \A q \in Pushes, j \in Ids : Owes(q, j)' =>
           /\ Owes(q, j) /\ push'[q].gone = push[q].gone
           /\ push'[q].snap[j] \in {push[q].snap[j], row[j].target}
    BY <2>2, <2>4
  <2>8. QED
    BY <1>2, <2>3, <2>5, <2>6, <2>7, TableStays
<1>7. QED
  BY <1>5, <1>6, Zenon DEF BatchInsert

(* A status written by a handler: the row stays the row it was, and it is   *)
(* open only if no other row has its key.                                   *)
LEMMA ApproveKeepsIInv ==
  ASSUME TypeOK, TypeOK', IInv, NEW i \in Ids, NEW p \in Pushes, Approve(i, p)
  PROVE  IInv'
<1>1. /\ \A q \in Pushes \ {p} : push'[q] = push[q]
      /\ push'[p].gone = IF row[i] = NoRow THEN {i} ELSE {}
      /\ \A j \in Ids : ~Owes(p, j) /\ push'[p].snap[j] = NoTarget /\ (Owes(p, j)' <=> j = i)
      /\ PushInv(p)'
  BY GoStarts DEF Approve
<1>2. /\ \A j \in Ids \ {i} : row'[j] = row[j]
      /\ row[i] = NoRow => row'[i] = NoRow
      /\ row[i] # NoRow => /\ row'[i].status = "approved"
                           /\ row'[i].user = row[i].user /\ row'[i].target = row[i].target
  BY DEF Approve, WithStatus, TypeOK, Row
<1>3. LidarrGrows /\ UNCHANGED lidarr /\ lost' = lost \ {i} /\ tainted' = tainted \ {i}
  BY DEF Approve, Forget, LidarrGrows, lidarr
<1>4. \A q \in Pushes \ {p}, j \in Ids : Owes(q, j)' <=> Owes(q, j)
  BY <1>1 DEF Owes
<1>5. RowsOK'
  BY <1>2 DEF IInv, RowsOK, Status, Open
<1>6. OneOpenRequest'
  BY <1>2 DEF IInv, OneOpenRequest, Approve, MayBecome, IndexAllows, Open, NoRow
<1>7. OnlyApprovedPushed'
  <2> SUFFICES ASSUME NEW q \in Pushes, NEW j \in Ids, Owes(q, j)', j \notin push'[q].gone
               PROVE  /\ row'[j].status \notin {"absent", "pending"}
                      /\ push'[q].snap[j] \in {NoTarget, row'[j].target}
    BY DEF OnlyApprovedPushed
  <2>1. CASE q = p
    BY <1>1, <1>2, <2>1
  <2>2. CASE q # p
    <3>1. /\ row[j].status \notin {"absent", "pending"}
          /\ push[q].snap[j] \in {NoTarget, row[j].target}
      BY <1>1, <1>4, <2>2 DEF IInv, OnlyApprovedPushed
    <3>2. QED
      BY <1>1, <1>2, <2>2, <3>1 DEF NoRow
  <2>3. QED
    BY <2>1, <2>2
<1>8. ApprovedHasPush'
  BY <1>1, <1>2, <1>3, <1>4 DEF IInv, ApprovedHasPush, NoRow
<1>9. SentWasFulfilled'
  BY <1>2, <1>3 DEF IInv, SentWasFulfilled, Fulfilled, lidarr, NoRow
<1>10. \A q \in Pushes : PushInv(q)'
  BY <1>1, <1>3, PushInvStays DEF IInv
<1>11. QED
  BY <1>5, <1>6, <1>7, <1>8, <1>9, <1>10 DEF IInv

(* A rejected row is no longer open, and no push is started for it.         *)
LEMMA RejectKeepsIInv ==
  ASSUME TypeOK, TypeOK', IInv, NEW i \in Ids, Reject(i)
  PROVE  IInv'
<1>1. UNCHANGED push /\ LidarrGrows /\ UNCHANGED lidarr /\ lost' = lost \ {i} /\ tainted' = tainted \ {i}
  BY DEF Reject, Forget, LidarrGrows, lidarr
<1>2. /\ \A j \in Ids \ {i} : row'[j] = row[j]
      /\ row'[i].status = "rejected"
      /\ row'[i].user = row[i].user /\ row'[i].target = row[i].target
  BY DEF Reject, WithStatus, MayBecome, Open, TypeOK, Row
<1>3. \A q \in Pushes, j \in Ids : Owes(q, j)' <=> Owes(q, j)
  BY <1>1 DEF Owes
<1>4. RowsOK'
  BY <1>2 DEF IInv, RowsOK, Reject, Status
<1>5. OneOpenRequest'
  BY <1>2 DEF IInv, OneOpenRequest, Open
<1>6. OnlyApprovedPushed'
  BY <1>1, <1>2, <1>3 DEF IInv, OnlyApprovedPushed
<1>7. ApprovedHasPush'
  BY <1>1, <1>2, <1>3 DEF IInv, ApprovedHasPush
<1>8. SentWasFulfilled'
  BY <1>1, <1>2 DEF IInv, SentWasFulfilled, Fulfilled, lidarr
<1>9. \A q \in Pushes : PushInv(q)'
  BY <1>1, PushInvStays DEF IInv
<1>10. QED
  BY <1>4, <1>5, <1>6, <1>7, <1>8, <1>9 DEF IInv

(* A deleted row is marked in every push that still owes it.                *)
LEMMA DeleteKeepsIInv ==
  ASSUME TypeOK, TypeOK', IInv, NEW i \in Ids, Delete(i)
  PROVE  IInv'
<1>1. ASSUME NEW q \in Pushes
      PROVE  /\ push'[q].pc = push[q].pc /\ push'[q].batch = push[q].batch
             /\ push'[q].user = push[q].user /\ push'[q].todo = push[q].todo
             /\ push'[q].snap = push[q].snap /\ push'[q].found = push[q].found
             /\ push'[q].out = push[q].out
             /\ push'[q].gone = IF Owes(q, i) THEN push[q].gone \cup {i} ELSE push[q].gone
  <2>1. PICK w \in Push : w = push[q]
    BY DEF TypeOK
  <2>2. PICK r : r = [w EXCEPT !.gone = w.gone \cup {i}]
    OBVIOUS
  <2>3. push'[q] = IF Owes(q, i) THEN r ELSE w
    BY <2>1, <2>2 DEF Delete
  <2>4. /\ r.pc = w.pc /\ r.batch = w.batch /\ r.user = w.user /\ r.todo = w.todo
        /\ r.snap = w.snap /\ r.found = w.found /\ r.out = w.out /\ r.gone = w.gone \cup {i}
    BY <2>2 DEF Push
  <2>5. QED
    BY <2>1, <2>3, <2>4
<1>2. LidarrGrows /\ UNCHANGED lidarr /\ lost' = lost \ {i} /\ tainted' = tainted \ {i}
  BY DEF Delete, Forget, LidarrGrows, lidarr
<1>3. row'[i] = NoRow /\ \A j \in Ids \ {i} : row'[j] = row[j]
  BY DEF Delete, TypeOK
<1>4. \A q \in Pushes, j \in Ids : Owes(q, j)' <=> Owes(q, j)
  BY <1>1 DEF Owes
<1>5. RowsOK'
  BY <1>3 DEF IInv, RowsOK
<1>6. OneOpenRequest'
  BY <1>3 DEF IInv, OneOpenRequest, NoRow, Open
<1>7. OnlyApprovedPushed'
  <2>1. ASSUME NEW q \in Pushes, NEW j \in Ids, Owes(q, j), j \notin push'[q].gone
        PROVE  j # i /\ j \notin push[q].gone /\ push'[q].snap = push[q].snap
    BY <1>1, <2>1
  <2>2. QED
    BY <1>3, <1>4, <2>1, Zenon DEF IInv, OnlyApprovedPushed
<1>8. ApprovedHasPush'
  BY <1>2, <1>3, <1>4 DEF IInv, ApprovedHasPush, NoRow
<1>9. SentWasFulfilled'
  BY <1>2, <1>3 DEF IInv, SentWasFulfilled, Fulfilled, lidarr, NoRow
<1>10. \A q \in Pushes : PushInv(q)'
  BY <1>1, <1>2, PushInvStays DEF IInv
<1>11. QED
  BY <1>5, <1>6, <1>7, <1>8, <1>9, <1>10 DEF IInv
-----------------------------------------------------------------------------
(* A push that reads row i owes it as before, now from its own copy; it     *)
(* goes on when it has read a row at all, and ends otherwise.               *)
LEMMA LoadReads ==
  ASSUME TypeOK, IInv, NEW p \in Pushes, Load(p)
  PROVE  \E i \in Ids, snap \in [Ids -> Targets \cup {NoTarget}] :
           /\ i \in push[p].todo
           /\ snap[i] = row[i].target /\ \A j \in Ids \ {i} : snap[j] = push[p].snap[j]
           /\ \A w \in Pushes \ {p} : push'[w] = push[w]
           /\ PushInv(p)'
           /\ push'[p] = Done \/ (push'[p].gone = push[p].gone /\ push'[p].snap = snap)
           /\ \A j \in Ids : Owes(p, j) <=> (j \in push[p].todo \/ push[p].snap[j] # NoTarget)
           /\ \A j \in Ids : Owes(p, j)' <=> (j \in push[p].todo \ {i} \/ snap[j] # NoTarget)
           /\ \/ push'[p].pc \in {"load", "done"}
              \/ push'[p].pc = "connect" /\ \E j \in Ids : push'[p].snap[j] # NoTarget
<1> DEFINE read(i) == [push[p].snap EXCEPT ![i] = row[i].target]
           Next1(i) == [push[p] EXCEPT !.todo = push[p].todo \ {i}, !.snap = read(i)]
           Next2(i) == [push[p] EXCEPT !.todo = {}, !.snap = read(i), !.pc = "connect"]
<1>1. PICK i \in push[p].todo :
        \/ push' = [push EXCEPT ![p] = Next1(i)]
        \/ /\ push[p].todo \ {i} = {} /\ \E j \in Ids : read(i)[j] # NoTarget
           /\ push' = [push EXCEPT ![p] = Next2(i)]
        \/ /\ push[p].todo \ {i} = {} /\ \A j \in Ids : read(i)[j] = NoTarget
           /\ push' = [push EXCEPT ![p] = Done]
  BY DEF Load
<1>2. PICK q \in Push : q = push[p]
  BY DEF TypeOK
<1>3. i \in Ids /\ q.pc = "load" /\ i \in q.todo
  BY <1>1, <1>2 DEF Push, Load
<1>4. PICK snap : /\ snap = read(i) /\ snap[i] = row[i].target
                  /\ snap \in [Ids -> Targets \cup {NoTarget}]
                  /\ \A j \in Ids \ {i} : snap[j] = q.snap[j]
  <2>1. q.snap \in [Ids -> Targets \cup {NoTarget}]
    BY DEF Push
  <2>2. PICK snap : snap = [q.snap EXCEPT ![i] = row[i].target]
    OBVIOUS
  <2>3. snap = read(i)
    BY <1>2, <2>2
  <2>4. row[i].target \in Targets \cup {NoTarget}
    BY <1>3 DEF TypeOK, Row
  <2>5. QED
    BY <1>3, <2>1, <2>2, <2>3, <2>4
<1>5. (q.batch \/ \E k \in Ids : \A j \in Ids : j \in q.todo \/ q.snap[j] # NoTarget => j = k)
  BY <1>2 DEF IInv, PushInv, OneRow
<1>6. /\ \A w \in Pushes \ {p} : push'[w] = push[w]
      /\ PushInv(p)'
      /\ push'[p] = Done \/ (push'[p].gone = push[p].gone /\ push'[p].snap = snap)
      /\ \A j \in Ids : Owes(p, j)' <=> (j \in q.todo \ {i} \/ snap[j] # NoTarget)
      /\ \/ push'[p].pc \in {"load", "done"}
         \/ push'[p].pc = "connect" /\ \E j \in Ids : push'[p].snap[j] # NoTarget
  <2>1. CASE push' = [push EXCEPT ![p] = Next1(i)]
    <3>1. PICK r : r = [q EXCEPT !.todo = q.todo \ {i}, !.snap = snap]
      OBVIOUS
    <3>2. push'[p] = r /\ \A w \in Pushes \ {p} : push'[w] = push[w]
      BY <1>2, <1>4, <2>1, <3>1 DEF TypeOK
    <3>3. /\ r.pc = "load" /\ r.batch = q.batch /\ r.todo = q.todo \ {i}
          /\ r.snap = snap /\ r.gone = q.gone
      BY <1>3, <3>1 DEF Push
    <3>4. PushInv(p)'
      BY <1>3, <1>4, <1>5, <3>2, <3>3 DEF PushInv, OneRow, Earned
    <3>5. QED
      BY <1>2, <3>2, <3>3, <3>4 DEF Owes
  <2>2. CASE /\ push[p].todo \ {i} = {} /\ \E j \in Ids : read(i)[j] # NoTarget
             /\ push' = [push EXCEPT ![p] = Next2(i)]
    <3>1. PICK r : r = [q EXCEPT !.todo = {}, !.snap = snap, !.pc = "connect"]
      OBVIOUS
    <3>2. push'[p] = r /\ \A w \in Pushes \ {p} : push'[w] = push[w]
      BY <1>2, <1>4, <2>2, <3>1 DEF TypeOK
    <3>3. /\ r.pc = "connect" /\ r.batch = q.batch /\ r.todo = {}
          /\ r.snap = snap /\ r.gone = q.gone
      BY <3>1 DEF Push
    <3>4. PushInv(p)'
      BY <1>3, <1>4, <1>5, <3>2, <3>3 DEF PushInv, OneRow, Earned
    <3>5. QED
      BY <1>2, <1>4, <2>2, <3>2, <3>3, <3>4 DEF Owes
  <2>3. CASE /\ push[p].todo \ {i} = {} /\ \A j \in Ids : read(i)[j] = NoTarget
             /\ push' = [push EXCEPT ![p] = Done]
    <3>1. push'[p] = Done /\ \A w \in Pushes \ {p} : push'[w] = push[w]
      BY <2>3 DEF TypeOK
    <3>2. /\ Done.pc = "done" /\ Done.todo = {} /\ ~Done.batch
          /\ \A j \in Ids : Done.snap[j] = NoTarget
      BY DEF Done, Idle
    <3>3. PushInv(p)'
      BY <3>1, <3>2 DEF PushInv, OneRow, Earned, Ids
    <3>4. \A j \in Ids : ~Owes(p, j)'
      BY <3>1, <3>2 DEF Owes
    <3>5. \A j \in Ids : j \notin q.todo \ {i} /\ snap[j] = NoTarget
      BY <1>2, <1>4, <2>3
    <3>6. push'[p].pc = "done"
      BY <3>1, <3>2
    <3>7. QED
      BY <3>1, <3>3, <3>4, <3>5, <3>6
  <2>4. QED
    BY <1>1, <2>1, <2>2, <2>3
<1>7. \A j \in Ids : Owes(p, j) <=> (j \in q.todo \/ q.snap[j] # NoTarget)
  BY <1>2, <1>3 DEF Owes
<1> HIDE DEF read, Next1, Next2
<1>8. i \in push[p].todo /\ snap[i] = row[i].target /\ \A j \in Ids \ {i} : snap[j] = push[p].snap[j]
  BY <1>2, <1>3, <1>4
<1>9. i \in Ids /\ snap \in [Ids -> Targets \cup {NoTarget}]
  BY <1>3, <1>4
<1>10. QED
  BY <1>2, <1>6, <1>7, <1>8, <1>9

(* Reading a row keeps the invariant.                                       *)
LEMMA LoadKeepsIInv ==
  ASSUME TypeOK, TypeOK', IInv, NEW p \in Pushes, Load(p)
  PROVE  IInv'
<1>1. PICK i \in Ids, snap \in [Ids -> Targets \cup {NoTarget}] :
        /\ i \in push[p].todo
        /\ snap[i] = row[i].target /\ \A j \in Ids \ {i} : snap[j] = push[p].snap[j]
        /\ \A w \in Pushes \ {p} : push'[w] = push[w]
        /\ PushInv(p)'
        /\ push'[p] = Done \/ (push'[p].gone = push[p].gone /\ push'[p].snap = snap)
        /\ \A j \in Ids : Owes(p, j) <=> (j \in push[p].todo \/ push[p].snap[j] # NoTarget)
        /\ \A j \in Ids : Owes(p, j)' <=> (j \in push[p].todo \ {i} \/ snap[j] # NoTarget)
  BY LoadReads
<1>2. UNCHANGED <<row, tainted, lost>> /\ LidarrGrows
  BY DEF Load, LidarrGrows, lidarr
<1>3. \A w \in Pushes \ {p}, j \in Ids : Owes(w, j)' <=> Owes(w, j)
  BY <1>1 DEF Owes
<1>4. \A w \in Pushes : PushInv(w)'
  BY <1>1, <1>2, PushInvStays DEF IInv
<1>5. ApprovedHasPush'
  <2> SUFFICES ASSUME NEW j \in Ids, row[j].status = "approved", j \notin lost
               PROVE  \E w \in Pushes : Owes(w, j)'
    BY <1>2 DEF ApprovedHasPush
  <2>1. PICK w \in Pushes : Owes(w, j)
    BY DEF IInv, ApprovedHasPush
  <2>2. row[j].target # NoTarget
    BY DEF IInv, RowsOK, NoRow
  <2>3. QED
    BY <1>1, <1>3, <2>1, <2>2
<1>6. \A w \in Pushes, j \in Ids : Owes(w, j)' =>
         /\ Owes(w, j) /\ push'[w].gone = push[w].gone
         /\ push'[w].snap[j] \in {push[w].snap[j], row[j].target}
  <2>1. ASSUME NEW j \in Ids, Owes(p, j)'
        PROVE  /\ Owes(p, j) /\ push'[p].gone = push[p].gone
               /\ push'[p].snap[j] \in {push[p].snap[j], row[j].target}
    <3>1. push'[p] # Done
      BY <2>1 DEF Owes, Done, Idle
    <3>2. QED
      BY <1>1, <2>1, <3>1
  <2>2. QED
    BY <1>1, <1>3, <2>1
<1>7. QED
  BY <1>2, <1>4, <1>5, <1>6, TableStays

(* An update is refused only for a row that is not open: an open one holds  *)
(* its key alone.                                                           *)
LEMMA RefusedNotOpen ==
  ASSUME IInv, NEW i \in Ids, NEW s, ~MayBecome(i, s)
  PROVE  row[i].status \notin Open
<1>1. PICK j \in Ids \ {i} : /\ row[j].status \in Open
                             /\ <<row[j].user, row[j].target>> = <<row[i].user, row[i].target>>
  BY DEF MayBecome, IndexAllows
<1>2. QED
  BY <1>1 DEF IInv, OneOpenRequest

(* Writing the outcome of row i keeps the invariant.                        *)
LEMMA RecordKeepsIInv ==
  ASSUME TypeOK, TypeOK', IInv, NEW p \in Pushes, Record(p)
  PROVE  IInv'
<1> DEFINE rest(i) == [push[p].out EXCEPT ![i] = "none"]
           Left(i) == [push[p] EXCEPT !.out = rest(i)]
<1>1. PICK i \in Ids :
        /\ push[p].out[i] # "none"
        /\ row' = WithStatus(i, push[p].out[i])
        /\ IF row' # row
             THEN /\ lost' = lost \ {i}
                  /\ tainted' = IF i \in push[p].gone THEN tainted \cup {i} ELSE tainted \ {i}
             ELSE UNCHANGED <<lost, tainted>>
        /\ \/ (\A j \in Ids : rest(i)[j] = "none") /\ push' = [push EXCEPT ![p] = Done]
           \/ push' = [push EXCEPT ![p] = Left(i)]
  BY DEF Record
<1>2. PICK q \in Push : q = push[p]
  BY DEF TypeOK
<1>3. /\ q.pc = "record" /\ q.out[i] \in {"sent", "failed"} /\ q.todo = {}
      /\ \A j \in Ids \ {i} : rest(i)[j] = q.out[j]
      /\ rest(i)[i] = "none"
  BY <1>1, <1>2 DEF Push, Record, IInv, PushInv
<1>4. LidarrGrows /\ UNCHANGED lidarr
  BY DEF Record, LidarrGrows, lidarr
<1>5. /\ \A w \in Pushes \ {p} : push'[w] = push[w]
      /\ PushInv(p)'
      /\ \A j \in Ids : Owes(p, j)' => /\ Owes(p, j) /\ push'[p].gone = push[p].gone
                                      /\ push'[p].snap = push[p].snap
      /\ \A j \in Ids \ {i} : Owes(p, j) => Owes(p, j)'
  <2>1. \A j \in Ids : Owes(p, j) <=> q.snap[j] # NoTarget /\ q.out[j] # "none"
    BY <1>2, <1>3 DEF Owes
  <2>2. CASE (\A j \in Ids : rest(i)[j] = "none") /\ push' = [push EXCEPT ![p] = Done]
    <3>1. push'[p] = Done /\ \A w \in Pushes \ {p} : push'[w] = push[w]
      BY <2>2 DEF TypeOK
    <3>2. /\ Done.pc = "done" /\ Done.todo = {} /\ ~Done.batch
          /\ \A j \in Ids : Done.snap[j] = NoTarget
      BY DEF Done, Idle
    <3>3. PushInv(p)'
      BY <3>1, <3>2 DEF PushInv, OneRow, Earned, Ids
    <3>4. \A j \in Ids : ~Owes(p, j)'
      BY <3>1, <3>2 DEF Owes
    <3>5. QED
      BY <1>3, <2>1, <2>2, <3>1, <3>3, <3>4
  <2>3. CASE push' = [push EXCEPT ![p] = Left(i)]
    <3>1. PICK out : out = rest(i)
      OBVIOUS
    <3>2. PICK r : r = [q EXCEPT !.out = out]
      OBVIOUS
    <3>3. push'[p] = r /\ \A w \in Pushes \ {p} : push'[w] = push[w]
      BY <1>2, <2>3, <3>1, <3>2 DEF TypeOK
    <3>4. /\ r.pc = q.pc /\ r.batch = q.batch /\ r.todo = q.todo
          /\ r.snap = q.snap /\ r.gone = q.gone /\ r.out = out
      BY <3>2 DEF Push
    <3>5. OneRow(p)'
      BY <1>2, <3>3, <3>4 DEF IInv, PushInv, OneRow
    <3>6. Earned(p)'
      <4> SUFFICES ASSUME NEW j \in Ids, out[j] = "sent"
                   PROVE  q.snap[j] # NoTarget /\ Fulfilled(q.snap[j])
        BY <1>4, <3>3, <3>4 DEF Earned, Fulfilled, lidarr
      <4>1. q.out[j] = "sent"
        BY <1>3, <3>1
      <4>2. QED
        BY <1>2, <1>3, <4>1 DEF IInv, PushInv, Earned
    <3>7. PushInv(p)'
      BY <1>3, <3>3, <3>4, <3>5, <3>6 DEF PushInv
    <3>8. \A j \in Ids : Owes(p, j)' <=> q.snap[j] # NoTarget /\ out[j] # "none"
      BY <1>3, <3>3, <3>4 DEF Owes
    <3>9. QED
      BY <1>2, <1>3, <2>1, <3>1, <3>3, <3>4, <3>7, <3>8
  <2>4. QED
    BY <1>1, <2>2, <2>3
<1>6. /\ \A j \in Ids \ {i} : row'[j] = row[j]
      /\ \/ row'[i] = row[i] /\ row' = row
         \/ /\ row[i] # NoRow /\ MayBecome(i, q.out[i]) /\ row' # row
            /\ row'[i].status = q.out[i]
            /\ row'[i].user = row[i].user /\ row'[i].target = row[i].target
  BY <1>1, <1>2 DEF WithStatus, TypeOK, Row
<1>7. row'[i].status # "approved"
  <2>1. CASE row[i] # NoRow /\ MayBecome(i, q.out[i])
    BY <1>1, <1>2, <1>3, <2>1 DEF WithStatus, TypeOK, Row
  <2>2. CASE row[i] = NoRow
    BY <1>6, <2>2 DEF NoRow
  <2>3. CASE ~MayBecome(i, q.out[i])
    <3>1. row[i].status \notin Open
      BY <2>3, RefusedNotOpen
    <3>2. QED
      BY <1>6, <2>3, <3>1 DEF Open
  <2>4. QED
    BY <2>1, <2>2, <2>3
<1>8. \A w \in Pushes \ {p}, j \in Ids : Owes(w, j)' <=> Owes(w, j)
  BY <1>5 DEF Owes
<1>9. RowsOK'
  BY <1>3, <1>6 DEF IInv, RowsOK, Status, Open
<1>10. OneOpenRequest'
  BY <1>3, <1>6 DEF IInv, OneOpenRequest, MayBecome, IndexAllows, Open
<1>11. OnlyApprovedPushed'
  <2> SUFFICES ASSUME NEW w \in Pushes, NEW j \in Ids, Owes(w, j)', j \notin push'[w].gone
               PROVE  /\ row'[j].status \notin {"absent", "pending"}
                      /\ push'[w].snap[j] \in {NoTarget, row'[j].target}
    BY DEF OnlyApprovedPushed
  <2>1. /\ row[j].status \notin {"absent", "pending"}
        /\ push'[w].snap[j] \in {NoTarget, row[j].target}
    BY <1>5, <1>8 DEF IInv, OnlyApprovedPushed
  <2>2. QED
    BY <1>3, <1>6, <2>1
<1>12. ApprovedHasPush'
  BY <1>1, <1>5, <1>6, <1>7, <1>8 DEF IInv, ApprovedHasPush
<1>13. SentWasFulfilled'
  <2> SUFFICES ASSUME NEW j \in Ids, row'[j].status = "sent", j \notin tainted'
               PROVE  Fulfilled(row'[j].target)
    BY <1>4 DEF SentWasFulfilled, Fulfilled, lidarr
  <2>1. CASE j # i \/ row' = row
    BY <1>1, <1>6, <2>1 DEF IInv, SentWasFulfilled
  <2>2. CASE j = i /\ row' # row
    <3>1. q.out[i] = "sent" /\ i \notin push[p].gone /\ row'[i].target = row[i].target
      BY <1>1, <1>6, <2>2
    <3>2. q.snap[i] # NoTarget /\ Fulfilled(q.snap[i])
      BY <1>2, <1>3, <3>1 DEF IInv, PushInv, Earned
    <3>3. Owes(p, i)
      BY <1>1, <1>2, <3>2 DEF Owes
    <3>4. q.snap[i] = row[i].target
      BY <1>2, <3>1, <3>2, <3>3 DEF IInv, OnlyApprovedPushed
    <3>5. QED
      BY <2>2, <3>1, <3>2, <3>4
  <2>3. QED
    BY <2>1, <2>2
<1>14. \A w \in Pushes : PushInv(w)'
  BY <1>4, <1>5, PushInvStays DEF IInv
<1>15. QED
  BY <1>9, <1>10, <1>11, <1>12, <1>13, <1>14 DEF IInv

(* After a restart nobody owes anything and every approved row is lost.     *)
LEMMA RestartKeepsIInv ==
  ASSUME TypeOK, TypeOK', IInv, Restart
  PROVE  IInv'
<1>1. \A q \in Pushes : push'[q] = Idle \/ push'[q] = Done
  BY DEF Restart
<1>2. /\ Idle.pc = "idle" /\ Idle.todo = {} /\ ~Idle.batch /\ \A j \in Ids : Idle.snap[j] = NoTarget
      /\ Done.pc = "done" /\ Done.todo = {} /\ ~Done.batch /\ \A j \in Ids : Done.snap[j] = NoTarget
  BY DEF Idle, Done
<1>3. \A q \in Pushes, j \in Ids : ~Owes(q, j)'
  BY <1>1, <1>2 DEF Owes
<1>4. \A q \in Pushes : PushInv(q)'
  BY <1>1, <1>2 DEF PushInv, OneRow, Earned, Ids
<1>5. UNCHANGED <<row, tainted>> /\ LidarrGrows
  BY DEF Restart, LidarrGrows, lidarr
<1>6. ApprovedHasPush'
  BY DEF Restart, ApprovedHasPush
<1>7. QED
  BY <1>3, <1>4, <1>5, <1>6, TableStays

(* Steps that concern neither the table nor a push.                         *)
LEMMA OthersKeepIInv ==
  ASSUME TypeOK, TypeOK', IInv, (\E t \in Targets : ListAlbum(t)) \/ UNCHANGED vars
  PROVE  IInv'
<1>1. UNCHANGED <<row, push, tainted, lost>> /\ LidarrGrows
  BY DEF ListAlbum, LidarrGrows, vars, lidarr, history
<1>2. \A q \in Pushes : PushInv(q)'
  BY <1>1, PushInvStays DEF IInv
<1>3. \A q \in Pushes, i \in Ids : Owes(q, i)' <=> Owes(q, i)
  BY <1>1 DEF Owes
<1>4. ApprovedHasPush'
  BY <1>1, <1>3 DEF IInv, ApprovedHasPush
<1>5. QED
  BY <1>1, <1>2, <1>3, <1>4, TableStays
-----------------------------------------------------------------------------
(* The invariant holds in the empty database.                               *)
LEMMA InitIInv == Init => IInv
<1> SUFFICES ASSUME Init PROVE IInv
  OBVIOUS
<1>1. /\ Idle.pc = "idle" /\ Idle.todo = {} /\ ~Idle.batch /\ \A j \in Ids : Idle.snap[j] = NoTarget
  BY DEF Idle
<1>2. \A q \in Pushes : push[q] = Idle
  BY DEF Init
<1>3. \A i \in Ids : row[i] = NoRow
  BY DEF Init
<1>4. \A q \in Pushes : PushInv(q)
  BY <1>1, <1>2 DEF PushInv, OneRow, Earned, Ids
<1>5. \A q \in Pushes, i \in Ids : ~Owes(q, i)
  BY <1>1, <1>2 DEF Owes
<1>6. QED
  BY <1>3, <1>4, <1>5
     DEF IInv, RowsOK, OneOpenRequest, OnlyApprovedPushed, ApprovedHasPush, SentWasFulfilled,
         NoRow, Open

(* The invariant holds throughout, whatever the order in which handlers,    *)
(* pushes, Lidarr and restarts take their steps.                            *)
THEOREM Invariance == Spec => []IInv
<1>1. TypeOK /\ TypeOK' /\ IInv /\ [Next]_vars => IInv'
  <2> SUFFICES ASSUME TypeOK, TypeOK', IInv, [Next]_vars PROVE IInv'
    OBVIOUS
  <2>1. ASSUME NEW u \in Users, NEW t \in Targets, Create(u, t) PROVE IInv'
    BY <2>1, CreateKeepsIInv
  <2>2. ASSUME NEW p \in Pushes, NEW u \in Users, NEW picked \in SUBSET Targets,
               BatchStart(p, u, picked)
        PROVE  IInv'
    BY <2>2, BatchStartKeepsIInv
  <2>3. ASSUME NEW p \in Pushes, NEW t \in Targets, BatchInsert(p, t) PROVE IInv'
    BY <2>3, BatchInsertKeepsIInv
  <2>4. ASSUME NEW i \in Ids, NEW p \in Pushes, Approve(i, p) PROVE IInv'
    BY <2>4, ApproveKeepsIInv
  <2>5. ASSUME NEW i \in Ids, Reject(i) PROVE IInv'
    BY <2>5, RejectKeepsIInv
  <2>6. ASSUME NEW i \in Ids, Delete(i) PROVE IInv'
    BY <2>6, DeleteKeepsIInv
  <2>7. ASSUME NEW p \in Pushes, PushStep(p) \/ Expire(p) PROVE IInv'
    <3>1. CASE Load(p)
      BY <3>1, LoadKeepsIInv
    <3>2. CASE Record(p)
      BY <3>2, RecordKeepsIInv
    <3>3. CASE \/ Connect(p) \/ Find(p) \/ Add(p) \/ Refind(p) \/ AddAll(p)
               \/ Poll(p) \/ Monitor(p) \/ Search(p) \/ Expire(p)
      BY <3>3, CallsTalk, TalkKeepsIInv
    <3>4. QED
      BY <2>7, <3>1, <3>2, <3>3 DEF PushStep
  <2>8. CASE Restart
    BY <2>8, RestartKeepsIInv
  <2>9. CASE (\E t \in Targets : ListAlbum(t)) \/ UNCHANGED vars
    BY <2>9, OthersKeepIInv
  <2>10. QED
    BY <2>1, <2>2, <2>3, <2>4, <2>5, <2>6, <2>7, <2>8, <2>9 DEF Next, Retry
<1>2. QED
  BY <1>1, InitIInv, TypeCorrect, PTL DEF Spec

(* An approval never loses its push, but to a restart or to a batch with    *)
(* two spellings of one album (requests.go:297-298).                        *)
THEOREM ApprovalKept == Spec => []ApprovedHasPush
<1>1. IInv => ApprovedHasPush
  BY DEF IInv
<1>2. QED
  BY <1>1, Invariance, PTL

(* "sent" is only written for what Lidarr took (requests.go:354-356, 425).  *)
THEOREM SentEarned == Spec => []SentWasFulfilled
<1>1. IInv => SentWasFulfilled
  BY DEF IInv
<1>2. QED
  BY <1>1, Invariance, PTL

(* No push works on a request nobody approved (requests.go:59-62, 72-78).   *)
THEOREM PushesApproved == Spec => []OnlyApprovedPushed
<1>1. IInv => OnlyApprovedPushed
  BY DEF IInv
<1>2. QED
  BY <1>1, Invariance, PTL

(* The index on open requests survives every status update (store.go:84-85).*)
THEOREM OpenRequestUnique == Spec => []OneOpenRequest
<1>1. IInv => OneOpenRequest
  BY DEF IInv
<1>2. QED
  BY <1>1, Invariance, PTL
-----------------------------------------------------------------------------
(* The ledger.                                                              *)

(* What a push knows of the rows in its hands besides PushInv: a batch      *)
(* handler is still to read what was deleted under it, nobody talks to      *)
(* Lidarr without a row, and only rows that were read have an outcome.      *)
Talking == {"connect", "find", "add", "refind", "addAll", "poll", "monitor", "search"}
Holding(p) ==
  /\ push[p].pc = "create" => push[p].gone \subseteq push[p].todo
  /\ push[p].pc \in Talking => Held(p) # {}
  /\ push[p].pc = "record" => \A i \in Ids : push[p].out[i] # "none" => i \in Held(p)
HInv == \A p \in Pushes : Holding(p)

(* The variables of the ledger.                                             *)
Claims(p) == {i \in Ids : Owes(p, i)}
Stale(p)  == {i \in push[p].gone : Owes(p, i)}
Taken     == {t \in Targets : Fulfilled(t)}
claim == [p \in Pushes |-> Claims(p)]
stale == [p \in Pushes |-> Stale(p)]

(* Push p has the claims it had.                                            *)
SameClaims(p) == Claims(p)' = Claims(p) /\ Stale(p)' = Stale(p)

(* When only one push's claims change, the rest of the claims stays.        *)
LEMMA ClaimsOfOne ==
  ASSUME NEW p \in Pushes, \A q \in Pushes \ {p} : SameClaims(q)
  PROVE  /\ claim' = [claim EXCEPT ![p] = Claims(p)']
         /\ stale' = [stale EXCEPT ![p] = Stale(p)']
  BY DEF SameClaims, claim, stale

(* When nobody's claims change, the ledger's claims stay.                   *)
LEMMA ClaimsOfNone ==
  ASSUME \A q \in Pushes : SameClaims(q)
  PROVE  claim' = claim /\ stale' = stale
  BY DEF SameClaims, claim, stale

(* Whoever is not touched keeps his claims.                                 *)
LEMMA UntouchedClaims ==
  ASSUME NEW q \in Pushes, push'[q] = push[q]
  PROVE  SameClaims(q)
  BY DEF SameClaims, Claims, Stale, Owes

(* What Lidarr took stays taken.                                            *)
LEMMA TakenGrows ==
  /\ LidarrGrows => Taken \subseteq Taken'
  /\ UNCHANGED lidarr => Taken' = Taken
  /\ UNCHANGED <<mode, monitored, searched>> => Taken' = Taken
  BY DEF Taken, LidarrGrows, Fulfilled, lidarr

(* A step that changes no row, no claim and nothing Lidarr took is none of  *)
(* the ledger's.                                                            *)
LEMMA LedgerStutters ==
  ASSUME row' = row, Taken' = Taken, \A q \in Pushes : SameClaims(q)
  PROVE  UNCHANGED Ledger!vars
  BY ClaimsOfNone DEF Ledger!vars, claim, stale, Claims, Stale, Taken

(* A step that changes no row and leaves a push at least one of its claims  *)
(* is work for that push.                                                   *)
LEMMA LedgerWorks ==
  ASSUME NEW p \in Pushes, row' = row, Taken \subseteq Taken',
         \A q \in Pushes \ {p} : SameClaims(q),
         Claims(p)' # {}, Claims(p)' \subseteq Claims(p),
         Stale(p)' = Stale(p) \cap Claims(p)'
  PROVE  Ledger!Work(p)
<1>1. /\ claim' = [claim EXCEPT ![p] = Claims(p)']
      /\ stale' = [stale EXCEPT ![p] = Stale(p) \cap Claims(p)']
  BY ClaimsOfOne
<1>2. claim[p] = Claims(p) /\ stale[p] = Stale(p)
  BY DEF claim, stale
<1>3. PICK kept : kept = Claims(p)'
  OBVIOUS
<1>4. kept \in (SUBSET claim[p]) \ {{}} /\ claim[p] # {}
  BY <1>2, <1>3
<1>5. claim' = [claim EXCEPT ![p] = kept] /\ stale' = [stale EXCEPT ![p] = stale[p] \cap kept]
  BY <1>1, <1>2, <1>3
<1>6. QED
  BY <1>4, <1>5 DEF Ledger!Work, claim, stale, Claims, Stale, Taken

(* A conversation with Lidarr is work, and keeps what the push knows.       *)
LEMMA TalkWorks ==
  ASSUME TypeOK, TypeOK', IInv, HInv, NEW p \in Pushes, Talk(p), push[p].pc \in Talking
  PROVE  Ledger!Work(p) /\ HInv'
<1>1. /\ Held(p) # {} /\ Held(p)' = Held(p)
      /\ push[p].todo = {} /\ push'[p].todo = {}
      /\ push'[p].snap = push[p].snap /\ push'[p].gone = push[p].gone
      /\ \A q \in Pushes \ {p} : push'[q] = push[q]
  BY DEF HInv, Holding, Talk, SameButFor, IInv, PushInv, Talking, Held
<1>2. Claims(p) = Held(p)
  BY <1>1 DEF Claims, Owes, Held, Talking
<1>3. Claims(p)' = IF push'[p].pc = "record" THEN {i \in Held(p) : push'[p].out[i] # "none"} ELSE Held(p)
  BY <1>1 DEF Claims, Owes, Held
<1>4. Claims(p)' # {} /\ Claims(p)' \subseteq Claims(p)
  BY <1>1, <1>2, <1>3 DEF Talk, OutOfHeld
<1>5. Stale(p)' = Stale(p) \cap Claims(p)'
  BY <1>1, <1>4 DEF Stale, Claims, TypeOK, Push
<1>6. Ledger!Work(p)
  BY <1>1, <1>4, <1>5, UntouchedClaims, TakenGrows, LedgerWorks DEF Talk
<1>7. Holding(p)'
  BY <1>1 DEF Holding, Talk, OutOfHeld
<1>8. \A q \in Pushes \ {p} : Holding(q)'
  BY <1>1 DEF HInv, Holding, Held
<1>9. QED
  BY <1>6, <1>7, <1>8 DEF HInv

(* An INSERT submits an entry, and hands it to a push if it is approved.    *)
LEMMA InsertSubmits ==
  ASSUME TypeOK, IInv', NEW u \in Users, NEW t \in Targets, NEW i \in Ids,
         InsertRow(i, u, t), UNCHANGED lidarr,
         IF u \in AutoApproved
           THEN \E p \in Pushes : /\ Claims(p)' = Claims(p) \cup {i} /\ Stale(p)' = Stale(p)
                                 /\ \A q \in Pushes \ {p} : SameClaims(q)
           ELSE \A q \in Pushes : SameClaims(q)
  PROVE  Ledger!Submit(i, u, t)
<1>1. row[i] = NoRow
  BY DEF InsertRow, IsNextId, Ids
<1>2. row' = [row EXCEPT ![i] = [status |-> IF u \in AutoApproved THEN "approved" ELSE "pending",
                                 user |-> u, target |-> t]]
  BY DEF InsertRow, Initially
<1>3. Ledger!OneOpen(row')
  BY DEF IInv, OneOpenRequest, Ledger!OneOpen, Open, Ledger!Open
<1>4. stale' = stale /\ IF u \in AutoApproved
        THEN \E p \in Pushes : claim' = [claim EXCEPT ![p] = claim[p] \cup {i}]
        ELSE claim' = claim
  <2>1. CASE u \notin AutoApproved
    BY <2>1, ClaimsOfNone
  <2>2. CASE u \in AutoApproved
    <3>1. PICK p \in Pushes : /\ Claims(p)' = Claims(p) \cup {i} /\ Stale(p)' = Stale(p)
                              /\ \A q \in Pushes \ {p} : SameClaims(q)
      BY <2>2
    <3>2. \A q \in Pushes : Stale(q)' = Stale(q)
      BY <3>1 DEF SameClaims
    <3>3. stale' = stale
      BY <3>2 DEF stale
    <3>4. claim' = [claim EXCEPT ![p] = claim[p] \cup {i}]
      BY <3>1, ClaimsOfOne DEF claim
    <3>5. QED
      BY <2>2, <3>3, <3>4
  <2>3. QED
    BY <2>1, <2>2
<1>5. Taken' = Taken
  BY TakenGrows
<1>6. QED
  BY <1>1, <1>2, <1>3, <1>4, <1>5
     DEF Ledger!Submit, Ledger!NoEntry, NoRow, claim, stale, Claims, Stale, Taken

(* A push that was not touched knows what it knew.                          *)
LEMMA HoldingStays ==
  ASSUME NEW q \in Pushes, push'[q] = push[q], Holding(q)
  PROVE  Holding(q)'
  BY DEF Holding, Held

(* A push that starts had no claim and has one now, stale if its row is     *)
(* gone.                                                                    *)
LEMMA GoClaims ==
  ASSUME TypeOK, HInv, NEW p \in Pushes, NEW i \in Ids, NEW gone \in SUBSET Ids, Go(p, i, gone)
  PROVE  /\ Claims(p) = {} /\ Stale(p) = {} /\ Claims(p)' = {i} /\ Stale(p)' = gone \cap {i}
         /\ \A q \in Pushes \ {p} : SameClaims(q)
         /\ HInv'
<1>1. /\ \A q \in Pushes \ {p} : push'[q] = push[q]
      /\ push'[p].gone = gone /\ push'[p].pc = "load"
      /\ \A j \in Ids : ~Owes(p, j) /\ (Owes(p, j)' <=> j = i)
  BY GoStarts
<1>2. push[p].gone \subseteq Ids
  BY DEF TypeOK, Push
<1>3. /\ Claims(p) = {} /\ Stale(p) = {} /\ Claims(p)' = {i} /\ Stale(p)' = gone \cap {i}
  BY <1>1, <1>2 DEF Claims, Stale
<1>4. HInv'
  <2>1. Holding(p)'
    BY <1>1 DEF Holding, Talking
  <2>2. QED
    BY <1>1, <2>1, HoldingStays DEF HInv
<1>5. QED
  BY <1>1, <1>3, <1>4, UntouchedClaims

(* handleRequestCreate is a submission.                                     *)
LEMMA CreateSubmits ==
  ASSUME TypeOK, IInv', HInv, NEW u \in Users, NEW t \in Targets, Create(u, t)
  PROVE  (\E i \in Ids : Ledger!Submit(i, u, t)) /\ HInv'
<1>1. PICK i \in Ids :
        /\ InsertRow(i, u, t)
        /\ IF u \in AutoApproved THEN \E p \in Pushes : Go(p, i, {}) ELSE UNCHANGED push
  BY DEF Create
<1>2. CASE u \in AutoApproved
  <2>1. PICK p \in Pushes : Go(p, i, {})
    BY <1>1, <1>2
  <2>2. /\ Claims(p)' = Claims(p) \cup {i} /\ Stale(p)' = Stale(p)
        /\ \A q \in Pushes \ {p} : SameClaims(q)
        /\ HInv'
    BY <2>1, GoClaims
  <2>3. QED
    BY <1>1, <1>2, <2>2, InsertSubmits DEF Create
<1>3. CASE u \notin AutoApproved
  <2>1. HInv' /\ \A q \in Pushes : SameClaims(q)
    BY <1>1, <1>3, HoldingStays, UntouchedClaims DEF HInv
  <2>2. QED
    BY <1>1, <1>3, <2>1, InsertSubmits DEF Create
<1>4. QED
  BY <1>2, <1>3

(* A batch handler that has inserted nothing shows nowhere in the ledger.   *)
LEMMA BatchStartStutters ==
  ASSUME TypeOK, HInv, NEW p \in Pushes, NEW u \in Users, NEW picked \in SUBSET Targets,
         BatchStart(p, u, picked)
  PROVE  UNCHANGED Ledger!vars /\ HInv'
<1>1. PICK r : r = [Idle EXCEPT !.pc = "create", !.batch = TRUE, !.user = u, !.pick = picked]
  OBVIOUS
<1>2. push'[p] = r /\ push[p] = Idle /\ \A q \in Pushes \ {p} : push'[q] = push[q]
  BY <1>1 DEF BatchStart, TypeOK
<1>3. /\ r.pc = "create" /\ r.todo = {} /\ r.gone = {} /\ \A j \in Ids : r.snap[j] = NoTarget
      /\ Idle.pc = "idle" /\ Idle.todo = {} /\ Idle.gone = {} /\ \A j \in Ids : Idle.snap[j] = NoTarget
  BY <1>1 DEF Idle
<1>4. SameClaims(p)
  BY <1>2, <1>3 DEF SameClaims, Claims, Stale, Owes
<1>5. HInv'
  <2>1. Holding(p)'
    BY <1>2, <1>3 DEF Holding, Talking
  <2>2. QED
    BY <1>2, <2>1, HoldingStays DEF HInv
<1>6. row' = row /\ Taken' = Taken
  BY TakenGrows DEF BatchStart
<1>7. QED
  BY <1>2, <1>4, <1>5, <1>6, UntouchedClaims, LedgerStutters

(* handleRequestApprove, and with it handleRequestRetry, is an approval.    *)
LEMMA ApproveApproves ==
  ASSUME TypeOK, IInv', HInv, NEW i \in Ids, NEW p \in Pushes, Approve(i, p)
  PROVE  Ledger!Approve(i, p) /\ HInv'
<1> DEFINE gone == IF row[i] = NoRow THEN {i} ELSE {}
<1>1. /\ Claims(p) = {} /\ Stale(p) = {} /\ Claims(p)' = {i} /\ Stale(p)' = gone \cap {i}
      /\ \A q \in Pushes \ {p} : SameClaims(q)
      /\ HInv'
  <2>1. gone \in SUBSET Ids /\ Go(p, i, gone)
    BY DEF Approve
  <2>2. QED
    BY <2>1, GoClaims
<1>2. row' = IF row[i] = NoRow THEN row ELSE [row EXCEPT ![i].status = "approved"]
  BY DEF Approve, WithStatus
<1>3. Ledger!OneOpen(row')
  BY DEF IInv, OneOpenRequest, Ledger!OneOpen, Open, Ledger!Open
<1>4. claim[p] = {} /\ claim' = [claim EXCEPT ![p] = {i}]
  BY <1>1, ClaimsOfOne DEF claim
<1>5. stale' = IF row[i] = NoRow THEN [stale EXCEPT ![p] = {i}] ELSE stale
  <2>1. CASE row[i] = NoRow
    BY <1>1, <2>1, ClaimsOfOne
  <2>2. CASE row[i] # NoRow
    <3>1. \A q \in Pushes : Stale(q)' = Stale(q)
      BY <1>1, <2>2 DEF SameClaims
    <3>2. QED
      BY <2>2, <3>1 DEF stale
  <2>3. QED
    BY <2>1, <2>2
<1>6. Taken' = Taken
  BY TakenGrows DEF Approve
<1>7. QED
  BY <1>1, <1>2, <1>3, <1>4, <1>5, <1>6
     DEF Ledger!Approve, Ledger!NoEntry, NoRow, claim, stale, Claims, Stale, Taken

(* handleRequestReject is a rejection.                                      *)
LEMMA RejectRejects ==
  ASSUME HInv, NEW i \in Ids, Reject(i)
  PROVE  Ledger!Reject(i) /\ HInv'
<1>1. HInv' /\ \A q \in Pushes : SameClaims(q)
  BY HoldingStays, UntouchedClaims DEF HInv, Reject
<1>2. row[i] # NoRow /\ row' = [row EXCEPT ![i].status = "rejected"]
  BY DEF Reject, WithStatus, MayBecome, Open
<1>3. Taken' = Taken /\ claim' = claim /\ stale' = stale
  BY <1>1, TakenGrows, ClaimsOfNone DEF Reject
<1>4. QED
  BY <1>1, <1>2, <1>3
     DEF Ledger!Reject, Ledger!NoEntry, NoRow, claim, stale, Claims, Stale, Taken

(* handleRequestDelete withdraws the entry; claims to it become stale.      *)
LEMMA DeleteWithdraws ==
  ASSUME TypeOK, IInv, HInv, NEW i \in Ids, Delete(i)
  PROVE  Ledger!Withdraw(i) /\ HInv'
<1>1. ASSUME NEW q \in Pushes
      PROVE  /\ push'[q].pc = push[q].pc /\ push'[q].user = push[q].user
             /\ push'[q].todo = push[q].todo
             /\ push'[q].snap = push[q].snap /\ push'[q].out = push[q].out
             /\ Owes(q, i) => push'[q].gone = push[q].gone \cup {i}
             /\ ~Owes(q, i) => push'[q].gone = push[q].gone
  <2>1. PICK w \in Push : w = push[q]
    BY DEF TypeOK
  <2>2. PICK r : r = [w EXCEPT !.gone = w.gone \cup {i}]
    OBVIOUS
  <2>3. push'[q] = IF Owes(q, i) THEN r ELSE w
    BY <2>1, <2>2 DEF Delete
  <2>4. /\ r.pc = w.pc /\ r.user = w.user /\ r.todo = w.todo
        /\ r.snap = w.snap /\ r.out = w.out /\ r.gone = w.gone \cup {i}
    BY <2>2 DEF Push
  <2>5. QED
    BY <2>1, <2>3, <2>4
<1>2. \A q \in Pushes, j \in Ids : Owes(q, j)' <=> Owes(q, j)
  BY <1>1 DEF Owes
<1>3. ASSUME NEW q \in Pushes
      PROVE  /\ Claims(q)' = Claims(q)
             /\ Stale(q)' = Stale(q) \cup (Claims(q) \cap {i})
  <2>1. push[q].gone \subseteq Ids /\ push'[q].gone \subseteq Ids
    <3>1. push[q] \in Push
      BY DEF TypeOK
    <3>2. push[q].gone \subseteq Ids
      BY <3>1 DEF Push
    <3>3. QED
      BY <1>1, <3>2
  <2>2. Claims(q)' = Claims(q)
    BY <1>2 DEF Claims
  <2>3. Stale(q)' = Stale(q) \cup (Claims(q) \cap {i})
    BY <1>1, <1>2, <2>1 DEF Claims, Stale
  <2>4. QED
    BY <2>2, <2>3
<1>4. claim' = claim /\ stale' = [q \in Pushes |-> stale[q] \cup (claim[q] \cap {i})]
  BY <1>3 DEF claim, stale
<1>5. Taken' = Taken
  BY TakenGrows DEF Delete
<1>6. HInv'
  <2> SUFFICES ASSUME NEW q \in Pushes PROVE Holding(q)'
    BY DEF HInv
  <2>1. push[q].pc = "create" /\ Owes(q, i) => i \in push[q].todo
    BY DEF IInv, PushInv, Owes
  <2>2. Held(q)' = Held(q)
    BY <1>1 DEF Held
  <2>3. push'[q].pc = "create" => push'[q].gone \subseteq push'[q].todo
    BY <1>1, <2>1 DEF HInv, Holding
  <2>4. push'[q].pc \in Talking => Held(q)' # {}
    BY <1>1, <2>2 DEF HInv, Holding
  <2>5. push'[q].pc = "record" => \A j \in Ids : push'[q].out[j] # "none" => j \in Held(q)'
    BY <1>1, <2>2 DEF HInv, Holding
  <2>6. QED
    BY <2>3, <2>4, <2>5 DEF Holding
<1>7. QED
  BY <1>4, <1>5, <1>6
     DEF Ledger!Withdraw, Ledger!NoEntry, NoRow, Delete, claim, stale, Claims, Stale, Taken

(* After a restart nobody has a claim.                                      *)
LEMMA RestartRestarts ==
  ASSUME Restart
  PROVE  Ledger!Restart /\ HInv'
<1>1. \A q \in Pushes : push'[q] = Idle \/ push'[q] = Done
  BY DEF Restart
<1>2. /\ Idle.pc = "idle" /\ Idle.todo = {} /\ \A j \in Ids : Idle.snap[j] = NoTarget
      /\ Done.pc = "done" /\ Done.todo = {} /\ \A j \in Ids : Done.snap[j] = NoTarget
      /\ Idle.gone = {} /\ Done.gone = {}
  BY DEF Idle, Done
<1>3. \A q \in Pushes : Claims(q)' = {} /\ Stale(q)' = {}
  BY <1>1, <1>2 DEF Claims, Stale, Owes
<1>4. claim' = [q \in Pushes |-> {}] /\ stale' = [q \in Pushes |-> {}]
  BY <1>3 DEF claim, stale
<1>5. Taken' = Taken /\ row' = row
  BY TakenGrows DEF Restart
<1>6. HInv'
  BY <1>1, <1>2 DEF HInv, Holding, Talking
<1>7. QED
  BY <1>4, <1>5, <1>6 DEF Ledger!Restart, claim, stale, Claims, Stale, Taken

(* Lidarr's own refresh shows nowhere in the ledger.                        *)
LEMMA OthersStutter ==
  ASSUME HInv, (\E t \in Targets : ListAlbum(t)) \/ UNCHANGED vars
  PROVE  UNCHANGED Ledger!vars /\ HInv'
<1>1. UNCHANGED <<row, push>> /\ Taken' = Taken
  BY TakenGrows DEF ListAlbum, vars, lidarr
<1>2. HInv' /\ \A q \in Pushes : SameClaims(q)
  BY <1>1, HoldingStays, UntouchedClaims DEF HInv
<1>3. QED
  BY <1>1, <1>2, LedgerStutters

(* An INSERT of a batch is a submission; one that fails shows nowhere.      *)
LEMMA BatchInsertSubmits ==
  ASSUME TypeOK, IInv, IInv', HInv, NEW p \in Pushes, NEW t \in Targets, BatchInsert(p, t)
  PROVE  /\ \/ \E i \in Ids, u \in Users : Ledger!Submit(i, u, t)
            \/ UNCHANGED Ledger!vars
         /\ HInv'
<1> DEFINE u == push[p].user
           Next1(ids) == [push[p] EXCEPT !.pick = push[p].pick \ {t}, !.todo = ids]
           Next2(ids) == [push[p] EXCEPT !.pick = {}, !.todo = ids, !.pc = "load", !.user = NoUser]
           Advance(ids) == \/ push' = [push EXCEPT ![p] = Next1(ids)]
                           \/ u \in AutoApproved /\ push' = [push EXCEPT ![p] = Next2(ids)]
                           \/ (u \in AutoApproved => ids = {}) /\ push' = [push EXCEPT ![p] = Done]
<1>1. /\ push[p] \in Push /\ push[p].pc = "create" /\ u \in Users
      /\ \A i \in Ids : push[p].snap[i] = NoTarget
      /\ push[p].gone \subseteq push[p].todo
  <2>1. push[p].pc = "create"
    BY Zenon DEF BatchInsert
  <2>2. push[p] \in Push /\ PushInv(p) /\ Holding(p)
    BY DEF IInv, TypeOK, HInv
  <2>3. QED
    BY <2>1, <2>2 DEF PushInv, Push, Holding
<1>2. /\ Claims(p) = IF u \in AutoApproved THEN push[p].todo ELSE {}
      /\ Stale(p) = IF u \in AutoApproved THEN push[p].gone ELSE {}
  <2>1. push[p].todo \subseteq Ids
    BY <1>1 DEF Push
  <2>2. QED
    BY <1>1, <2>1 DEF Claims, Stale, Owes
<1>3. ASSUME NEW ids \in SUBSET Ids, push[p].todo \subseteq ids, Advance(ids)
      PROVE  /\ \A q \in Pushes \ {p} : push'[q] = push[q]
             /\ Claims(p)' = (IF u \in AutoApproved THEN ids ELSE {})
             /\ Stale(p)' = Stale(p)
             /\ HInv'
  <2>1. \A q \in Pushes \ {p} : push'[q] = push[q]
    BY <1>3 DEF TypeOK
  <2>2. PICK q \in Push : q = push[p]
    BY <1>1
  <2>3. CASE push' = [push EXCEPT ![p] = Next1(ids)]
    <3>1. PICK r : r = [q EXCEPT !.pick = q.pick \ {t}, !.todo = ids]
      OBVIOUS
    <3>2. push'[p] = r
      BY <2>2, <2>3, <3>1 DEF TypeOK
    <3>3. /\ r.pc = "create" /\ r.user = q.user /\ r.todo = ids
          /\ r.snap = q.snap /\ r.gone = q.gone
      BY <1>1, <2>2, <3>1 DEF Push
    <3>4. \A j \in Ids : Owes(p, j)' <=> j \in ids /\ u \in AutoApproved
      BY <1>1, <2>2, <3>2, <3>3 DEF Owes
    <3>5. Holding(p)'
      BY <1>1, <1>3, <2>2, <3>2, <3>3 DEF Holding, Talking
    <3>6. HInv'
      BY <2>1, <3>5, HoldingStays DEF HInv
    <3>7. push'[p].gone = push[p].gone /\ push[p].gone \subseteq ids
      BY <1>1, <1>3, <2>2, <3>2, <3>3
    <3>8. QED
      BY <1>2, <2>1, <3>4, <3>6, <3>7 DEF Claims, Stale
  <2>4. CASE u \in AutoApproved /\ push' = [push EXCEPT ![p] = Next2(ids)]
    <3>1. PICK r : r = [q EXCEPT !.pick = {}, !.todo = ids, !.pc = "load", !.user = NoUser]
      OBVIOUS
    <3>2. push'[p] = r
      BY <2>2, <2>4, <3>1 DEF TypeOK
    <3>3. /\ r.pc = "load" /\ r.todo = ids /\ r.snap = q.snap /\ r.gone = q.gone
      BY <3>1 DEF Push
    <3>4. \A j \in Ids : Owes(p, j)' <=> j \in ids
      BY <1>1, <2>2, <3>2, <3>3 DEF Owes
    <3>5. Holding(p)'
      BY <3>2, <3>3 DEF Holding, Talking
    <3>6. HInv'
      BY <2>1, <3>5, HoldingStays DEF HInv
    <3>7. push'[p].gone = push[p].gone /\ push[p].gone \subseteq ids
      BY <1>1, <1>3, <2>2, <3>2, <3>3
    <3>8. QED
      BY <1>2, <2>1, <2>4, <3>4, <3>6, <3>7 DEF Claims, Stale
  <2>5. CASE (u \in AutoApproved => ids = {}) /\ push' = [push EXCEPT ![p] = Done]
    <3>1. push'[p] = Done
      BY <2>5 DEF TypeOK
    <3>2. /\ Done.pc = "done" /\ Done.todo = {} /\ Done.gone = {}
          /\ \A i \in Ids : Done.snap[i] = NoTarget
      BY DEF Done, Idle
    <3>3. Holding(p)'
      BY <3>1, <3>2 DEF Holding, Talking
    <3>4. HInv'
      BY <2>1, <3>3, HoldingStays DEF HInv
    <3>5. Claims(p)' = {} /\ Stale(p)' = {}
      BY <3>1, <3>2 DEF Claims, Stale, Owes
    <3>6. Stale(p) = {}
      BY <1>1, <1>2, <1>3, <2>5, Zenon
    <3>7. QED
      BY <2>1, <2>5, <3>4, <3>5, <3>6
  <2>6. QED
    BY <1>3, <2>3, <2>4, <2>5
<1>4. UNCHANGED lidarr /\ push[p].todo \subseteq Ids
  BY <1>1, Zenon DEF BatchInsert, Push
<1>5. CASE \E i \in Ids : InsertRow(i, u, t) /\ Advance(push[p].todo \cup {i})
  <2>1. PICK i \in Ids : InsertRow(i, u, t) /\ Advance(push[p].todo \cup {i})
    BY <1>5, Zenon
  <2> DEFINE ids == push[p].todo \cup {i}
  <2>2. ids \in SUBSET Ids /\ push[p].todo \subseteq ids /\ Advance(ids)
    BY <1>4, <2>1
  <2> HIDE DEF ids, Advance
  <2>3. /\ \A q \in Pushes \ {p} : push'[q] = push[q]
        /\ Claims(p)' = (IF u \in AutoApproved THEN ids ELSE {})
        /\ Stale(p)' = Stale(p)
        /\ HInv'
    BY <1>3, <2>2
  <2>4. \A q \in Pushes \ {p} : SameClaims(q)
    BY <2>3, UntouchedClaims
  <2>5. CASE u \in AutoApproved
    <3>1. Claims(p)' = Claims(p) \cup {i}
      BY <1>2, <2>3, <2>5 DEF ids
    <3>2. QED
      BY <1>1, <1>4, <2>1, <2>3, <2>4, <2>5, <3>1, InsertSubmits
  <2>6. CASE u \notin AutoApproved
    <3>1. SameClaims(p)
      BY <1>2, <2>3, <2>6 DEF SameClaims
    <3>2. QED
      BY <1>1, <1>4, <2>1, <2>3, <2>4, <2>6, <3>1, InsertSubmits
  <2>7. QED
    BY <2>5, <2>6, Zenon
<1>6. CASE Advance(push[p].todo) /\ UNCHANGED <<row, inserts, history>>
  <2>1. /\ \A q \in Pushes \ {p} : push'[q] = push[q]
        /\ Claims(p)' = (IF u \in AutoApproved THEN push[p].todo ELSE {})
        /\ Stale(p)' = Stale(p)
        /\ HInv'
    BY <1>3, <1>4, <1>6, Zenon
  <2>2. \A q \in Pushes : SameClaims(q)
    BY <1>2, <2>1, UntouchedClaims DEF SameClaims
  <2>3. QED
    BY <1>4, <1>6, <2>1, <2>2, TakenGrows, LedgerStutters, Zenon
<1>7. QED
  BY <1>5, <1>6, Zenon DEF BatchInsert

(* A push that no longer owes row i, while Lidarr is left alone, drops it.  *)
LEMMA DropsOne ==
  ASSUME NEW p \in Pushes, NEW i \in Ids, Owes(p, i), UNCHANGED lidarr,
         \A q \in Pushes \ {p} : push'[q] = push[q],
         Claims(p)' = Claims(p) \ {i}, Stale(p)' = Stale(p) \ {i}
  PROVE  Ledger!Drop(p, i)
<1>1. /\ claim' = [claim EXCEPT ![p] = Claims(p) \ {i}]
      /\ stale' = [stale EXCEPT ![p] = Stale(p) \ {i}]
  BY ClaimsOfOne, UntouchedClaims
<1>2. claim[p] = Claims(p) /\ stale[p] = Stale(p) /\ i \in Claims(p)
  BY DEF claim, stale, Claims
<1>3. Taken' = Taken
  BY TakenGrows
<1>4. i \in claim[p] /\ claim' = [claim EXCEPT ![p] = claim[p] \ {i}]
      /\ stale' = [stale EXCEPT ![p] = stale[p] \ {i}]
  BY <1>1, <1>2
<1>5. QED
  BY <1>3, <1>4 DEF Ledger!Drop, claim, stale, Claims, Stale, Taken

(* Reading a row changes nothing, or the claim to a deleted one is dropped. *)
LEMMA LoadMissesOrStutters ==
  ASSUME TypeOK, IInv, HInv, NEW p \in Pushes, Load(p)
  PROVE  /\ (\E i \in Ids : Ledger!Miss(p, i)) \/ UNCHANGED Ledger!vars
         /\ HInv'
<1>1. PICK i \in Ids, snap \in [Ids -> Targets \cup {NoTarget}] :
        /\ i \in push[p].todo
        /\ snap[i] = row[i].target /\ \A j \in Ids \ {i} : snap[j] = push[p].snap[j]
        /\ \A w \in Pushes \ {p} : push'[w] = push[w]
        /\ push'[p] = Done \/ (push'[p].gone = push[p].gone /\ push'[p].snap = snap)
        /\ \A j \in Ids : Owes(p, j) <=> (j \in push[p].todo \/ push[p].snap[j] # NoTarget)
        /\ \A j \in Ids : Owes(p, j)' <=> (j \in push[p].todo \ {i} \/ snap[j] # NoTarget)
        /\ \/ push'[p].pc \in {"load", "done"}
           \/ push'[p].pc = "connect" /\ \E j \in Ids : push'[p].snap[j] # NoTarget
  BY LoadReads
<1>2. row' = row /\ UNCHANGED lidarr
  BY DEF Load
<1>3. HInv'
  <2>1. Holding(p)'
    BY <1>1 DEF Holding, Held, Talking
  <2>2. QED
    BY <1>1, <2>1, HoldingStays DEF HInv
<1>4. push[p].gone \subseteq Ids
  <2>1. push[p] \in Push
    BY DEF TypeOK
  <2>2. QED
    BY <2>1 DEF Push
<1>5. ASSUME NEW S, Claims(p)' = Claims(p) \ S PROVE Stale(p)' = Stale(p) \ S
  <2>1. CASE push'[p].gone = push[p].gone
    BY <1>4, <1>5, <2>1 DEF Claims, Stale
  <2>2. CASE push'[p] = Done
    <3>1. \A j \in Ids : ~Owes(p, j)'
      BY <2>2 DEF Owes, Done, Idle
    <3>2. Stale(p)' = {}
      BY <2>2 DEF Stale, Done, Idle
    <3>3. Claims(p) \ S = {}
      BY <1>5, <3>1 DEF Claims
    <3>4. QED
      BY <1>4, <3>2, <3>3 DEF Claims, Stale
  <2>3. QED
    BY <1>1, <2>1, <2>2
<1>6. Owes(p, i)
  BY <1>1
<1>7. CASE row[i].target # NoTarget
  <2>1. \A j \in Ids : Owes(p, j)' <=> Owes(p, j)
    BY <1>1, <1>7
  <2>2. Claims(p)' = Claims(p) \ {}
    BY <2>1 DEF Claims
  <2>3. Stale(p)' = Stale(p) \ {}
    BY <1>5, <2>2
  <2>4. SameClaims(p)
    BY <2>2, <2>3 DEF SameClaims
  <2>5. QED
    BY <1>1, <1>2, <1>3, <2>4, UntouchedClaims, TakenGrows, LedgerStutters
<1>8. CASE row[i].target = NoTarget
  <2>1. row[i] = NoRow
    BY <1>8 DEF IInv, RowsOK
  <2>2. i \in push[p].gone
    BY <1>6, <2>1 DEF IInv, OnlyApprovedPushed, NoRow
  <2>3. \A j \in Ids : Owes(p, j)' <=> Owes(p, j) /\ j # i
    BY <1>1, <1>8
  <2>4. Claims(p)' = Claims(p) \ {i}
    BY <2>3 DEF Claims
  <2>5. Ledger!Drop(p, i)
    BY <1>1, <1>2, <1>5, <1>6, <2>4, DropsOne
  <2>6. i \in Stale(p) /\ row[i].status # "approved"
    BY <1>6, <2>1, <2>2 DEF Stale, NoRow
  <2>7. Ledger!Miss(p, i)
    BY <1>2, <2>5, <2>6 DEF Ledger!Miss, Stale
  <2>8. QED
    BY <1>3, <2>7
<1>9. QED
  BY <1>7, <1>8

(* A closing UPDATE is an answer, or misses: the row is gone or refuses it. *)
LEMMA RecordAnswers ==
  ASSUME TypeOK, IInv, IInv', HInv, NEW p \in Pushes, Record(p)
  PROVE  /\ \E i \in Ids : \/ \E s \in {"sent", "failed"} : Ledger!Answer(p, i, s)
                            \/ Ledger!Miss(p, i)
         /\ HInv'
<1> DEFINE rest(i) == [push[p].out EXCEPT ![i] = "none"]
           Left(i) == [push[p] EXCEPT !.out = rest(i)]
<1>1. PICK i \in Ids :
        /\ push[p].out[i] # "none"
        /\ row' = WithStatus(i, push[p].out[i])
        /\ \/ (\A j \in Ids : rest(i)[j] = "none") /\ push' = [push EXCEPT ![p] = Done]
           \/ push' = [push EXCEPT ![p] = Left(i)]
  BY DEF Record
<1>2. PICK q \in Push : q = push[p]
  BY DEF TypeOK
<1>3. PICK s \in {"sent", "failed"} : s = q.out[i]
  BY <1>1, <1>2 DEF Push
<1>4. /\ q.pc = "record" /\ q.todo = {} /\ q.gone \subseteq Ids
      /\ \A j \in Ids : q.out[j] # "none" => q.snap[j] # NoTarget
  BY <1>2 DEF Record, IInv, PushInv, HInv, Holding, Held, Push
<1>5. PICK out : /\ out = rest(i) /\ out[i] = "none"
                 /\ \A j \in Ids \ {i} : out[j] = q.out[j]
  <2>1. q.out \in [Ids -> {"none", "sent", "failed"}]
    BY DEF Push
  <2>2. PICK out : out = [q.out EXCEPT ![i] = "none"]
    OBVIOUS
  <2>3. out = rest(i)
    BY <1>2, <2>2
  <2>4. QED
    BY <2>1, <2>2, <2>3
<1>6. \A j \in Ids : Owes(p, j) <=> q.out[j] # "none"
  BY <1>2, <1>4 DEF Owes
<1>7. /\ \A w \in Pushes \ {p} : push'[w] = push[w]
      /\ Claims(p)' = Claims(p) \ {i} /\ Stale(p)' = Stale(p) \ {i}
      /\ Holding(p)'
  <2>1. CASE (\A j \in Ids : rest(i)[j] = "none") /\ push' = [push EXCEPT ![p] = Done]
    <3>1. push'[p] = Done /\ \A w \in Pushes \ {p} : push'[w] = push[w]
      BY <2>1 DEF TypeOK
    <3>2. /\ Done.pc = "done" /\ Done.todo = {} /\ Done.gone = {}
          /\ \A j \in Ids : Done.snap[j] = NoTarget
      BY DEF Done, Idle
    <3>3. Claims(p)' = {} /\ Stale(p)' = {} /\ Holding(p)'
      BY <3>1, <3>2 DEF Claims, Stale, Owes, Holding, Talking
    <3>4. \A j \in Ids \ {i} : ~Owes(p, j)
      BY <1>5, <1>6, <2>1
    <3>5. Claims(p) \ {i} = {} /\ Stale(p) \ {i} = {}
      BY <1>2, <1>4, <3>4 DEF Claims, Stale
    <3>6. QED
      BY <3>1, <3>3, <3>5
  <2>2. CASE push' = [push EXCEPT ![p] = Left(i)]
    <3>1. PICK r : r = [q EXCEPT !.out = out]
      OBVIOUS
    <3>2. push'[p] = r /\ \A w \in Pushes \ {p} : push'[w] = push[w]
      BY <1>2, <1>5, <2>2, <3>1 DEF TypeOK
    <3>3. /\ r.pc = "record" /\ r.todo = {} /\ r.snap = q.snap /\ r.gone = q.gone /\ r.out = out
      BY <1>4, <3>1 DEF Push
    <3>4. \A j \in Ids : Owes(p, j)' <=> out[j] # "none"
      BY <1>4, <1>5, <3>2, <3>3 DEF Owes
    <3>5. \A j \in Ids : Owes(p, j)' <=> Owes(p, j) /\ j # i
      BY <1>5, <1>6, <3>4
    <3>6. Claims(p)' = Claims(p) \ {i} /\ Stale(p)' = Stale(p) \ {i}
      BY <1>2, <1>4, <3>2, <3>3, <3>5 DEF Claims, Stale
    <3>7. Holding(p)'
      BY <1>4, <1>5, <3>2, <3>3 DEF Holding, Held, Talking
    <3>8. QED
      BY <3>2, <3>6, <3>7
  <2>3. QED
    BY <1>1, <2>1, <2>2
<1> HIDE DEF rest, Left
<1>8. HInv'
  BY <1>7, HoldingStays DEF HInv
<1>9. Owes(p, i) /\ Ledger!Drop(p, i)
  <2>1. Owes(p, i)
    BY <1>1, <1>2, <1>6
  <2>2. UNCHANGED lidarr
    BY DEF Record
  <2>3. QED
    BY <1>7, <2>1, <2>2, DropsOne
<1>10. i \in Stale(p) \/ (row[i].status \notin {"absent", "pending"} /\ q.snap[i] = row[i].target)
  BY <1>1, <1>2, <1>4, <1>9 DEF IInv, OnlyApprovedPushed, Stale
<1>11. CASE row[i] # NoRow /\ MayBecome(i, s)
  <2>1. row' = [row EXCEPT ![i].status = s]
    BY <1>1, <1>2, <1>3, <1>11 DEF WithStatus
  <2>2. Ledger!OneOpen(row')
    BY DEF IInv, OneOpenRequest, Ledger!OneOpen, Open, Ledger!Open
  <2>3. ASSUME s = "sent", i \notin Stale(p) PROVE row[i].target \in Taken
    <3>1. Fulfilled(q.snap[i])
      <4>1. Earned(p)
        BY DEF IInv, PushInv
      <4>2. QED
        BY <1>2, <1>3, <1>4, <2>3, <4>1 DEF Earned
    <3>2. row[i].target \in Targets
      BY <1>11 DEF IInv, RowsOK
    <3>3. QED
      BY <1>10, <2>3, <3>1, <3>2 DEF Taken
  <2>4. Ledger!Answer(p, i, s)
    BY <1>9, <1>10, <1>11, <2>1, <2>2, <2>3
       DEF Ledger!Answer, Ledger!NoEntry, NoRow, Stale, Taken
  <2>5. QED
    BY <1>8, <2>4
<1>12. CASE ~(row[i] # NoRow /\ MayBecome(i, s))
  <2>1. row' = row
    BY <1>1, <1>2, <1>3, <1>12 DEF WithStatus
  <2>2. row[i].status # "approved"
    BY <1>12, RefusedNotOpen DEF Open, NoRow
  <2>3. Ledger!Miss(p, i)
    BY <1>9, <1>10, <2>1, <2>2 DEF Ledger!Miss, Stale
  <2>4. QED
    BY <1>8, <2>3
<1>13. QED
  BY <1>11, <1>12
-----------------------------------------------------------------------------
(* The empty database is the empty ledger.                                  *)
LEMMA InitLedger == Init => Ledger!Init /\ HInv
<1> SUFFICES ASSUME Init PROVE Ledger!Init /\ HInv
  OBVIOUS
<1>1. /\ Idle.pc = "idle" /\ Idle.todo = {} /\ Idle.gone = {} /\ \A j \in Ids : Idle.snap[j] = NoTarget
  BY DEF Idle
<1>2. \A q \in Pushes : push[q] = Idle
  BY DEF Init
<1>3. \A q \in Pushes : Claims(q) = {} /\ Stale(q) = {} /\ Holding(q)
  BY <1>1, <1>2 DEF Claims, Stale, Owes, Holding, Talking
<1>4. claim = [q \in Pushes |-> {}] /\ stale = [q \in Pushes |-> {}]
  BY <1>3 DEF claim, stale
<1>5. row = [i \in Ids |-> NoRow] /\ Taken \subseteq Targets
  BY DEF Init, Taken
<1>6. QED
  BY <1>3, <1>4, <1>5 DEF Ledger!Init, Ledger!NoEntry, NoRow, claim, stale, Claims, Stale, Taken, HInv

(* Every step of handlers, pushes, Lidarr and the process is one of the     *)
(* ledger, or none.                                                         *)
LEMMA StepOfLedger ==
  ASSUME TypeOK, TypeOK', IInv, IInv', HInv, [Next]_vars
  PROVE  [Ledger!Next]_(Ledger!vars) /\ HInv'
<1> DEFINE OK == [Ledger!Next]_(Ledger!vars) /\ HInv'
<1>1. ASSUME NEW u \in Users, NEW t \in Targets, Create(u, t) PROVE OK
  BY <1>1, CreateSubmits DEF Ledger!Next
<1>2. ASSUME NEW p \in Pushes, NEW u \in Users, NEW picked \in SUBSET Targets,
             BatchStart(p, u, picked)
      PROVE  OK
  BY <1>2, BatchStartStutters
<1>3. ASSUME NEW p \in Pushes, NEW t \in Targets, BatchInsert(p, t) PROVE OK
  BY <1>3, BatchInsertSubmits DEF Ledger!Next
<1>4. ASSUME NEW i \in Ids, NEW p \in Pushes, Approve(i, p) PROVE OK
  BY <1>4, ApproveApproves DEF Ledger!Next
<1>5. ASSUME NEW i \in Ids, Reject(i) PROVE OK
  BY <1>5, RejectRejects DEF Ledger!Next
<1>6. ASSUME NEW i \in Ids, Delete(i) PROVE OK
  BY <1>6, DeleteWithdraws DEF Ledger!Next
<1>7. ASSUME NEW p \in Pushes, Load(p) PROVE OK
  BY <1>7, LoadMissesOrStutters DEF Ledger!Next
<1>8. ASSUME NEW p \in Pushes, Record(p) PROVE OK
  BY <1>8, RecordAnswers DEF Ledger!Next
<1>9. ASSUME NEW p \in Pushes,
             \/ Connect(p) \/ Find(p) \/ Add(p) \/ Refind(p) \/ AddAll(p)
             \/ Poll(p) \/ Monitor(p) \/ Search(p) \/ Expire(p)
      PROVE  OK
  <2>1. Talk(p)
    BY <1>9, CallsTalk
  <2>2. push[p].pc \in Talking
    BY <1>9 DEF Talking, Connect, Find, Add, Refind, AddAll, Poll, Monitor, Search, Expire
  <2>3. Ledger!Work(p) /\ HInv'
    BY <2>1, <2>2, TalkWorks
  <2>4. QED
    BY <2>3 DEF Ledger!Next
<1>10. ASSUME Restart PROVE OK
  BY <1>10, RestartRestarts DEF Ledger!Next
<1>11. ASSUME (\E t \in Targets : ListAlbum(t)) \/ UNCHANGED vars PROVE OK
  BY <1>11, OthersStutter
<1>12. QED
  BY <1>1, <1>2, <1>3, <1>4, <1>5, <1>6, <1>7, <1>8, <1>9, <1>10, <1>11
     DEF Next, PushStep, Retry

(* Fulfilment implements the ledger: between approval and outcome a row     *)
(* goes only the ways of RequestLedger (requests.go:297-298, 316-330).      *)
THEOREM LedgerImplemented == Spec => ImplementsLedger
<1>1. TypeOK /\ TypeOK' /\ IInv /\ IInv' /\ HInv /\ [Next]_vars => [Ledger!Next]_(Ledger!vars) /\ HInv'
  BY StepOfLedger
<1>2. QED
  BY <1>1, InitLedger, TypeCorrect, Invariance, PTL DEF Spec, ImplementsLedger, Ledger!Spec
=============================================================================
