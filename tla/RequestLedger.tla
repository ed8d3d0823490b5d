--------------------------- MODULE RequestLedger ---------------------------
(***************************************************************************)
(* What fulfilment of requests promises (internal/server/requests.go), as  *)
(* a ledger: without goroutines, Lidarr's calls and copies of rows.        *)
(*                                                                         *)
(* An approval hands an entry to a JOB, which then has a CLAIM to it and   *)
(* answers it once, with "sent" or "failed".  Decisions, withdrawals and   *)
(* restarts may come at any time.  RequestFulfilment implements this       *)
(* ledger; everything an entry can go through there is a step here.        *)
(***************************************************************************)
CONSTANTS
  Users,
  AutoApproved,  \* users whose requests need no decision
  Targets,       \* artists and albums as requested
  NoUser, NoTarget,
  Ids,           \* numbers of entries; a number is used again after a withdrawal
  Jobs

VARIABLES
  entry,  \* entry[i]: the request with number i, or NoEntry
  claim,  \* claim[j]: the entries job j has still to answer for
  stale,  \* stale[j]: those of them that were withdrawn since; the number may
          \* be another request's by now
  done    \* targets Lidarr took

vars == <<entry, claim, stale, done>>

Open    == {"pending", "approved", "sent"}
NoEntry == [status |-> "absent", user |-> NoUser, target |-> NoTarget]

(* Of the open entries each has a user and target of its own.               *)
OneOpen(e) ==
  \A i, j \in Ids : /\ i # j /\ e[i].status \in Open /\ e[j].status \in Open
                    => <<e[i].user, e[i].target>> # <<e[j].user, e[j].target>>
-----------------------------------------------------------------------------
(* A request is entered, and handed to a job when it needs no decision.     *)
Submit(i, u, t) ==
  /\ entry[i] = NoEntry
  /\ entry' = [entry EXCEPT ![i] =
                 [status |-> IF u \in AutoApproved THEN "approved" ELSE "pending",
                  user |-> u, target |-> t]]
  /\ OneOpen(entry')
  /\ IF u \in AutoApproved THEN \E j \in Jobs : claim' = [claim EXCEPT ![j] = @ \cup {i}]
                            ELSE UNCHANGED claim
  /\ UNCHANGED <<stale, done>>

(* An approval, of any entry, gives it to a job without other claims.       *)
Approve(i, j) ==
  /\ entry' = IF entry[i] = NoEntry THEN entry ELSE [entry EXCEPT ![i].status = "approved"]
  /\ OneOpen(entry')
  /\ claim[j] = {}
  /\ claim' = [claim EXCEPT ![j] = {i}]
  /\ stale' = IF entry[i] = NoEntry THEN [stale EXCEPT ![j] = {i}] ELSE stale
  /\ UNCHANGED done

Reject(i) ==
  /\ entry[i] # NoEntry
  /\ entry' = [entry EXCEPT ![i].status = "rejected"]
  /\ UNCHANGED <<claim, stale, done>>

Withdraw(i) ==
  /\ entry[i] # NoEntry
  /\ entry' = [entry EXCEPT ![i] = NoEntry]
  /\ stale' = [j \in Jobs |-> stale[j] \cup (claim[j] \cap {i})]
  /\ UNCHANGED <<claim, done>>

(* Job j drops its claim to entry i.                                        *)
Drop(j, i) ==
  /\ i \in claim[j]
  /\ claim' = [claim EXCEPT ![j] = @ \ {i}]
  /\ stale' = [stale EXCEPT ![j] = @ \ {i}]
  /\ UNCHANGED done

(* A job answers for entry i.  It does so truthfully, and only for what was *)
(* approved, unless its entry was withdrawn.                                *)
Answer(j, i, s) ==
  /\ entry[i] # NoEntry
  /\ entry' = [entry EXCEPT ![i].status = s]
  /\ OneOpen(entry')
  /\ Drop(j, i)
  /\ i \in stale[j] \/ /\ entry[i].status # "pending"
                       /\ s = "sent" => entry[i].target \in done

(* An answer that is refused, or whose entry is gone, is dropped.  That     *)
(* never leaves an entry "approved".                                        *)
Miss(j, i) ==
  /\ entry' = entry
  /\ entry[i].status # "approved"
  /\ Drop(j, i)
  /\ i \in stale[j] \/ entry[i].status \notin {"absent", "pending"}

(* A job with a claim gets Lidarr to take something.  Of claims that turn   *)
(* out to be the same album it keeps only one.                              *)
Work(j) ==
  /\ entry' = entry
  /\ claim[j] # {}
  /\ \/ UNCHANGED <<claim, stale>>
     \/ \E kept \in (SUBSET claim[j]) \ {{}} :
          /\ claim' = [claim EXCEPT ![j] = kept]
          /\ stale' = [stale EXCEPT ![j] = @ \cap kept]
  /\ done \subseteq done'

(* The process ends and starts again; nobody takes the claims over.         *)
Restart ==
  /\ entry' = entry
  /\ claim' = [j \in Jobs |-> {}] /\ stale' = claim'
  /\ UNCHANGED done
-----------------------------------------------------------------------------
Init ==
  /\ entry = [i \in Ids |-> NoEntry]
  /\ claim = [j \in Jobs |-> {}] /\ stale = claim
  /\ done \subseteq Targets

Next ==
  \/ \E j \in Jobs : Work(j)
  \/ \E i \in Ids : Reject(i) \/ Withdraw(i)
  \/ \E i \in Ids, s \in {"sent", "failed"}, j \in Jobs : Answer(j, i, s)
  \/ \E i \in Ids, j \in Jobs : Miss(j, i) \/ Approve(i, j)
  \/ \E i \in Ids, u \in Users, t \in Targets : Submit(i, u, t)
  \/ Restart

Spec == Init /\ [][Next]_vars
=============================================================================
