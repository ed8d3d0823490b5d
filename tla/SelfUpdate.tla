----------------------------- MODULE SelfUpdate -----------------------------
(***************************************************************************)
(* The in-app update (internal/server/update.go).                          *)
(*                                                                         *)
(* An admin's request asks GitHub for the latest release, fetches its      *)
(* checksum and its binary one after the other, and renames the binary     *)
(* over the executable; a goroutine of its own restarts the process into   *)
(* it 800 milliseconds later.  Nothing keeps two updates apart, releases   *)
(* are published, withdrawn and uploaded again in the meantime, and the    *)
(* process may die between any two steps.                                  *)
(*                                                                         *)
(* The probe file and the temporary files of killed updates are left out:  *)
(* nothing ever reads them.  A checksum is the build it is of, so that no  *)
(* two builds have the same one.                                           *)
(***************************************************************************)
EXTENDS Integers, Sequences, FiniteSets

CONSTANTS
  Releases,
  Text,        \* Text[r]: the version that names r: its dotted parts as far as a
               \* -suffix or +build, and whether one follows.  A leading v never counts.
  Installed,   \* the release the operator installed by hand
  Word,        \* a part that is no number
  Nil,         \* parseSemver's nil
  Requests,    \* bound: update requests under way at one time
  MaxBuilds,   \* bound: binaries ever uploaded for one release
  MaxUploads   \* bound: uploads altogether

ConstantsAssumption ==
  /\ Word \notin Nat /\ Nil \notin Seq(Nat)
  /\ Text \in [Releases -> [parts : Seq(Nat \cup {Word}), tail : BOOLEAN]]
  /\ Installed \in Releases
  /\ MaxBuilds \in Nat \ {0} /\ MaxUploads \in Nat

ASSUME SelfUpdateAssumption == ConstantsAssumption

VARIABLES
  latest,    \* GitHub: the release it calls the latest
  binary,    \* GitHub: binary[r], number of the build uploaded for r, 0 for none
  checksum,  \* GitHub: checksum[r], the build that checksums.txt is about
  uploads,
  disk,      \* the executable
  up,        \* the process runs
  running,   \* the build it was started from, or last was
  due,       \* a goroutine is about to restart it
  request,   \* request[q]: an update request with its local variables
  endorsed   \* history: builds a checksum was ever published for

github == <<latest, binary, checksum, uploads, endorsed>>
vars   == <<latest, binary, checksum, uploads, endorsed, disk, up, running, due, request>>

Builds  == 1 .. MaxBuilds
Binary  == [of : Releases, build : Builds]
Garbled == [of |-> Installed, build |-> 0]  \* cut off, or altered on the way
Content == Binary \cup {Garbled}

Idle    == [pc |-> "idle", of |-> Installed, want |-> 0, file |-> Garbled]
Request == [pc   : {"idle", "ask", "sum", "download", "install"},
            of   : Releases,        \* the release it found to be the latest
            want : 0 .. MaxBuilds,  \* wantSum, 0 before it is known
            file : Content]         \* the downloaded temporary file
-----------------------------------------------------------------------------
(* Versions.                                                                *)
parseSemver(text) ==
  IF Len(text.parts) = 3 /\ \A i \in 1 .. 3 : text.parts[i] \in Nat THEN text.parts ELSE Nil

Slip_versionLess(current, latestText) ==  \* any part decides
  LET cur == parseSemver(current)
      lat == parseSemver(latestText)
  IN  lat # Nil /\ (cur # Nil => \E i \in 1 .. 3 : cur[i] < lat[i])

(* The first part that differs decides; anything is newer than a build      *)
(* without a version, and nothing without one is newer.                     *)
versionLess(current, latestText) ==
  LET cur == parseSemver(current)
      lat == parseSemver(latestText)
  IN  /\ lat # Nil
      /\ cur # Nil => \E i \in 1 .. 3 : /\ cur[i] < lat[i]
                                        /\ \A j \in 1 .. (i - 1) : cur[j] = lat[j]
-----------------------------------------------------------------------------
(* handleUpdateApply.                                                       *)
Become(q, r) == request' = [request EXCEPT ![q] = r]

(* Every step may fail instead: the network, GitHub, the disk, or the       *)
(* client, whose leaving ends the context.  The temporary file is removed.  *)
Refuse(q) ==
  /\ request[q] # Idle
  /\ Become(q, Idle)
  /\ UNCHANGED <<github, disk, up, running, due>>

(* requireAdmin; the directory of the executable is found writable.         *)
Begin(q) ==
  /\ up /\ request[q] = Idle
  /\ Become(q, [Idle EXCEPT !.pc = "ask"])
  /\ UNCHANGED <<github, disk, up, running, due>>

(* latestRelease, with the list of assets as it is now.                     *)
Ask(q) ==
  /\ request[q].pc = "ask"
  /\ versionLess(Text[running.of], Text[latest])
  /\ binary[latest] # 0 /\ checksum[latest] # 0
  /\ Become(q, [request[q] EXCEPT !.pc = "sum", !.of = latest])
  /\ UNCHANGED <<github, disk, up, running, due>>

Slip_FetchChecksum(q) ==  \* takes a missing entry for an empty checksum
  /\ request[q].pc = "sum"
  /\ \E want \in {0, checksum[request[q].of]} :
       Become(q, [request[q] EXCEPT !.pc = "download", !.want = want])
  /\ UNCHANGED <<github, disk, up, running, due>>

FetchChecksum(q) ==
  /\ request[q].pc = "sum"
  /\ Become(q, [request[q] EXCEPT !.pc = "download", !.want = checksum[request[q].of]])
  /\ UNCHANGED <<github, disk, up, running, due>>

(* downloadTo: what arrives need not be what was sent.                      *)
Download(q) ==
  /\ request[q].pc = "download"
  /\ \E file \in {[of |-> request[q].of, build |-> binary[request[q].of]], Garbled} :
       Become(q, [request[q] EXCEPT !.pc = "install", !.file = file])
  /\ UNCHANGED <<github, disk, up, running, due>>

Slip_Install(q) ==  \* without a look at the checksum
  /\ request[q].pc = "install"
  /\ disk' = request[q].file
  /\ due' = TRUE
  /\ Become(q, Idle)
  /\ UNCHANGED <<github, up, running>>

(* The checksums are compared, the mode is set, and the file is renamed     *)
(* over the executable, whatever another request has put there since.       *)
Install(q) ==
  /\ request[q].pc = "install"
  /\ request[q].file.build = request[q].want
  /\ disk' = request[q].file
  /\ due' = TRUE
  /\ Become(q, Idle)
  /\ UNCHANGED <<github, up, running>>

Step(q) == Ask(q) \/ FetchChecksum(q) \/ Download(q) \/ Install(q)
-----------------------------------------------------------------------------
(* The process.                                                             *)
Gone == request' = [q \in Requests |-> Idle] /\ due' = FALSE

(* syscall.Exec puts the executable in the place of the process.            *)
Exec ==
  /\ up /\ due /\ disk # Garbled
  /\ running' = disk
  /\ Gone
  /\ UNCHANGED <<github, disk, up>>

Slip_ExecFails ==  \* logs the error and goes on
  /\ up /\ due
  /\ due' = FALSE
  /\ UNCHANGED <<github, disk, up, running, request>>

(* "re-exec after update failed; exiting so the service manager restarts"   *)
ExecFails ==
  /\ up /\ due
  /\ up' = FALSE
  /\ Gone
  /\ UNCHANGED <<github, disk, running>>

Crash ==
  /\ up /\ up' = FALSE
  /\ Gone
  /\ UNCHANGED <<github, disk, running>>

(* The service manager, RestartSec later.                                   *)
Start ==
  /\ ~up /\ disk # Garbled
  /\ up' = TRUE /\ running' = disk
  /\ UNCHANGED <<github, disk, due, request>>
-----------------------------------------------------------------------------
(* GitHub.                                                                  *)
Upload(r) ==
  /\ uploads < MaxUploads /\ uploads' = uploads + 1
  /\ \/ /\ binary[r] < MaxBuilds
        /\ binary' = [binary EXCEPT ![r] = @ + 1]
        /\ UNCHANGED <<checksum, endorsed>>
     \/ /\ checksum[r] < binary[r]
        /\ checksum' = [checksum EXCEPT ![r] = binary[r]]
        /\ endorsed' = endorsed \cup {[of |-> r, build |-> binary[r]]}
        /\ UNCHANGED binary
  /\ UNCHANGED <<latest, disk, up, running, due, request>>

(* A release is published, or the one before it is the latest again.        *)
Publish(r) ==
  /\ latest' = r
  /\ UNCHANGED <<binary, checksum, uploads, endorsed, disk, up, running, due, request>>

Init ==
  /\ latest = Installed
  /\ binary = [r \in Releases |-> IF r = Installed THEN 1 ELSE 0]
  /\ checksum = binary
  /\ uploads = 0
  /\ disk = [of |-> Installed, build |-> 1]
  /\ running = disk /\ up = TRUE /\ due = FALSE
  /\ request = [q \in Requests |-> Idle]
  /\ endorsed = {disk}

Next ==
  \/ \E q \in Requests : Begin(q) \/ Step(q) \/ Refuse(q)
  \/ Exec \/ ExecFails \/ Crash \/ Start
  \/ \E r \in Releases : Upload(r) \/ Publish(r)

(* The goroutine wakes up and does one or the other; the unit has           *)
(* Restart=on-failure.  Nobody has to ask for an update.                    *)
Spec == Init /\ [][Next]_vars /\ WF_vars(Exec \/ ExecFails) /\ WF_vars(Start)
-----------------------------------------------------------------------------
(* A request that downloads knows the checksum to expect.                   *)
TypeOK ==
  /\ latest \in Releases
  /\ binary \in [Releases -> 0 .. MaxBuilds] /\ checksum \in [Releases -> 0 .. MaxBuilds]
  /\ uploads \in 0 .. MaxUploads
  /\ disk \in Content /\ running \in Binary
  /\ up \in BOOLEAN /\ due \in BOOLEAN
  /\ request \in [Requests -> Request]
  /\ \A q \in Requests : request[q].pc \in {"download", "install"} => request[q].want # 0
  /\ endorsed \subseteq Binary

(* The executable is at all times a whole build, and one whose checksum was *)
(* published: "the download is always integrity-checked before it is        *)
(* swapped in" (update.go:25), although checksum and binary are fetched one *)
(* after the other and may be of different uploads, and although two        *)
(* requests swap as they like.                                              *)
IntactBinary == disk \in endorsed

(* The order of versions that parseSemver can tell: by their three numbers, *)
(* and after everything else.                                               *)
Older(old, new) ==
  LET v == parseSemver(old)
      w == parseSemver(new)
  IN  /\ w # Nil
      /\ \/ v = Nil
         \/ v[1] < w[1]
         \/ v[1] = w[1] /\ v[2] < w[2]
         \/ v[1] = w[1] /\ v[2] = w[2] /\ v[3] < w[3]

(* No start and no restart runs an older version than before: the disk may  *)
(* go back from one release to another when two requests cross, but never   *)
(* behind the running process, since every request ends with the process it *)
(* compared with.                                                           *)
NeverDowngraded == [][ ~Older(Text[running'.of], Text[running.of]) ]_running

(* What was installed last runs in the end, whether the restart succeeds,   *)
(* fails or is overtaken by a crash.                                        *)
UpdateTakesEffect ==
  \A r \in Releases, b \in Builds :
    LET new == [of |-> r, build |-> b]
    IN  disk = new ~> (up /\ running = new) \/ disk # new
=============================================================================
