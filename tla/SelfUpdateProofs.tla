-------------------------- MODULE SelfUpdateProofs --------------------------
(***************************************************************************)
(* Proofs about SelfUpdate for all releases, texts of versions, requests   *)
(* and uploads: the executable was verified, and no restart goes back.     *)
(***************************************************************************)
EXTENDS SelfUpdate, TLAPS

USE SelfUpdateAssumption DEF ConstantsAssumption

(* What a request with the local variables r knows: the release it asked    *)
(* for is newer than the process and has a checksum; the checksum it        *)
(* expects was published for that release; and the file it has is that      *)
(* release's unless it was garbled.                                         *)
RequestOK(r) ==
  /\ r.pc \in {"sum", "download", "install"} =>
       checksum[r.of] # 0 /\ ~Older(Text[r.of], Text[running.of])
  /\ r.pc \in {"download", "install"} =>
       r.want # 0 /\ [of |-> r.of, build |-> r.want] \in endorsed
  /\ r.pc = "install" => r.file = Garbled \/ r.file.of = r.of

PublishedOK ==
  \A r \in Releases :
    /\ checksum[r] <= binary[r]
    /\ checksum[r] # 0 => [of |-> r, build |-> checksum[r]] \in endorsed
RequestsOK  == \A q \in Requests : RequestOK(request[q])

(* The inductive invariant.                                                 *)
IInv ==
  /\ TypeOK
  /\ IntactBinary
  /\ PublishedOK
  /\ RequestsOK
  /\ ~up => \A q \in Requests : request[q] = Idle
  /\ ~Older(Text[disk.of], Text[running.of])
-----------------------------------------------------------------------------
(* Versions.                                                                *)
LEMMA ThreeNumbers ==
  ASSUME NEW text
  PROVE  LET v == parseSemver(text)
         IN  v # Nil => v[1] \in Nat /\ v[2] \in Nat /\ v[3] \in Nat
  <1>1. CASE Len(text.parts) = 3 /\ \A i \in 1 .. 3 : text.parts[i] \in Nat
    <2>1. text.parts[1] \in Nat /\ text.parts[2] \in Nat /\ text.parts[3] \in Nat
      BY <1>1
    <2>2. parseSemver(text) = text.parts
      BY <1>1 DEF parseSemver
    <2>3. QED
      BY <2>1, <2>2
  <1>2. CASE ~(Len(text.parts) = 3 /\ \A i \in 1 .. 3 : text.parts[i] \in Nat)
    BY <1>2 DEF parseSemver
  <1>3. QED
    BY <1>1, <1>2

(* No version is newer than itself.                                         *)
LEMMA NotOlderThanItself ==
  ASSUME NEW r \in Releases
  PROVE  ~Older(Text[r], Text[r])
  BY ThreeNumbers DEF Older

(* What versionLess finds to be less is not newer.                          *)
LEMMA LessIsNotNewer ==
  ASSUME NEW cur \in Releases, NEW lat \in Releases, versionLess(Text[cur], Text[lat])
  PROVE  ~Older(Text[lat], Text[cur])
  <1> DEFINE v == parseSemver(Text[cur])
             w == parseSemver(Text[lat])
  <1>1. w # Nil
    BY DEF versionLess
  <1>2. CASE v = Nil
    BY <1>2 DEF Older
  <1>3. CASE v # Nil
    <2>1. PICK i \in 1 .. 3 : v[i] < w[i] /\ \A j \in 1 .. (i - 1) : v[j] = w[j]
      BY <1>3 DEF versionLess
    <2>2. /\ v[1] \in Nat /\ v[2] \in Nat /\ v[3] \in Nat
          /\ w[1] \in Nat /\ w[2] \in Nat /\ w[3] \in Nat
      BY <1>1, <1>3, ThreeNumbers
    <2>3. i = 1 \/ i = 2 \/ i = 3
      OBVIOUS
    <2>4. \/ v[1] < w[1]
          \/ v[1] = w[1] /\ v[2] < w[2]
          \/ v[1] = w[1] /\ v[2] = w[2] /\ v[3] < w[3]
      BY <2>1, <2>3
    <2>5. QED
      BY <1>1, <1>3, <2>2, <2>4 DEF Older
  <1>4. QED
    BY <1>2, <1>3
-----------------------------------------------------------------------------
(* Types.                                                                   *)
LEMMA IdleType == Idle \in Request /\ Garbled \in Content
  BY DEF Idle, Request, Garbled, Content, Binary, Builds

(* A request that is idle or only begun knows nothing.                      *)
LEMMA IdleOK == RequestOK(Idle) /\ RequestOK([Idle EXCEPT !.pc = "ask"])
  BY DEF RequestOK, Idle

(* Init.                                                                    *)
LEMMA InitOK == Init => IInv
  <1> SUFFICES ASSUME Init PROVE IInv
    OBVIOUS
  <1>1. disk \in Binary /\ disk = [of |-> Installed, build |-> 1]
    BY DEF Init, Binary, Builds
  <1>2. TypeOK
    <2>1. /\ binary \in [Releases -> 0 .. MaxBuilds] /\ checksum \in [Releases -> 0 .. MaxBuilds]
      BY DEF Init
    <2>2. request \in [Requests -> Request] /\ \A q \in Requests : request[q].pc = "idle"
      BY IdleType DEF Init, Idle
    <2>3. /\ latest \in Releases /\ uploads \in 0 .. MaxUploads
          /\ disk \in Content /\ running \in Binary /\ endorsed \subseteq Binary
      BY <1>1 DEF Init, Content
    <2>4. up \in BOOLEAN /\ due \in BOOLEAN
      BY DEF Init
    <2>5. QED
      BY <2>1, <2>2, <2>3, <2>4 DEF TypeOK
  <1>3. PublishedOK
    BY DEF Init, PublishedOK
  <1>4. RequestsOK
    BY IdleOK DEF Init, RequestsOK
  <1>5. QED
    BY <1>1, <1>2, <1>3, <1>4, NotOlderThanItself DEF IInv, Init, IntactBinary

(* A request goes on, and everything else stays.                            *)
LEMMA BecomeOK ==
  ASSUME IInv, NEW q \in Requests, NEW r \in Request,
         Become(q, r), UNCHANGED <<github, disk, up, running, due>>,
         RequestOK(r), ~up => r = Idle
  PROVE  IInv'
  <1>1. /\ request' \in [Requests -> Request]
        /\ request'[q] = r
        /\ \A p \in Requests \ {q} : request'[p] = request[p]
    BY DEF Become, IInv, TypeOK
  <1>2. RequestsOK'
    BY <1>1 DEF IInv, RequestsOK, RequestOK, github
  <1>3. \A p \in Requests : request'[p].pc \in {"download", "install"} => request'[p].want # 0
    BY <1>2 DEF RequestsOK, RequestOK
  <1>4. TypeOK'
    BY <1>1, <1>3 DEF IInv, TypeOK, github
  <1>5. QED
    BY <1>1, <1>2, <1>4 DEF IInv, IntactBinary, PublishedOK, github

(* A refused request changes nothing.                                       *)
LEMMA RefuseOK == ASSUME IInv, NEW q \in Requests, Refuse(q) PROVE IInv'
  BY IdleType, IdleOK, BecomeOK DEF Refuse

(* A request begins without a release.                                      *)
LEMMA BeginOK == ASSUME IInv, NEW q \in Requests, Begin(q) PROVE IInv'
  <1>1. [Idle EXCEPT !.pc = "ask"] \in Request
    BY IdleType DEF Request
  <1>2. QED
    BY <1>1, IdleOK, BecomeOK DEF Begin

(* A request under way belongs to a running process.                        *)
LEMMA UnderWay ==
  ASSUME IInv, NEW q \in Requests, request[q].pc # "idle"
  PROVE  up /\ request[q] \in Request /\ RequestOK(request[q])
  BY DEF IInv, TypeOK, RequestsOK, Idle

(* What GitHub says is the latest release.                                  *)
LEMMA AskOK == ASSUME IInv, NEW q \in Requests, Ask(q) PROVE IInv'
  <1> DEFINE r == [request[q] EXCEPT !.pc = "sum", !.of = latest]
  <1>1. up /\ request[q] \in Request
    BY UnderWay DEF Ask
  <1>2. r \in Request /\ r.pc = "sum" /\ r.of = latest
    BY <1>1 DEF Request, IInv, TypeOK
  <1>3. latest \in Releases /\ running.of \in Releases
    BY DEF IInv, TypeOK, Binary
  <1>4. RequestOK(r)
    BY <1>2, <1>3, LessIsNotNewer DEF Ask, RequestOK
  <1>5. QED
    BY <1>1, <1>2, <1>4, BecomeOK DEF Ask

(* The checksum is one that was published.                                  *)
LEMMA FetchChecksumOK == ASSUME IInv, NEW q \in Requests, FetchChecksum(q) PROVE IInv'
  <1> DEFINE r == [request[q] EXCEPT !.pc = "download", !.want = checksum[request[q].of]]
  <1>1. up /\ request[q] \in Request /\ RequestOK(request[q])
    BY UnderWay DEF FetchChecksum
  <1>2. request[q].of \in Releases /\ checksum[request[q].of] \in 0 .. MaxBuilds
    BY <1>1 DEF Request, IInv, TypeOK
  <1>3. /\ r \in Request /\ r.pc = "download" /\ r.of = request[q].of
        /\ r.want = checksum[request[q].of]
    BY <1>1, <1>2 DEF Request
  <1>4. RequestOK(r)
    BY <1>1, <1>2, <1>3 DEF FetchChecksum, RequestOK, IInv, PublishedOK
  <1>5. QED
    BY <1>1, <1>3, <1>4, BecomeOK DEF FetchChecksum

(* A file is kept only if it has the checksum.                              *)
LEMMA DownloadOK == ASSUME IInv, NEW q \in Requests, Download(q) PROVE IInv'
  <1>1. PICK file \in {[of |-> request[q].of, build |-> binary[request[q].of]], Garbled} :
          Become(q, [request[q] EXCEPT !.pc = "install", !.file = file])
    BY DEF Download
  <1> DEFINE r == [request[q] EXCEPT !.pc = "install", !.file = file]
  <1>2. up /\ request[q] \in Request /\ RequestOK(request[q])
    BY UnderWay DEF Download
  <1>3. file \in Content /\ (file = Garbled \/ file.of = request[q].of)
    <2>1. request[q].of \in Releases /\ checksum[request[q].of] # 0
      BY <1>2 DEF Download, Request, RequestOK
    <2>2. binary[request[q].of] \in Builds
      <3> DEFINE o == request[q].of
      <3>1. binary[o] \in 0 .. MaxBuilds /\ checksum[o] \in 0 .. MaxBuilds
        BY <2>1 DEF IInv, TypeOK
      <3>2. checksum[o] <= binary[o]
        BY <2>1 DEF IInv, PublishedOK
      <3>3. QED
        BY <2>1, <3>1, <3>2 DEF Builds
    <2>3. [of |-> request[q].of, build |-> binary[request[q].of]] \in Binary
      BY <2>1, <2>2 DEF Binary
    <2>4. QED
      BY <2>3, IdleType DEF Content
  <1>4. /\ r \in Request /\ r.pc = "install" /\ r.of = request[q].of
        /\ r.want = request[q].want /\ r.file = file
    BY <1>2, <1>3 DEF Request
  <1>5. RequestOK(r)
    BY <1>2, <1>3, <1>4 DEF Download, RequestOK
  <1>6. QED
    BY <1>1, <1>2, <1>4, <1>5, BecomeOK DEF Download

(* The executable becomes a file that was checked.                          *)
LEMMA InstallOK == ASSUME IInv, NEW q \in Requests, Install(q) PROVE IInv'
  <1> DEFINE r == request[q]
  <1>1. up /\ r \in Request /\ RequestOK(r)
    BY UnderWay DEF Install
  <1>2. /\ r.want # 0 /\ [of |-> r.of, build |-> r.want] \in endorsed
        /\ ~Older(Text[r.of], Text[running.of])
        /\ r.file.build = r.want /\ (r.file = Garbled \/ r.file.of = r.of)
    BY <1>1 DEF Install, RequestOK
  <1>3. r.file.of = r.of /\ r.file \in Binary
    BY <1>1, <1>2 DEF Request, Garbled, Content
  <1>4. r.file = [of |-> r.of, build |-> r.want]
    BY <1>2, <1>3 DEF Binary
  <1>5. disk' = r.file /\ disk' \in Content
    BY <1>3 DEF Install, Content
  <1>6. /\ request' \in [Requests -> Request]
        /\ \A p \in Requests : request'[p] \in {Idle, request[p]}
    BY IdleType DEF Install, Become, IInv, TypeOK
  <1>7. RequestsOK'
    <2>1. RequestOK(Idle)'
      BY DEF RequestOK, Idle
    <2>2. \A p \in Requests : RequestOK(request[p])'
      BY <1>6, <2>1 DEF IInv, RequestsOK, RequestOK, Install, github
    <2>3. QED
      BY <2>2 DEF RequestsOK
  <1>8. \A p \in Requests : request'[p].pc \in {"download", "install"} => request'[p].want # 0
    BY <1>7 DEF RequestsOK, RequestOK
  <1>9. due' \in BOOLEAN
    BY DEF Install
  <1>10. TypeOK'
    BY <1>5, <1>6, <1>8, <1>9 DEF Install, IInv, TypeOK, github
  <1>11. PublishedOK' /\ IntactBinary'
    BY <1>2, <1>4, <1>5 DEF Install, IInv, IntactBinary, PublishedOK, github
  <1>12. ~Older(Text[disk'.of], Text[running'.of])
    BY <1>2, <1>3, <1>5 DEF Install
  <1>13. up'
    BY <1>1 DEF Install
  <1>14. QED
    BY <1>7, <1>10, <1>11, <1>12, <1>13 DEF IInv
-----------------------------------------------------------------------------
(* The process.  When it ends all requests end, and what it was is known.   *)
LEMMA GoneOK ==
  ASSUME IInv, Gone, UNCHANGED <<github, disk>>,
         running' \in Binary, up' \in BOOLEAN, running' = running \/ running' = disk
  PROVE  IInv'
  <1>1. /\ request' \in [Requests -> Request]
        /\ \A q \in Requests : request'[q] = Idle
        /\ due' \in BOOLEAN
    BY IdleType DEF Gone
  <1>2. RequestsOK'
    BY <1>1 DEF RequestsOK, RequestOK, Idle
  <1>3. \A q \in Requests : request'[q].pc = "idle"
    BY <1>1 DEF Idle
  <1>4. TypeOK'
    BY <1>1, <1>3 DEF IInv, TypeOK, github
  <1>5. ~Older(Text[disk'.of], Text[running'.of])
    <2>1. disk \in Binary
      BY DEF IInv, TypeOK, IntactBinary
    <2>2. disk.of \in Releases
      BY <2>1 DEF Binary
    <2>3. QED
      BY <2>2, NotOlderThanItself DEF IInv
  <1>6. QED
    BY <1>1, <1>2, <1>4, <1>5 DEF IInv, IntactBinary, PublishedOK, github

(* The new process runs the executable.                                     *)
LEMMA ExecOK == ASSUME IInv, Exec PROVE IInv'
  <1>1. disk \in Binary /\ up \in BOOLEAN
    BY DEF Exec, IInv, TypeOK, Content
  <1>2. QED
    BY <1>1, GoneOK DEF Exec

(* The process goes on with what it was, or stops.                          *)
LEMMA EndOK == ASSUME IInv, ExecFails \/ Crash PROVE IInv'
  <1>1. running \in Binary
    BY DEF IInv, TypeOK
  <1>2. QED
    BY <1>1, GoneOK DEF ExecFails, Crash

(* A start runs the executable there is.                                    *)
LEMMA StartOK == ASSUME IInv, Start PROVE IInv'
  <1>1. request \in [Requests -> Request] /\ \A q \in Requests : request[q] = Idle
    BY DEF Start, IInv, TypeOK
  <1>2. disk \in Binary /\ running' = disk /\ up' = TRUE
    BY DEF Start, IInv, TypeOK, Content
  <1>3. RequestsOK'
    BY <1>1 DEF Start, RequestsOK, RequestOK, Idle
  <1>4. TypeOK'
    BY <1>1, <1>2 DEF Start, IInv, TypeOK, github
  <1>5. ~Older(Text[disk'.of], Text[running'.of])
    BY <1>2, NotOlderThanItself DEF Start, Binary
  <1>6. QED
    BY <1>1, <1>2, <1>3, <1>4, <1>5 DEF Start, IInv, IntactBinary, PublishedOK, github
-----------------------------------------------------------------------------
(* GitHub.  Checksums come and change, but none is taken back.              *)
LEMMA GitHubOK ==
  ASSUME IInv, UNCHANGED <<disk, up, running, due, request>>,
         latest' \in Releases, uploads' \in 0 .. MaxUploads,
         binary' \in [Releases -> 0 .. MaxBuilds], checksum' \in [Releases -> 0 .. MaxBuilds],
         endorsed \subseteq endorsed', endorsed' \subseteq Binary, PublishedOK',
         \A r \in Releases : checksum[r] # 0 => checksum'[r] # 0
  PROVE  IInv'
  <1>1. TypeOK'
    BY DEF IInv, TypeOK
  <1>2. ASSUME NEW q \in Requests PROVE RequestOK(request[q])'
    <2>1. request[q].of \in Releases /\ RequestOK(request[q])
      BY DEF IInv, TypeOK, RequestsOK, Request
    <2>2. QED
      BY <2>1 DEF RequestOK
  <1>3. RequestsOK'
    BY <1>2 DEF RequestsOK
  <1>4. QED
    BY <1>1, <1>3 DEF IInv, IntactBinary

(* A new build has no checksum yet; a new checksum is that of the build.    *)
LEMMA UploadOK == ASSUME IInv, NEW r \in Releases, Upload(r) PROVE IInv'
  <1>1. TypeOK /\ PublishedOK
    BY DEF IInv
  <1>2. uploads' \in 0 .. MaxUploads
    BY <1>1 DEF Upload, TypeOK
  <1>3. CASE /\ binary[r] < MaxBuilds
             /\ binary' = [binary EXCEPT ![r] = @ + 1]
             /\ UNCHANGED <<checksum, endorsed>>
    <2>1. binary' \in [Releases -> 0 .. MaxBuilds]
      BY <1>1, <1>3 DEF TypeOK
    <2>2. PublishedOK'
      BY <1>1, <1>3 DEF TypeOK, PublishedOK
    <2>3. QED
      BY <1>1, <1>2, <1>3, <2>1, <2>2, GitHubOK DEF Upload, TypeOK
  <1>4. CASE /\ checksum[r] < binary[r]
             /\ checksum' = [checksum EXCEPT ![r] = binary[r]]
             /\ endorsed' = endorsed \cup {[of |-> r, build |-> binary[r]]}
             /\ UNCHANGED binary
    <2>1. binary[r] \in Builds
      BY <1>1, <1>4 DEF TypeOK, Builds
    <2>2. checksum' \in [Releases -> 0 .. MaxBuilds]
      BY <1>1, <1>4 DEF TypeOK
    <2>3. endorsed' \subseteq Binary
      BY <1>1, <1>4, <2>1 DEF TypeOK, Binary
    <2>4. PublishedOK'
      BY <1>1, <1>4 DEF TypeOK, PublishedOK
    <2>5. \A s \in Releases : checksum[s] # 0 => checksum'[s] # 0
      BY <1>1, <1>4, <2>1 DEF TypeOK, Builds
    <2>6. QED
      BY <1>1, <1>2, <1>4, <2>2, <2>3, <2>4, <2>5, GitHubOK DEF Upload, TypeOK
  <1>5. QED
    BY <1>3, <1>4 DEF Upload

(* Another release becomes the latest.                                      *)
LEMMA PublishOK == ASSUME IInv, NEW r \in Releases, Publish(r) PROVE IInv'
  BY GitHubOK DEF Publish, IInv, TypeOK, PublishedOK
-----------------------------------------------------------------------------
(* Every step keeps the inductive invariant.                                *)
LEMMA NextOK == IInv /\ [Next]_vars => IInv'
  <1> SUFFICES ASSUME IInv, [Next]_vars PROVE IInv'
    OBVIOUS
  <1>1. ASSUME NEW q \in Requests, Begin(q) \/ Step(q) \/ Refuse(q) PROVE IInv'
    BY <1>1, BeginOK, AskOK, FetchChecksumOK, DownloadOK, InstallOK, RefuseOK DEF Step
  <1>2. CASE Exec \/ ExecFails \/ Crash \/ Start
    BY <1>2, ExecOK, EndOK, StartOK
  <1>3. ASSUME NEW r \in Releases, Upload(r) \/ Publish(r) PROVE IInv'
    BY <1>3, UploadOK, PublishOK
  <1>4. CASE UNCHANGED vars
    BY <1>4 DEF vars, IInv, TypeOK, IntactBinary, PublishedOK, RequestsOK, RequestOK
  <1>5. QED
    BY <1>1, <1>2, <1>3, <1>4 DEF Next

(* The inductive invariant of updates.                                      *)
THEOREM UpdateInvariance == Spec => []IInv
  <1>1. Init => IInv
    BY InitOK
  <1>2. IInv /\ [Next]_vars => IInv'
    BY NextOK
  <1>3. QED
    BY <1>1, <1>2, PTL DEF Spec

(* The variables of an update keep their types; in particular a request     *)
(* that has begun to download knows which checksum to expect.               *)
THEOREM UpdateTypes == Spec => []TypeOK
  <1>1. IInv => TypeOK
    BY DEF IInv
  <1>2. QED
    BY <1>1, UpdateInvariance, PTL

(* The executable is always a build whose checksum was published, however   *)
(* many requests swap it (handleUpdateApply, downloadTo).                   *)
THEOREM BinaryVerified == Spec => []IntactBinary
  <1>1. IInv => IntactBinary
    BY DEF IInv
  <1>2. QED
    BY <1>1, UpdateInvariance, PTL

(* No start of the process runs an older version than the last one did      *)
(* (versionLess in handleUpdateApply).                                      *)
THEOREM NoDowngrade == Spec => NeverDowngraded
  <1>1. IInv /\ [Next]_vars => [~Older(Text[running'.of], Text[running.of])]_running
    <2> SUFFICES ASSUME IInv, [Next]_vars, running' # running
                 PROVE  ~Older(Text[running'.of], Text[running.of])
      OBVIOUS
    <2>1. running' = disk
      BY DEF Next, vars, Begin, Step, Refuse, Ask, FetchChecksum, Download, Install,
             Exec, ExecFails, Crash, Start, Upload, Publish
    <2>2. QED
      BY <2>1 DEF IInv
  <1>2. QED
    BY <1>1, UpdateInvariance, PTL DEF Spec, NeverDowngraded
=============================================================================
