-------------------------- MODULE RunnerLoopProofs --------------------------
(***************************************************************************)
(* Theorems about the loop of Runner: what the images are built from, and  *)
(* what is built at all.  For every set of packages and command lines.     *)
(***************************************************************************)
EXTENDS RunnerProofs

(* Strengthenings of the invariants *)

(* What the loop knows of its package on the way from the build to the     *)
(* image: it is in the mounted directory, whole and after the test good,   *)
(* and on a local daemon an event names it until it is uploaded; from a    *)
(* server the index goes with it.                                          *)
ImageInv ==
    args.upload /\ ~args.skipRust =>
        /\ pc \in {"test", "upload"} =>
              /\ Mounted[cur] = "good" \/ (Mounted[cur] = "new" /\ UnderTest(cur))
              /\ args.mode = "local" => cur \in dirty
        /\ pc = "docker" => bucket[cur] = "good" /\ (args.mode # "local" => cur \in index)

(* A test finds what abuild has just written, unless it was told not to    *)
(* build: whatever else lies in the directory does not matter to it.       *)
BuiltInv == pc = "test" /\ ~Skipped => Mounted[cur] \in {"new", "good"}

(* A package that waits for its build is nowhere yet, neither in repodir   *)
(* nor in the bucket, nor on the server once the repository is installed:  *)
(* no upload of another package can publish it.                            *)
Unbuilt(p) == /\ local[p] = "absent" /\ bucket[p] = "absent"
              /\ args.mode = "upcloud" /\ pc \notin {"create", "install"} => remote[p] = "absent"
Waiting == IF pc = "build" THEN todo \cup {cur} ELSE todo
QueuePcs == {"create", "install", "connect", "buildCaddy", "startCaddy"} \cup LoopPcs
BuildInv ==
    /\ \A p \in Pkgs : /\ etag[p] => local[p] # "absent"
                       /\ saved.etag[p] => saved.file[p] # "absent"
    /\ pc = "select" => \A p \in Pkgs : bucket[p] # "absent" => local[p] # "absent"
    /\ pc \in LoopPcs \ {"next"} => cur \notin todo
    /\ pc \in QueuePcs /\ args.channels = {} => \A p \in Waiting : Unbuilt(p)

-----------------------------------------------------------------------------
(* The steps that neither enter nor leave the loop's body. *)
LEMMA OutsideTheBody ==
  ASSUME pc' \notin {"test", "upload", "docker"} PROVE ImageInv'
  BY DEF ImageInv

LEMMA BuiltIsThere ==
  ASSUME TypeOK, ControlOK, ImageInv, Build PROVE ImageInv'
<1>1. pc' = "test" /\ UNCHANGED <<args, cur>> /\ cur \in Pkgs
  BY DEF Build, Goto, Stay, ControlOK, LoopPcs
<1>2. CASE args.skipRust
  BY <1>1, <1>2 DEF ImageInv
<1>3. CASE ~args.skipRust
  <2>1. SetMounted([Mounted EXCEPT ![cur] = Built])
        /\ dirty' = IF args.mode = "local" THEN dirty \cup {cur} ELSE dirty
    BY <1>3 DEF Build, Skipped, Writes
  <2>2. Mounted'[cur] = Built
    BY <1>1, <2>1, WriteOne DEF Mounted, TypeOK
  <2>3. Built = "good" \/ (Built = "new" /\ UnderTest(cur)')
    BY <1>1 DEF Built, UnderTest
  <2> QED
    BY <1>1, <2>1, <2>2, <2>3 DEF ImageInv, UnderTest
<1> QED
  BY <1>2, <1>3

LEMMA TestedIsGood ==
  ASSUME TypeOK, ControlOK, ImageInv, Test PROVE ImageInv'
<1>1. pc' = "upload" /\ UNCHANGED <<args, cur, dirty>> /\ cur \in Pkgs /\ pc = "test"
  BY DEF Test, Goto, Stay, ControlOK, LoopPcs
<1>2. CASE ~(args.upload /\ ~args.skipRust)
  BY <1>1, <1>2 DEF ImageInv
<1>3. CASE args.upload /\ ~args.skipRust
  <2>1. /\ Mounted[cur] = "good" \/ (Mounted[cur] = "new" /\ UnderTest(cur))
        /\ args.mode = "local" => cur \in dirty
    BY <1>1, <1>3 DEF ImageInv
  <2>2. CASE cur \in Rust
    <3>1. SetMounted([Mounted EXCEPT ![cur] = IF Mounted[cur] = "new" THEN "good" ELSE Mounted[cur]])
      BY <2>2 DEF Test
    <3>2. Mounted'[cur] = IF Mounted[cur] = "new" THEN "good" ELSE Mounted[cur]
      BY <1>1, <3>1, WriteOne DEF Mounted, TypeOK
    <3> QED
      BY <1>1, <2>1, <3>2 DEF ImageInv
  <2>3. CASE cur \notin Rust
    <3>1. Mounted' = Mounted
      BY <1>1, <2>3 DEF Test, Mounted
    <3> QED
      BY <1>1, <2>1, <2>3, <3>1 DEF ImageInv, UnderTest
  <2> QED
    BY <2>2, <2>3
<1> QED
  BY <1>2, <1>3

LEMMA UploadedIsPublished ==
  ASSUME Faults \cap {"short", "rejected"} = {},
         TypeOK, ControlOK, ImageInv, UploadRepoChanges
  PROVE  ImageInv'
<1>1. pc' = "docker" /\ UNCHANGED <<args, cur>> /\ cur \in Pkgs /\ pc = "upload"
  BY DEF UploadRepoChanges, Goto, Stay, ControlOK, LoopPcs
<1>2. CASE ~(args.upload /\ ~args.skipRust)
  BY <1>1, <1>2 DEF ImageInv
<1>3. CASE args.upload /\ ~args.skipRust
  <2>1. Mounted[cur] = "good" /\ (args.mode = "local" => cur \in dirty)
    BY <1>1, <1>3 DEF ImageInv, UnderTest
  <2>2. cur \in Changed
    BY <1>1, <2>1 DEF Changed, Mounted
  <2>3. Transfer(Changed, {}, Changed)
    BY <1>3, WholeUpload DEF UploadRepoChanges
  <2>4. bucket'[cur] = "good"
    BY <1>1, <2>1, <2>2, <2>3 DEF Transfer
  <2>5. args.mode # "local" => cur \in index'
    <3>1. PublishIndex
      BY <1>3, Noticed DEF UploadRepoChanges
    <3>2. args.mode # "local" => OwnIndex /\ Mounted = remote
      BY <1>3 DEF OwnIndex, Skipped, Mounted
    <3> QED
      BY <1>1, <2>1, <3>1, <3>2 DEF PublishIndex
  <2> QED
    BY <1>1, <2>4, <2>5 DEF ImageInv
<1> QED
  BY <1>2, <1>3

LEMMA ImageStep ==
  ASSUME Faults \cap {"short", "rejected"} = {}
  PROVE  TypeOK /\ ControlOK /\ ImageInv /\ [Next]_vars => ImageInv'
<1> SUFFICES ASSUME TypeOK, ControlOK, ImageInv, [Next]_vars PROVE ImageInv'
  OBVIOUS
<1>1. CASE Build \/ Test \/ UploadRepoChanges
  BY <1>1, BuiltIsThere, TestedIsGood, UploadedIsPublished
<1>2. ASSUME NEW a \in ArgSet, Start(a) PROVE ImageInv'
  BY <1>2, OutsideTheBody DEF Start
<1>3. ASSUME NEW B \in SUBSET Rust, UpdateConfig(B) PROVE ImageInv'
  BY <1>3, OutsideTheBody DEF UpdateConfig, Goto
<1>4. CASE Download \/ Select \/ CreateLocal \/ Install \/ Connect \/ BuildCaddy \/ StartCaddy
            \/ LoopDone \/ BuildAndUploadDocker \/ StopCaddy
  BY <1>4, OutsideTheBody
  DEF Download, Select, CreateLocal, Install, Connect, BuildCaddy, StartCaddy, LoopDone,
      BuildAndUploadDocker, StopCaddy, Goto
<1>5. ASSUME NEW s \in Servers, CreateUpcloud(s) \/ CreateFails(s) PROVE ImageInv'
  BY <1>5, OutsideTheBody DEF CreateUpcloud, CreateFails, Goto
<1>6. ASSUME NEW p \in Pkgs, NextPackage(p) PROVE ImageInv'
  BY <1>6, OutsideTheBody DEF NextPackage
<1>7. CASE EverythingUpToDate \/ NoDaemonSpecified \/ PortTaken \/ PrepareFails \/ CidrFails
            \/ CaddyFails \/ Panic \/ Destroy \/ DestroyFails \/ DownloadFails \/ Kill
  BY <1>7, OutsideTheBody
  DEF EverythingUpToDate, NoDaemonSpecified, PortTaken, PrepareFails, CidrFails, CaddyFails,
      Panic, Destroy, DestroyFails, DownloadFails, Kill, Abort, End
<1>8. CASE InstallFails \/ ConnectFails \/ BuildFails \/ TestFails \/ UploadFails \/ DockerFails
  BY <1>8, OutsideTheBody
  DEF InstallFails, ConnectFails, BuildFails, TestFails, UploadFails, DockerFails, Cleanup
<1>9. CASE UNCHANGED vars
  BY <1>9 DEF vars, process, repos, ImageInv, UnderTest, Mounted
<1> QED
  BY <1>1, <1>2, <1>3, <1>4, <1>5, <1>6, <1>7, <1>8, <1>9 DEF Next, Progress, Failure

LEMMA ImageInvariant ==
  ASSUME Faults \cap {"short", "rejected"} = {} PROVE Spec => []ImageInv
<1>1. Init => ImageInv
  BY DEF Init, ImageInv
<1>2. TypeOK /\ ControlOK /\ ImageInv /\ [Next]_vars => ImageInv'
  BY ImageStep
<1> QED
  BY <1>1, <1>2, ControlInvariant, PTL DEF Spec

(* While a transfer that goes wrong is noticed, the images of a package    *)
(* are built from the published repository after the package has reached   *)
(* it (main.rs 378-402): on every way through the loop, for every command  *)
(* line and whatever became of repodir.                                    *)
THEOREM ImagesArePublished ==
  ASSUME Faults \cap {"short", "rejected"} = {}
  PROVE  Spec => []ImageFromPublished
<1>1. ImageInv => ImageFromPublished
  BY DEF ImageInv, ImageFromPublished
<1> QED
  BY <1>1, ImageInvariant, PTL

-----------------------------------------------------------------------------
(* No run goes wrong without a reason *)

LEMMA BuiltStep == TypeOK /\ ControlOK /\ BuiltInv /\ [Next]_vars => BuiltInv'
<1> SUFFICES ASSUME TypeOK, ControlOK, BuiltInv, [Next]_vars PROVE BuiltInv'
  OBVIOUS
<1>1. CASE Build
  <2>1. UNCHANGED <<args, cur>> /\ cur \in Pkgs
    BY <1>1 DEF Build, Goto, Stay, ControlOK, LoopPcs
  <2>2. CASE Skipped
    BY <2>1, <2>2 DEF BuiltInv, Skipped
  <2>3. CASE ~Skipped
    <3>1. SetMounted([Mounted EXCEPT ![cur] = Built])
      BY <1>1, <2>3 DEF Build, Writes
    <3>2. Mounted'[cur] = Built
      BY <2>1, <3>1, WriteOne DEF Mounted, TypeOK
    <3> QED
      BY <2>1, <3>2 DEF BuiltInv, Built
  <2> QED
    BY <2>2, <2>3
<1>2. CASE UNCHANGED vars
  BY <1>2 DEF vars, process, repos, BuiltInv, Skipped, Mounted
<1>3. CASE Next /\ ~Build
  <2>1. pc' # "test"
    BY <1>3
    DEF Next, Progress, Failure, Start, UpdateConfig, Download, Select, EverythingUpToDate,
        NoDaemonSpecified, CreateLocal, CreateUpcloud, Install, Connect, BuildCaddy, StartCaddy,
        PortTaken, NextPackage, LoopDone, Test, UploadRepoChanges, BuildAndUploadDocker,
        StopCaddy, Destroy, DownloadFails, PrepareFails, InstallFails, ConnectFails, CidrFails,
        CreateFails, CaddyFails, BuildFails, TestFails, UploadFails, DockerFails, DestroyFails,
        Panic, Kill, Goto, Cleanup, Abort, End
  <2> QED
    BY <2>1 DEF BuiltInv
<1> QED
  BY <1>1, <1>2, <1>3

LEMMA BuiltInvariant == Spec => []BuiltInv
<1>1. Init => BuiltInv
  BY DEF Init, BuiltInv
<1> QED
  BY <1>1, BuiltStep, ControlInvariant, PTL DEF Spec

(* What FailsForAReason says of a step, in two parts. *)
GoesWrong == \/ ~failing /\ failing'
             \/ outcome = "running" /\ outcome' = "abort"
Reason == \/ faults' # faults
          \/ pc = "select" /\ args.mode = "none"
          \/ pc = "startCaddy" /\ abandoned
          \/ pc = "test" /\ args.skipRust
          \/ pc = "docker" /\ (args.skipRust \/ ~args.upload \/ args.mode = "local")

LEMMA FaultIsAReason ==
  ASSUME TypeOK, NEW k, Fault(k) PROVE Reason
  BY BoundAssumption DEF TypeOK, Fault, Reason

(* What a successful step does to the two variables. *)
LEMMA GoingOn == ASSUME UNCHANGED <<failing, outcome>> PROVE ~GoesWrong
  BY DEF GoesWrong
LEMMA EndingWell == ASSUME NEW how, how # "abort", NEW why, End(how, why) PROVE ~GoesWrong
  BY DEF GoesWrong, End

LEMMA ProgressOrReason ==
  ASSUME TypeOK, PortFree, Progress PROVE GoesWrong => Reason
<1>1. ASSUME NEW a \in ArgSet, Start(a) PROVE ~GoesWrong
  BY <1>1 DEF Start, GoesWrong
<1>2. CASE EverythingUpToDate \/ Destroy
  BY <1>2, EndingWell DEF EverythingUpToDate, Destroy, Ending
<1>3. CASE NoDaemonSpecified
  BY <1>3 DEF NoDaemonSpecified, Reason
<1>4. CASE PortTaken
  BY <1>4 DEF PortTaken, PortFree, Reason
<1>5. ASSUME NEW s \in Servers, CreateUpcloud(s) PROVE ~GoesWrong
  BY <1>5, GoingOn DEF CreateUpcloud, Goto, Stay
<1>6. ASSUME NEW p \in Pkgs, NextPackage(p) PROVE ~GoesWrong
  BY <1>6, GoingOn DEF NextPackage
<1>7. ASSUME NEW B \in SUBSET Rust, UpdateConfig(B) PROVE ~GoesWrong
  BY <1>7, GoingOn DEF UpdateConfig, Goto, Stay
<1>8. CASE Download \/ Select \/ CreateLocal \/ Install \/ Connect \/ BuildCaddy \/ StartCaddy
            \/ LoopDone \/ Build \/ Test \/ UploadRepoChanges \/ BuildAndUploadDocker \/ StopCaddy
  BY <1>8, GoingOn
  DEF Download, Select, CreateLocal, Install, Connect, BuildCaddy, StartCaddy, LoopDone, Build,
      Test, UploadRepoChanges, BuildAndUploadDocker, StopCaddy, Goto, Stay
<1> QED
  BY <1>1, <1>2, <1>3, <1>4, <1>5, <1>6, <1>7, <1>8 DEF Progress

LEMMA FailureOrReason ==
  ASSUME TypeOK, ImageInv, BuiltInv, Failure PROVE Reason
<1>1. CASE TestFails
  <2>1. CASE Fault("error")
    BY <2>1, FaultIsAReason
  <2>2. CASE Mounted[cur] \in {"absent", "part"}
    BY <1>1, <2>2 DEF TestFails, BuiltInv, Skipped, Reason
  <2> QED
    BY <1>1, <2>1, <2>2 DEF TestFails
<1>2. CASE DockerFails
  <2>1. CASE Fault("error")
    BY <2>1, FaultIsAReason
  <2>2. CASE cur \notin index \/ bucket[cur] \in {"absent", "part"} \/ ~OwnIndex
    BY <1>2, <2>2 DEF DockerFails, ImageInv, Reason, OwnIndex, Skipped
  <2> QED
    BY <1>2, <2>1, <2>2 DEF DockerFails
<1>3. ASSUME NEW s \in Servers, CreateFails(s) PROVE Reason
  BY <1>3, FaultIsAReason DEF CreateFails
<1>4. CASE DownloadFails \/ PrepareFails \/ InstallFails \/ ConnectFails \/ CidrFails
            \/ CaddyFails \/ BuildFails \/ UploadFails \/ DestroyFails \/ Panic \/ Kill
  BY <1>4, FaultIsAReason
  DEF DownloadFails, PrepareFails, InstallFails, ConnectFails, CidrFails, CaddyFails, BuildFails,
      UploadFails, DestroyFails, Panic, Kill
<1> QED
  BY <1>1, <1>2, <1>3, <1>4 DEF Failure

(* While a transfer that goes wrong is noticed, a run takes an error path  *)
(* or leaves main early only where something failed in that very step, or  *)
(* for a reason the command line or a caddy on the local daemon gives      *)
(* (main.rs, the error paths): half-built packages, truncated downloads    *)
(* and lost uploads of earlier runs never make a later one fail.           *)
THEOREM FailureHasReason ==
  ASSUME Faults \cap {"short", "rejected"} = {}
  PROVE  Spec => FailsForAReason
<1>1. TypeOK /\ ImageInv /\ BuiltInv /\ PortFree /\ [Next]_vars => [GoesWrong => Reason]_vars
  BY ProgressOrReason, FailureOrReason DEF Next
<1>2. [GoesWrong => Reason]_vars
      => [\/ ~failing /\ failing'
          \/ outcome = "running" /\ outcome' = "abort"
          => \/ faults' # faults
             \/ pc = "select" /\ args.mode = "none"
             \/ pc = "startCaddy" /\ abandoned
             \/ pc = "test" /\ args.skipRust
             \/ pc = "docker" /\ (args.skipRust \/ ~args.upload \/ args.mode = "local")]_vars
  BY DEF GoesWrong, Reason
<1> QED
  BY <1>1, <1>2, ControlInvariant, ImageInvariant, BuiltInvariant, PortIsFree, PTL
  DEF Spec, FailsForAReason

-----------------------------------------------------------------------------
(* Nothing is built that is published *)

EtagsNameFiles == \A p \in Pkgs : /\ etag[p] => local[p] # "absent"
                                  /\ saved.etag[p] => saved.file[p] # "absent"

(* Away from the queue and the selection only the etags matter. *)
LEMMA OutsideTheQueue ==
  ASSUME pc' \notin QueuePcs \cup {"select"}, EtagsNameFiles' PROVE BuildInv'
  BY DEF BuildInv, EtagsNameFiles, QueuePcs

LEMMA EndBuild ==
  ASSUME BuildInv, NEW how, NEW why, End(how, why),
         \A p \in Pkgs : etag'[p] => local'[p] # "absent"
  PROVE  BuildInv'
<1>1. pc' = "idle"
  BY DEF End
<1>2. EtagsNameFiles'
  <2>1. CASE saved' = saved
    BY <2>1 DEF EtagsNameFiles, BuildInv
  <2>2. CASE saved' # saved
    <3>1. saved' = [file |-> local', etag |-> etag']
      BY <2>2 DEF End
    <3> QED
      BY <3>1 DEF EtagsNameFiles
  <2> QED
    BY <2>1, <2>2
<1> QED
  BY <1>1, <1>2, OutsideTheQueue DEF QueuePcs, LoopPcs

(* An error path leaves the queue behind. *)
LEMMA CleanupBuild ==
  ASSUME BuildInv, UNCHANGED <<local, etag, saved>>, pc' \in {"stop", "destroy"}
  PROVE  BuildInv'
  BY OutsideTheQueue DEF BuildInv, EtagsNameFiles, QueuePcs, LoopPcs

(* Steps that leave the files and the queue alone. *)
LEMMA QuietBuild ==
  ASSUME BuildInv, pc \in QueuePcs,
         UNCHANGED <<args, todo, cur, local, etag, bucket, remote, saved>>,
         pc \in {"create", "install"} /\ args.mode = "upcloud" => pc' = "install",
         pc' \in QueuePcs \ {"build"},
         pc' \in LoopPcs \ {"next"} => pc \in LoopPcs \ {"next"}
  PROVE  BuildInv'
  BY DEF BuildInv, Waiting, Unbuilt, QueuePcs, LoopPcs

LEMMA TransferEtags ==
  ASSUME TypeOK, EventInv, BuildInv,
         NEW D \in SUBSET Changed, NEW X \in SUBSET Changed, NEW U \in SUBSET D,
         Transfer(D, X, U)
  PROVE  \A p \in Pkgs : etag'[p] => local'[p] # "absent"
<1>1. \A p \in D : Mounted[p] # "absent"
  BY DEF Changed, Mounted, EventInv
<1>2. ASSUME NEW p \in Pkgs, etag'[p] PROVE local'[p] # "absent"
  <2>1. CASE p \in X
    BY <2>1 DEF Transfer
  <2>2. CASE p \in D \ X
    BY <1>1, <2>2 DEF Transfer
  <2>3. CASE p \notin D \cup X
    BY <1>2, <2>3 DEF Transfer, BuildInv
  <2> QED
    BY <2>1, <2>2, <2>3
<1> QED
  BY <1>2

LEMMA DownloadBuild == ASSUME TypeOK, BuildInv, Download PROVE BuildInv'
<1>1. PICK X \in SUBSET Outdated :
        local' = [p \in Pkgs |-> IF p \in X THEN "part"
                                 ELSE IF p \in Outdated THEN bucket[p] ELSE local[p]]
  BY DEF Download
<1>2. /\ etag' = [p \in Pkgs |-> p \in Outdated \/ etag[p]]
      /\ pc' = "select" /\ UNCHANGED <<bucket, saved>>
  BY DEF Download, Goto
<1>3. \A p \in Pkgs : etag'[p] => local'[p] # "absent"
  BY <1>1, <1>2 DEF BuildInv, Outdated
<1>4. \A p \in Pkgs : bucket'[p] # "absent" => local'[p] # "absent"
  BY <1>1, <1>2 DEF BuildInv, Outdated
<1> QED
  BY <1>2, <1>3, <1>4 DEF BuildInv, QueuePcs, LoopPcs

LEMMA InstallBuild == ASSUME TypeOK, BuildInv, Install PROVE BuildInv'
<1>1. /\ pc' = "connect" /\ pc = "install"
      /\ UNCHANGED <<args, todo, cur, local, etag, bucket, saved>>
  BY DEF Install, Goto, Stay
<1>2. \A p \in Pkgs : args.mode = "upcloud" /\ local[p] = "absent" => remote'[p] = "absent"
  BY DEF Install, Exists, TypeOK
<1> QED
  BY <1>1, <1>2 DEF BuildInv, Waiting, Unbuilt, QueuePcs, LoopPcs, TypeOK

(* abuild writes the package of this iteration and no other. *)
LEMMA BuildBuild ==
  ASSUME TypeOK, ControlOK, BuildInv, Build PROVE BuildInv'
<1>1. /\ pc' = "test" /\ pc = "build" /\ cur \in Pkgs
      /\ UNCHANGED <<args, todo, cur, etag, bucket, saved>>
  BY DEF Build, Goto, Stay, ControlOK, LoopPcs
<1>2. \A p \in Pkgs \ {cur} : local'[p] = local[p] /\ remote'[p] = remote[p]
  BY WriteOne DEF Build, Writes, TypeOK
<1>3. local[cur] # "absent" => local'[cur] # "absent"
  <2>1. CASE local' = local
    BY <2>1
  <2>2. CASE local' # local
    <3>1. local' = [local EXCEPT ![cur] = Built]
      BY <2>2, WriteOne DEF Build, Writes
    <3> QED
      BY <1>1, <3>1 DEF TypeOK, Built
  <2> QED
    BY <2>1, <2>2
<1> QED
  BY <1>1, <1>2, <1>3 DEF BuildInv, Waiting, Unbuilt, QueuePcs, LoopPcs, TypeOK

LEMMA TestBuild ==
  ASSUME TypeOK, ControlOK, BuildInv, Test PROVE BuildInv'
<1>1. /\ pc' = "upload" /\ pc = "test" /\ cur \in Pkgs
      /\ UNCHANGED <<args, todo, cur, etag, bucket, saved>>
  BY DEF Test, Goto, Stay, ControlOK, LoopPcs
<1>2. \A p \in Pkgs \ {cur} : local'[p] = local[p] /\ remote'[p] = remote[p]
  BY WriteOne DEF Test, TypeOK
<1>3. local[cur] # "absent" => local'[cur] # "absent"
  <2>1. CASE local' = local
    BY <2>1
  <2>2. CASE local' # local
    BY <1>1, <2>2, WriteOne DEF Test, TypeOK, Mounted
  <2> QED
    BY <2>1, <2>2
<1> QED
  BY <1>1, <1>2, <1>3 DEF BuildInv, Waiting, Unbuilt, QueuePcs, LoopPcs, TypeOK

(* An upload moves what changed, and nothing that waits has changed. *)
LEMMA UploadBuild ==
  ASSUME TypeOK, ControlOK, EventInv, BuildInv, UploadRepoChanges PROVE BuildInv'
<1>1. /\ pc' = "docker" /\ pc = "upload"
      /\ UNCHANGED <<args, todo, cur, remote, saved>>
  BY DEF UploadRepoChanges, Goto, Stay
<1>2. CASE ~args.upload
  BY <1>1, <1>2 DEF UploadRepoChanges, BuildInv, Waiting, Unbuilt, QueuePcs, LoopPcs
<1>3. CASE args.upload
  <2>1. PICK X, U \in SUBSET Changed : Transfer(Changed, X, U)
    BY <1>3 DEF UploadRepoChanges
  <2>2. \A p \in Pkgs : etag'[p] => local'[p] # "absent"
    BY <2>1, TransferEtags
  <2>3. \A p \in Pkgs : p \in todo /\ args.channels = {} => Unbuilt(p) /\ p \notin Changed
    <3>1. args.mode \in {"local", "upcloud"}
      BY <1>1 DEF ControlOK, ServerPcs
    <3> QED
      BY <1>1, <3>1 DEF BuildInv, Waiting, Unbuilt, QueuePcs, LoopPcs, Changed, EventInv
  <2>4. \A p \in Pkgs \ Changed : local'[p] = local[p] /\ bucket'[p] = bucket[p]
    BY <2>1 DEF Transfer
  <2> QED
    BY <1>1, <2>2, <2>3, <2>4 DEF BuildInv, Waiting, Unbuilt, QueuePcs, LoopPcs, TypeOK
<1> QED
  BY <1>2, <1>3

LEMMA BuildStep == TypeOK /\ ControlOK /\ EventInv /\ BuildInv /\ [Next]_vars => BuildInv'
<1> SUFFICES ASSUME TypeOK, ControlOK, EventInv, BuildInv, [Next]_vars PROVE BuildInv'
  OBVIOUS
<1>0. /\ \A p \in Pkgs : etag[p] => local[p] # "absent"
      /\ \A p \in Pkgs : saved.etag[p] => saved.file[p] # "absent"
  BY DEF BuildInv
<1>1. ASSUME NEW a \in ArgSet, Start(a) PROVE BuildInv'
  BY <1>0, <1>1, OutsideTheQueue DEF Start, EtagsNameFiles, QueuePcs, LoopPcs
<1>2. ASSUME NEW B \in SUBSET Rust, UpdateConfig(B) PROVE BuildInv'
  BY <1>0, <1>2, OutsideTheQueue DEF UpdateConfig, Goto, EtagsNameFiles, QueuePcs, LoopPcs
<1>3. CASE Download
  BY <1>3, DownloadBuild
<1>4. CASE Select
  <2>1. /\ pc' = "create" /\ pc = "select" /\ todo' = Selected
        /\ UNCHANGED <<args, local, etag, bucket, remote, saved>>
    BY <1>4 DEF Select, repos
  <2>2. args.channels = {} => \A p \in todo' : p \in Pkgs /\ local[p] = "absent"
    BY <2>1 DEF Selected, Exists
  <2> QED
    BY <2>1, <2>2 DEF BuildInv, Waiting, Unbuilt, QueuePcs, LoopPcs
<1>5. CASE EverythingUpToDate \/ NoDaemonSpecified \/ PortTaken \/ PrepareFails \/ CidrFails
            \/ CaddyFails \/ Panic \/ Destroy \/ DestroyFails \/ Kill
  BY <1>0, <1>5, EndBuild
  DEF EverythingUpToDate, NoDaemonSpecified, PortTaken, PrepareFails, CidrFails, CaddyFails,
      Panic, Destroy, DestroyFails, Kill, Abort
<1>6. CASE DownloadFails
  <2>1. \A p \in Pkgs : etag'[p] => local'[p] # "absent"
    BY <1>0, <1>6 DEF DownloadFails, Outdated
  <2> QED
    BY <1>6, <2>1, EndBuild DEF DownloadFails
<1>7. CASE CreateLocal
  BY <1>7 DEF CreateLocal, Goto, Stay, BuildInv, Waiting, Unbuilt, QueuePcs, LoopPcs
<1>8. ASSUME NEW s \in Servers, CreateUpcloud(s) PROVE BuildInv'
  BY <1>8, QuietBuild DEF CreateUpcloud, Goto, Stay, repos, QueuePcs, LoopPcs
<1>9. ASSUME NEW s \in Servers, CreateFails(s) PROVE BuildInv'
  <2>1. EtagsNameFiles'
    BY <1>0, <1>9 DEF CreateFails, EtagsNameFiles
  <2> QED
    BY <1>9, <2>1, OutsideTheQueue DEF CreateFails, QueuePcs, LoopPcs
<1>10. CASE Install
  BY <1>10, InstallBuild
<1>11. CASE Connect \/ BuildCaddy \/ StartCaddy \/ BuildAndUploadDocker
  BY <1>11, QuietBuild
  DEF Connect, BuildCaddy, StartCaddy, BuildAndUploadDocker, Goto, Stay, repos, QueuePcs, LoopPcs
<1>12. ASSUME NEW p \in Pkgs, NextPackage(p) PROVE BuildInv'
  BY <1>12 DEF NextPackage, repos, BuildInv, Waiting, Unbuilt, QueuePcs, LoopPcs
<1>13. CASE LoopDone \/ StopCaddy
  BY <1>13, CleanupBuild DEF LoopDone, StopCaddy, Goto, repos
<1>14. CASE Build \/ Test \/ UploadRepoChanges
  BY <1>14, BuildBuild, TestBuild, UploadBuild
<1>15. CASE InstallFails \/ ConnectFails \/ TestFails \/ DockerFails
  BY <1>15, CleanupBuild
  DEF InstallFails, ConnectFails, TestFails, DockerFails, Cleanup, repos
<1>16. CASE BuildFails
  <2>1. pc' = "stop" /\ UNCHANGED <<etag, saved>> /\ cur \in Pkgs
    BY <1>16 DEF BuildFails, Cleanup, ControlOK, LoopPcs
  <2>2. \A p \in Pkgs : local[p] # "absent" => local'[p] # "absent"
    <3>1. CASE local' = local
      BY <3>1
    <3>2. CASE local' # local
      <4>1. PICK c \in {"part", Built} : Writes(c)
        BY <1>16, <3>2 DEF BuildFails
      <4>2. local' = [local EXCEPT ![cur] = c]
        BY <3>2, <4>1, WriteOne DEF Writes
      <4> QED
        BY <2>1, <4>2 DEF TypeOK, Built
    <3> QED
      BY <3>1, <3>2
  <2> QED
    BY <1>0, <2>1, <2>2, OutsideTheQueue DEF EtagsNameFiles, QueuePcs, LoopPcs
<1>17. CASE UploadFails
  <2>1. PICK D \in SUBSET Changed : \E U \in SUBSET D, X \in SUBSET (Changed \ D) : Transfer(D, X, U)
    BY <1>17 DEF UploadFails
  <2>2. \A p \in Pkgs : etag'[p] => local'[p] # "absent"
    BY <2>1, TransferEtags
  <2> QED
    BY <1>0, <1>17, <2>2, OutsideTheQueue
    DEF UploadFails, Cleanup, EtagsNameFiles, QueuePcs, LoopPcs
<1>18. CASE UNCHANGED vars
  BY <1>18 DEF vars, process, repos, BuildInv, Waiting, Unbuilt
<1> QED
  BY <1>1, <1>2, <1>3, <1>4, <1>5, <1>6, <1>7, <1>8, <1>9, <1>10, <1>11, <1>12, <1>13,
     <1>14, <1>15, <1>16, <1>17, <1>18
  DEF Next, Progress, Failure

(* Whatever fails, whatever is lost in a transfer and whatever became of   *)
(* repodir: no run that was not told to compiles a package that is in the  *)
(* published repository (repo.rs 38-49, build/mod.rs 22).                  *)
THEOREM PublishedIsNotRebuilt == Spec => []NoRebuildOfPublished
<1>1. Init => BuildInv
  BY DEF Init, BuildInv, NoEtags, QueuePcs, LoopPcs
<1>2. TypeOK /\ ControlOK /\ EventInv /\ BuildInv /\ [Next]_vars => BuildInv'
  BY BuildStep
<1>3. BuildInv => NoRebuildOfPublished
  BY DEF BuildInv, NoRebuildOfPublished, Waiting, Unbuilt, QueuePcs, LoopPcs
<1> QED
  BY <1>1, <1>2, <1>3, ControlInvariant, EventInvariant, PTL DEF Spec
=============================================================================
