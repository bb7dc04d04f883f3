--------------------------- MODULE RepositoryProofs ---------------------------
(***************************************************************************)
(* What Runner guarantees to the users of the published repository: that   *)
(* untested packages never get there, and that all runs together implement *)
(* Repository.  For every set of packages and command lines.               *)
(***************************************************************************)
EXTENDS RunnerProofs

(* Strengthenings of the invariants *)

(* The part of GoodInv that does not depend on what transfers do: a        *)
(* package that was not tested is the one under test, or what a failed run *)
(* leaves to be thrown away.                                               *)
NoneNew(f) == \A p \in Pkgs : f[p] # "new"
OnlyNewUnderTest(f) == \A p \in Pkgs : f[p] = "new" => UnderTest(p)
TestedInv ==
    /\ NoneNew(bucket) /\ NoneNew(saved.file)
    /\ ~failing => IF args.mode = "local" THEN NoneNew(remote) ELSE OnlyNewUnderTest(remote)
    /\ ~failing /\ pc # "idle" =>
          IF args.mode = "local" THEN OnlyNewUnderTest(local) ELSE NoneNew(local)

-----------------------------------------------------------------------------
(* Only tested packages are published *)

LEMMA NoneUnderTest == pc # "test" => \A f : OnlyNewUnderTest(f) <=> NoneNew(f)
  BY DEF OnlyNewUnderTest, NoneNew, UnderTest

(* The steps that move files find nothing untested in any copy. *)
LEMMA AllTested ==
  ASSUME TestedInv, pc # "test", pc # "idle", ~failing
  PROVE  NoneNew(local) /\ NoneNew(remote) /\ NoneNew(bucket) /\ NoneNew(saved.file) /\ NoneNew(Mounted)
  BY NoneUnderTest DEF TestedInv, Mounted

LEMMA TestedEverywhere ==
  ASSUME NoneNew(local'), NoneNew(remote'), NoneNew(bucket'), NoneNew(saved.file)'
  PROVE  TestedInv'
  BY DEF TestedInv, NoneNew, OnlyNewUnderTest

LEMMA EndTested ==
  ASSUME TestedInv, Keep # "always", UNCHANGED bucket, NEW how, NEW why, End(how, why),
         how \in {"uptodate", "done"} => NoneNew(local')
  PROVE  TestedInv'
<1>1. NoneNew(saved.file)'
  <2>1. CASE saved' = saved
    BY <2>1 DEF TestedInv, NoneNew
  <2>2. CASE saved' # saved
    BY <2>2 DEF End, NoneNew
  <2> QED
    BY <2>1, <2>2
<1>2. NoneNew(remote') /\ OnlyNewUnderTest(remote)'
  BY DEF End, Empty, NoneNew, OnlyNewUnderTest
<1>3. NoneNew(bucket') /\ pc' = "idle"
  BY DEF TestedInv, End
<1> QED
  BY <1>1, <1>2, <1>3 DEF TestedInv, NoneNew, OnlyNewUnderTest

LEMMA AbortTested == ASSUME TestedInv, Keep # "always", Abort PROVE TestedInv'
  BY EndTested DEF Abort

(* A failed step on its way to the cleanup: only bucket and saved matter. *)
LEMMA FailingTested ==
  ASSUME NoneNew(bucket'), TestedInv, UNCHANGED saved, failing' = TRUE PROVE TestedInv'
  BY DEF TestedInv, NoneNew

(* A step outside the test that touches no file. *)
LEMMA QuietTested ==
  ASSUME TestedInv, pc # "test", pc # "idle",
         UNCHANGED <<args, failing, local, remote, bucket, saved>>
  PROVE  TestedInv'
<1>1. CASE failing
  BY <1>1 DEF TestedInv, NoneNew
<1>2. CASE ~failing
  BY <1>2, AllTested, TestedEverywhere DEF NoneNew
<1> QED
  BY <1>1, <1>2

(* Between the build and the test the new package is the one under test. *)
LEMMA BuildTested ==
  ASSUME TypeOK, TestedInv, Keep # "always", ~failing, Build PROVE TestedInv'
<1>1. /\ NoneNew(local) /\ NoneNew(remote) /\ NoneNew(bucket) /\ NoneNew(saved.file)
      /\ pc' = "test" /\ UNCHANGED <<args, cur, bucket, saved>>
  BY AllTested DEF Build, Goto, Stay
<1>2. CASE Skipped
  <2>1. UNCHANGED <<local, remote>>
    BY <1>2 DEF Build
  <2> QED
    BY <1>1, <2>1, TestedEverywhere DEF NoneNew
<1>3. CASE ~Skipped
  <2>1. Writes(Built) /\ (Built = "new" => cur \in Rust)
    BY <1>3 DEF Build, Built
  <2>2. CASE args.mode = "local"
    <3>1. remote' = remote /\ local' = [local EXCEPT ![cur] = Built]
      BY <2>1, <2>2, WriteOne DEF Writes
    <3>2. OnlyNewUnderTest(local)'
      BY <1>1, <2>1, <3>1 DEF TypeOK, NoneNew, OnlyNewUnderTest, UnderTest
    <3> QED
      BY <1>1, <2>2, <3>1, <3>2 DEF TestedInv, NoneNew
  <2>3. CASE args.mode # "local"
    <3>1. local' = local /\ remote' = [remote EXCEPT ![cur] = Built]
      BY <2>1, <2>3, WriteOne DEF Writes
    <3>2. OnlyNewUnderTest(remote)'
      BY <1>1, <2>1, <3>1 DEF TypeOK, NoneNew, OnlyNewUnderTest, UnderTest
    <3> QED
      BY <1>1, <2>3, <3>1, <3>2 DEF TestedInv, NoneNew
  <2> QED
    BY <2>2, <2>3
<1> QED
  BY <1>2, <1>3

(* After the test nothing is new any more. *)
LEMMA TestTested ==
  ASSUME TypeOK, TestedInv, ~failing, Test PROVE TestedInv'
<1>1. UNCHANGED <<bucket, saved>> /\ NoneNew(bucket) /\ NoneNew(saved.file) /\ pc = "test"
  BY DEF Test, TestedInv
<1>2. CASE cur \notin Rust
  <2>1. NoneNew(local') /\ NoneNew(remote')
    BY <1>1, <1>2 DEF Test, TestedInv, NoneNew, OnlyNewUnderTest, UnderTest
  <2> QED
    BY <1>1, <2>1, TestedEverywhere DEF NoneNew
<1>3. CASE cur \in Rust /\ args.mode = "local"
  <2>1. /\ remote' = remote
        /\ local' = [local EXCEPT ![cur] = IF Mounted[cur] = "new" THEN "good" ELSE Mounted[cur]]
    BY <1>3, WriteOne DEF Test
  <2>2. OnlyNewUnderTest(local) /\ NoneNew(remote) /\ Mounted = local
    BY <1>1, <1>3 DEF TestedInv, Mounted
  <2>3. NoneNew(local') /\ NoneNew(remote')
    BY <2>1, <2>2 DEF TypeOK, NoneNew, OnlyNewUnderTest, UnderTest
  <2> QED
    BY <1>1, <2>3, TestedEverywhere DEF NoneNew
<1>4. CASE cur \in Rust /\ args.mode # "local"
  <2>1. /\ local' = local
        /\ remote' = [remote EXCEPT ![cur] = IF Mounted[cur] = "new" THEN "good" ELSE Mounted[cur]]
    BY <1>4, WriteOne DEF Test
  <2>2. OnlyNewUnderTest(remote) /\ NoneNew(local) /\ Mounted = remote
    BY <1>1, <1>4 DEF TestedInv, Mounted
  <2>3. NoneNew(local') /\ NoneNew(remote')
    BY <2>1, <2>2 DEF TypeOK, NoneNew, OnlyNewUnderTest, UnderTest
  <2> QED
    BY <1>1, <2>3, TestedEverywhere DEF NoneNew
<1> QED
  BY <1>2, <1>3, <1>4

LEMMA TestedStep ==
  ASSUME Keep # "always"
  PROVE  TypeOK /\ ControlOK /\ TestedInv /\ [Next]_vars => TestedInv'
<1> SUFFICES ASSUME TypeOK, ControlOK, TestedInv, [Next]_vars PROVE TestedInv'
  OBVIOUS
<1>0. pc \notin {"stop", "destroy"} => ~failing
  BY DEF ControlOK, TypeOK
<1>1. ASSUME NEW a \in ArgSet, Start(a) PROVE TestedInv'
  <2>1. NoneNew(local') /\ NoneNew(remote') /\ NoneNew(bucket') /\ NoneNew(saved.file)'
    BY <1>0, <1>1, NoneUnderTest DEF Start, TestedInv, NoneNew
  <2> QED
    BY <2>1, TestedEverywhere
<1>2. ASSUME NEW B \in SUBSET Rust, UpdateConfig(B) PROVE TestedInv'
  <2>1. NoneNew(local) /\ NoneNew(remote) /\ NoneNew(bucket) /\ NoneNew(saved.file)
    BY <1>0, <1>2, AllTested DEF UpdateConfig
  <2>2. NoneNew(local') /\ NoneNew(remote') /\ NoneNew(bucket') /\ NoneNew(saved.file)'
    BY <1>2, <2>1 DEF UpdateConfig, NoneNew
  <2> QED
    BY <2>2, TestedEverywhere
<1>3. CASE Download
  <2>1. NoneNew(local) /\ NoneNew(remote) /\ NoneNew(bucket) /\ NoneNew(saved.file)
    BY <1>0, <1>3, AllTested DEF Download
  <2>2. NoneNew(local') /\ NoneNew(remote') /\ NoneNew(bucket') /\ NoneNew(saved.file)'
    BY <1>3, <2>1 DEF Download, NoneNew
  <2> QED
    BY <2>2, TestedEverywhere
<1>4. CASE Select \/ CreateLocal \/ Connect \/ BuildCaddy \/ StartCaddy \/ LoopDone \/ StopCaddy
           \/ BuildAndUploadDocker
  BY <1>4, QuietTested
  DEF Select, CreateLocal, Connect, BuildCaddy, StartCaddy, LoopDone, StopCaddy,
      BuildAndUploadDocker, Goto, Stay, repos
<1>5. ASSUME NEW s \in Servers, CreateUpcloud(s) PROVE TestedInv'
  BY <1>5, QuietTested DEF CreateUpcloud, Goto, Stay, repos
<1>6. ASSUME NEW p \in Pkgs, NextPackage(p) PROVE TestedInv'
  BY <1>6, QuietTested DEF NextPackage, repos
<1>7. CASE EverythingUpToDate
  BY <1>0, <1>7, AllTested, EndTested DEF EverythingUpToDate
<1>8. CASE NoDaemonSpecified \/ PortTaken \/ PrepareFails \/ CidrFails \/ CaddyFails \/ Panic
  BY <1>8, AbortTested
  DEF NoDaemonSpecified, PortTaken, PrepareFails, CidrFails, CaddyFails, Panic
<1>9. CASE Install
  <2>1. NoneNew(local) /\ NoneNew(remote) /\ NoneNew(bucket) /\ NoneNew(saved.file)
    BY <1>0, <1>9, AllTested DEF Install
  <2>2. UNCHANGED <<local, bucket, saved>>
    BY <1>9 DEF Install
  <2>3. remote' \in {remote, local} \/ \E p \in Pkgs : remote' = [local EXCEPT ![p] = "part"]
    BY <1>9 DEF Install
  <2>4. NoneNew(remote')
    BY <2>1, <2>3 DEF NoneNew, TypeOK
  <2> QED
    BY <2>1, <2>2, <2>4, TestedEverywhere DEF NoneNew
<1>10. CASE Build
  BY <1>0, <1>10, BuildTested DEF Build
<1>11. CASE Test
  BY <1>0, <1>11, TestTested DEF Test
<1>12. CASE UploadRepoChanges
  <2>1. NoneNew(local) /\ NoneNew(remote) /\ NoneNew(bucket) /\ NoneNew(saved.file) /\ NoneNew(Mounted)
    BY <1>0, <1>12, AllTested DEF UploadRepoChanges
  <2>2. NoneNew(local') /\ NoneNew(bucket') /\ UNCHANGED <<remote, saved>>
    BY <1>12, <2>1 DEF UploadRepoChanges, Transfer, NoneNew
  <2> QED
    BY <2>1, <2>2, TestedEverywhere DEF NoneNew
<1>13. CASE Destroy \/ DestroyFails
  <2>1. ~failing => NoneNew(local)
    BY <1>13, AllTested DEF Destroy, DestroyFails
  <2>2. /\ UNCHANGED <<local, bucket>>
        /\ \E why : End(Ending, why) \/ End("abort", why)
    BY <1>13 DEF Destroy, DestroyFails
  <2> QED
    BY <2>1, <2>2, EndTested DEF Ending, NoneNew
<1>14. CASE DownloadFails \/ Kill
  BY <1>14, EndTested DEF DownloadFails, Kill
<1>15. CASE InstallFails \/ ConnectFails \/ BuildFails \/ TestFails \/ DockerFails
  <2>1. UNCHANGED <<bucket, saved>> /\ failing' = TRUE
    BY <1>15
    DEF InstallFails, ConnectFails, BuildFails, TestFails, DockerFails, Cleanup, repos
  <2>2. NoneNew(bucket')
    BY <2>1 DEF TestedInv, NoneNew
  <2> QED
    BY <2>1, <2>2, FailingTested
<1>16. CASE UploadFails
  <2>1. NoneNew(local) /\ NoneNew(bucket) /\ NoneNew(Mounted)
    BY <1>0, <1>16, AllTested DEF UploadFails
  <2>2. NoneNew(bucket')
    BY <1>16, <2>1 DEF UploadFails, Transfer, NoneNew
  <2> QED
    BY <1>16, <2>2, FailingTested DEF UploadFails, Cleanup
<1>17. ASSUME NEW s \in Servers, CreateFails(s) PROVE TestedInv'
  <2>1. NoneNew(local) /\ NoneNew(remote) /\ NoneNew(bucket) /\ NoneNew(saved.file)
    BY <1>0, <1>17, AllTested DEF CreateFails
  <2>2. UNCHANGED <<local, remote, bucket>> /\ (saved' = saved \/ saved'.file = local)
    BY <1>17 DEF CreateFails
  <2> QED
    BY <2>1, <2>2, TestedEverywhere DEF NoneNew
<1>18. CASE UNCHANGED vars
  BY <1>18 DEF vars, process, repos, TestedInv, NoneNew, OnlyNewUnderTest, UnderTest
<1> QED
  BY <1>1, <1>2, <1>3, <1>4, <1>5, <1>6, <1>7, <1>8, <1>9, <1>10, <1>11, <1>12, <1>13,
     <1>14, <1>15, <1>16, <1>17, <1>18
  DEF Next, Progress, Failure

(* As long as a failed run's repodir is thrown away, no rust package is    *)
(* published that has not passed its tests: even where transfers lose data *)
(* and rejected requests pass for uploads, and although every upload       *)
(* publishes the whole directory.                                          *)
THEOREM NoUntestedPublished ==
  ASSUME Keep # "always"
  PROVE  Spec => []OnlyTestedPublished
<1>1. Init => TestedInv
  BY DEF Init, TestedInv, NoneNew, OnlyNewUnderTest, Empty
<1>2. TypeOK /\ ControlOK /\ TestedInv /\ [Next]_vars => TestedInv'
  BY TestedStep
<1>3. TestedInv => OnlyTestedPublished
  BY DEF TestedInv, NoneNew, OnlyTestedPublished
<1> QED
  BY <1>1, <1>2, <1>3, ControlInvariant, PTL DEF Spec

-----------------------------------------------------------------------------
(* All runs together implement Repository *)

LEMMA RepositoryInit == Init => Repo!Init
  BY DEF Init, Empty, Repo!Init

(* Most steps leave what is published alone. *)
LEMMA Unpublished == ASSUME UNCHANGED <<bucket, index, registry>> PROVE [Repo!Next]_Repo!vars
  BY DEF Repo!vars

(* An upload, complete or not, publishes good packages and takes nothing   *)
(* away: what it moves is there, and good once the test is over.           *)
LEMMA UploadsPublish ==
  ASSUME TypeOK, GoodInv, EventInv, ~failing, pc = "upload",
         NEW D, NEW X, NEW U, X \subseteq Changed, U \subseteq D, D \subseteq Changed,
         D \cap X = {}, Transfer(D, X, U)
  PROVE  \E S \in SUBSET Pkgs : bucket' = [p \in Pkgs |-> IF p \in S THEN "good" ELSE bucket[p]]
<1>1. Changed \subseteq Pkgs /\ Tame(Mounted)
  BY AllTame DEF TypeOK, Changed
<1>2. \A p \in Changed : Mounted[p] = "good"
  BY <1>1 DEF Tame, Changed, EventInv, Mounted
<1>3. \A p \in U : local'[p] = "good"
  BY <1>1, <1>2 DEF Transfer
<1>4. bucket' = [p \in Pkgs |-> IF p \in U THEN "good" ELSE bucket[p]]
  BY <1>3 DEF Transfer
<1> QED
  BY <1>1, <1>4

(* An image that is current was installed through an index that lists its  *)
(* package, and an index forgets a package only for a newer version.       *)
ImageIndexed == \A p \in Pkgs : registry[p] = "current" => p \in index

LEMMA ImageIndexedStep == TypeOK /\ ImageIndexed /\ [Next]_vars => ImageIndexed'
<1> SUFFICES ASSUME TypeOK, ImageIndexed, [Next]_vars PROVE ImageIndexed'
  OBVIOUS
<1>1. ASSUME NEW B \in SUBSET Rust, UpdateConfig(B) PROVE ImageIndexed'
  BY <1>1 DEF UpdateConfig, ImageIndexed
<1>2. CASE UploadRepoChanges \/ UploadFails
  <2>1. registry' = registry /\ index \subseteq index'
    BY <1>2 DEF UploadRepoChanges, UploadFails, PublishIndex
  <2> QED
    BY <2>1 DEF ImageIndexed
<1>3. CASE BuildAndUploadDocker
  BY <1>3 DEF BuildAndUploadDocker, ImageIndexed, TypeOK
<1>4. CASE UNCHANGED <<index, registry>>
  BY <1>4 DEF ImageIndexed
<1>5. CASE \/ \E a \in ArgSet : Start(a)
           \/ Download \/ Select \/ CreateLocal \/ Install \/ Connect \/ BuildCaddy \/ StartCaddy
           \/ LoopDone \/ Build \/ Test \/ StopCaddy
           \/ \E p \in Pkgs : NextPackage(p)
           \/ \E s \in Servers : CreateUpcloud(s) \/ CreateFails(s)
           \/ InstallFails \/ ConnectFails \/ BuildFails \/ TestFails \/ DockerFails
  BY <1>4, <1>5
  DEF Start, Download, Select, CreateLocal, Install, Connect, BuildCaddy, StartCaddy, LoopDone,
      Build, Test, StopCaddy, NextPackage, CreateUpcloud, CreateFails, InstallFails, ConnectFails,
      BuildFails, TestFails, DockerFails, repos
<1>6. CASE EverythingUpToDate \/ NoDaemonSpecified \/ PortTaken \/ PrepareFails \/ CidrFails
           \/ CaddyFails \/ Panic \/ Destroy \/ DestroyFails \/ DownloadFails \/ Kill
  BY <1>4, <1>6
  DEF EverythingUpToDate, NoDaemonSpecified, PortTaken, PrepareFails, CidrFails, CaddyFails,
      Panic, Destroy, DestroyFails, DownloadFails, Kill, Abort
<1>7. CASE UNCHANGED vars
  BY <1>4, <1>7 DEF vars, repos
<1> QED
  BY <1>1, <1>2, <1>3, <1>5, <1>6, <1>7 DEF Next, Progress, Failure

LEMMA ImageIndexedInvariant == Spec => []ImageIndexed
<1>1. Init => ImageIndexed
  BY DEF Init, ImageIndexed
<1> QED
  BY <1>1, ImageIndexedStep, ControlInvariant, PTL DEF Spec

LEMMA RepositoryStep ==
  ASSUME Faults \cap {"short", "rejected"} = {}
  PROVE  TypeOK /\ ControlOK /\ GoodInv /\ EventInv /\ ImageIndexed /\ [Next]_vars
         => [Repo!Next]_Repo!vars
<1> SUFFICES ASSUME TypeOK, ControlOK, GoodInv, EventInv, ImageIndexed, [Next]_vars
             PROVE  [Repo!Next]_Repo!vars
  OBVIOUS
<1>0. pc \notin {"stop", "destroy"} => ~failing
  BY DEF ControlOK, TypeOK
<1>1. ASSUME NEW B \in SUBSET Rust, UpdateConfig(B) PROVE [Repo!Next]_Repo!vars
  <2>1. B \in SUBSET Pkgs
    BY DEF Rust
  <2>2. Repo!NewVersions(B)
    BY <1>1 DEF UpdateConfig, Repo!NewVersions
  <2> QED
    BY <2>1, <2>2 DEF Repo!Next
<1>2. CASE UploadRepoChanges
  <2>1. CASE ~args.upload
    BY <1>2, <2>1, Unpublished DEF UploadRepoChanges
  <2>2. CASE args.upload
    <3>1. Transfer(Changed, {}, Changed) /\ pc = "upload" /\ ~failing
      BY <1>0, <1>2, <2>2, WholeUpload DEF UploadRepoChanges
    <3>2. PICK S \in SUBSET Pkgs : bucket' = [p \in Pkgs |-> IF p \in S THEN "good" ELSE bucket[p]]
      BY <3>1, UploadsPublish
    <3>3. Repo!Publish(S)
      BY <1>2, <3>2 DEF UploadRepoChanges, Repo!Publish
    <3> QED
      BY <3>3 DEF Repo!Next
  <2> QED
    BY <2>1, <2>2
<1>3. CASE UploadFails
  <2>1. PICK D \in SUBSET Changed : \E U \in SUBSET D, X \in SUBSET (Changed \ D) : Transfer(D, X, U)
    BY <1>3 DEF UploadFails
  <2>2. PICK U \in SUBSET D, X \in SUBSET (Changed \ D) : Transfer(D, X, U)
    BY <2>1
  <2>3. pc = "upload" /\ ~failing
    BY <1>0, <1>3 DEF UploadFails
  <2>4. PICK S \in SUBSET Pkgs : bucket' = [p \in Pkgs |-> IF p \in S THEN "good" ELSE bucket[p]]
    BY <2>2, <2>3, UploadsPublish
  <2>5. Repo!Publish(S)
    BY <1>3, <2>4 DEF UploadFails, Repo!Publish
  <2> QED
    BY <2>5 DEF Repo!Next
<1>4. CASE BuildAndUploadDocker
  <2>0. bucket' = bucket
    BY <1>4 DEF BuildAndUploadDocker
  <2>1. UNCHANGED bucket /\ Tame(bucket)
    BY <2>0 DEF GoodInv
  <2>2. ASSUME registry' = registry PROVE [Repo!Next]_Repo!vars
    BY <2>0, <2>2 DEF Repo!vars
  <2>3. CASE /\ cur \in index => bucket[cur] \notin {"absent", "part"}
             /\ registry' = [registry EXCEPT ![cur] = IF cur \in index THEN "current" ELSE "old"]
    <3>1. cur \in Pkgs
      BY <1>4 DEF BuildAndUploadDocker, ControlOK, LoopPcs
    <3>2. CASE cur \notin index
      <4>1. registry[cur] = "old"
        BY <3>1, <3>2 DEF TypeOK, ImageIndexed
      <4>2. registry' = registry
        BY <2>3, <3>1, <3>2, <4>1 DEF TypeOK
      <4> QED
        BY <2>2, <4>2
    <3>3. CASE cur \in index
      <4>1. Repo!PushImages(cur)
        BY <2>1, <2>3, <3>1, <3>3 DEF Tame, Repo!PushImages
      <4> QED
        BY <3>1, <4>1 DEF Repo!Next
    <3> QED
      BY <3>2, <3>3
  <2> QED
    BY <1>4, <2>2, <2>3 DEF BuildAndUploadDocker
<1>5. CASE \/ \E a \in ArgSet : Start(a)
           \/ Download \/ Select \/ CreateLocal \/ Install \/ Connect \/ BuildCaddy \/ StartCaddy
           \/ LoopDone \/ Build \/ Test \/ StopCaddy
           \/ \E p \in Pkgs : NextPackage(p)
           \/ \E s \in Servers : CreateUpcloud(s) \/ CreateFails(s)
           \/ InstallFails \/ ConnectFails \/ BuildFails \/ TestFails \/ DockerFails
  <2>1. UNCHANGED <<bucket, index, registry>>
    BY <1>5
    DEF Start, Download, Select, CreateLocal, Install, Connect, BuildCaddy, StartCaddy, LoopDone,
        Build, Test, StopCaddy, NextPackage, CreateUpcloud, CreateFails, InstallFails, ConnectFails,
        BuildFails, TestFails, DockerFails, repos
  <2> QED
    BY <2>1, Unpublished
<1>6. CASE EverythingUpToDate \/ NoDaemonSpecified \/ PortTaken \/ PrepareFails \/ CidrFails
           \/ CaddyFails \/ Panic \/ Destroy \/ DestroyFails \/ DownloadFails \/ Kill
  <2>1. UNCHANGED <<bucket, index, registry>>
    BY <1>6
    DEF EverythingUpToDate, NoDaemonSpecified, PortTaken, PrepareFails, CidrFails, CaddyFails,
        Panic, Destroy, DestroyFails, DownloadFails, Kill, Abort
  <2> QED
    BY <2>1, Unpublished
<1>7. CASE UNCHANGED vars
  BY <1>7, Unpublished DEF vars, repos
<1> QED
  BY <1>1, <1>2, <1>3, <1>4, <1>5, <1>6, <1>7 DEF Next, Progress, Failure

(* Unless a failed run's repodir is used again or a transfer loses data    *)
(* unnoticed: to its users, all that main does in all its runs, whatever   *)
(* fails in them or ends them, is the repository of module Repository.     *)
(* What is published is good and stays until a newer version replaces it,  *)
(* and images become current after their packages (main.rs 290-402).       *)
THEOREM RunsImplementRepository ==
  ASSUME Keep # "always", Faults \cap {"short", "rejected"} = {}
  PROVE  Spec => ImplementsRepository
<1>1. TypeOK /\ ControlOK /\ GoodInv /\ EventInv /\ ImageIndexed /\ [Next]_vars
      => [Repo!Next]_Repo!vars
  BY RepositoryStep
<1> QED
  BY <1>1, RepositoryInit, ImageIndexedInvariant, ControlInvariant, GoodInvariant,
     EventInvariant, PTL
  DEF Spec, ImplementsRepository, Repo!Spec
=============================================================================
