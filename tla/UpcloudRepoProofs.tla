-------------------------- MODULE UpcloudRepoProofs --------------------------
(***************************************************************************)
(* Theorems about UpcloudRepo, for every set of jobs, packages and files   *)
(* and any number of failures, overlaps and builds.                        *)
(***************************************************************************)
EXTENDS UpcloudRepo, TLAPS

(* Strengthenings of the invariants *)

Uploading(j) == pc[j] \in {"fetch", "put", "mark"}
OnMachine(j) == pc[j] \in {"next", "build", "index", "fetch", "put", "mark"}
Lone == \A j \in Jobs : alone[j] => pc[j] # "idle" /\ \A k \in Jobs \ {j} : pc[k] = "idle"

(* Objects never vanish from the bucket, and what is uploaded is there. *)
Present(j) ==
    /\ \A f \in Objects : etag[j][f] # 0 => local[j][f] # 0
    /\ pc[j] = "download" => \A f \in left[j] : bucket[f] # 0
    /\ Uploading(j) => \A f \in left[j] : machine[j][f] # 0
    /\ pc[j] \in {"put", "mark"} =>
          /\ moving[j] \in Objects /\ machine[j][moving[j]] # 0
          /\ local[j][moving[j]] # 0
          /\ local[j][moving[j]] > 0 => local[j][moving[j]] = machine[j][moving[j]]
    /\ failed[j] => Uploading(j)
    /\ pc[j] \in {"idle", "download", "install"} => cur[j] = NoPkg
    /\ pc[j] = "idle" => local[j] = Nothing
    /\ pc[j] \in {"idle", "download", "install"} => machine[j] = Nothing
SavedPresent == \A f \in Objects : saved.etag[f] # 0 => saved.file[f] # 0

(* A job that is alone works on everything the bucket has. *)
Complete(j) ==
    alone[j] => \A f \in Objects : bucket[f] # 0 =>
        /\ pc[j] = "download" => f \in left[j] \/ local[j][f] # 0
        /\ pc[j] = "install" => local[j][f] # 0
        /\ OnMachine(j) => machine[j][f] # 0

(* The index on the machine of such a job lists what the machine has, and  *)
(* what it has uploaded so far is what the machine has.                    *)
Indexed(j) == pc[j] = "index" \/ Uploading(j) \/ (pc[j] = "next" /\ cur[j] # NoPkg)
Listed(j) ==
    alone[j] /\ Indexed(j) => /\ machine[j][Index] \in 1..MaxBuilds
                              /\ lists[machine[j][Index]] = Whole(machine[j])
Sent(j) ==
    alone[j] /\ Indexed(j) /\ pc[j] # "index" =>
        /\ pc[j] = "next" => left[j] = {}
        /\ \A f \in Objects : \/ machine[j][f] = 0
                              \/ f \in left[j]
                              \/ pc[j] = "put" /\ f = moving[j]
                              \/ failed[j]
                              \/ f \in rejected
                              \/ bucket[f] < 0
                              \/ bucket[f] = machine[j][f]
        /\ pc[j] = "mark" => \/ moving[j] \in rejected
                             \/ bucket[moving[j]] < 0
                             \/ bucket[moving[j]] = local[j][moving[j]]

(* An .etag file with the ETag of what is published is beside the same     *)
(* file, but for the one a job is uploading and for uploads that failed.   *)
SkipsPublished(tag, file, f) == bucket[f] > 0 /\ tag[f] = bucket[f] => file[f] = bucket[f]
Honest(j) ==
    Clean(j) => \A f \in Objects \ rejected :
        \/ SkipsPublished(etag[j], local[j], f)
        \/ failed[j]
        \/ pc[j] \in {"put", "mark"} /\ f = moving[j]
(* What a clean job has and did not write is what is published. *)
Current(j) ==
    Clean(j) =>
        /\ pc[j] = "download" => listing[j] = bucket
        /\ \A f \in Objects \ rejected : bucket[f] > 0 =>
              /\ pc[j] = "download" => f \in left[j] \/ local[j][f] = bucket[f]
              /\ pc[j] = "install" => local[j][f] = bucket[f]
              /\ OnMachine(j) => \/ f \in written[j]
                                 \/ machine[j][f] = bucket[f]
                                 \/ machine[j][f] < 0

JobInv(j) == Present(j) /\ Complete(j) /\ Listed(j) /\ Sent(j) /\ Honest(j) /\ Current(j)

(* Contents come from builds. *)
Numbered ==
    \A f \in Objects :
        /\ bucket[f] <= builds /\ saved.file[f] <= builds /\ saved.etag[f] <= builds
        /\ \A j \in Jobs : /\ listing[j][f] <= builds /\ local[j][f] <= builds
                          /\ etag[j][f] <= builds /\ machine[j][f] <= builds

(* Contents that are nowhere any more, and that no build will write again. *)
Gone(f, e) ==
    /\ e <= builds /\ bucket[f] # e /\ saved.file[f] # e
    /\ \A j \in Jobs : local[j][f] # e /\ machine[j][f] # e

(* An .etag file of a clean repodir that is older than the file beside it  *)
(* has the ETag of contents that are gone.                                 *)
SavedHonest ==
    saved.clean => \A f \in Objects \ rejected : \/ saved.etag[f] <= 0
                                                \/ saved.etag[f] = saved.file[f]
                                                \/ Gone(f, saved.etag[f])

RepoInv == Lone /\ SavedPresent /\ Numbered /\ SavedHonest /\ \A j \in Jobs : JobInv(j)

-----------------------------------------------------------------------------
LEMMA FaultType == ASSUME TypeOK, NEW k, Fault(k) PROVE faults' \in 0..MaxFaults
  BY BoundAssumption DEF BoundAssumption, TypeOK, Fault

LEMMA TornType == TypeOK => Torn \in Int /\ Torn < 0
  BY DEF TypeOK, Torn

(* Writing one file of one job's directory. *)
LEMMA Update ==
  ASSUME NEW g \in [Jobs -> [Objects -> Int]], NEW j \in Jobs, NEW f \in Objects, NEW c \in Int,
         NEW h, h = [g EXCEPT ![j][f] = c]
  PROVE  /\ h \in [Jobs -> [Objects -> Int]]
         /\ h[j][f] = c
         /\ \A x \in Objects \ {f} : h[j][x] = g[j][x]
         /\ \A k \in Jobs \ {j} : h[k] = g[k]
<1>1. h = [g EXCEPT ![j] = [g[j] EXCEPT ![f] = c]]
  OBVIOUS
<1>2. [g[j] EXCEPT ![f] = c] \in [Objects -> Int]
  OBVIOUS
<1> QED
  BY <1>1, <1>2

LEMMA InitTypeOK == Init => TypeOK
<1> SUFFICES ASSUME Init PROVE TypeOK
  OBVIOUS
<1>1. Nothing \in [Objects -> Int] /\ NothingListed \in [Files -> Int]
  BY DEF Nothing, NothingListed
<1>2. lists \in [1..MaxBuilds -> [Files -> Int]]
  BY <1>1 DEF Init
<1>3. /\ listing \in [Jobs -> [Objects -> Int]] /\ local \in [Jobs -> [Objects -> Int]]
      /\ etag \in [Jobs -> [Objects -> Int]] /\ machine \in [Jobs -> [Objects -> Int]]
  BY <1>1 DEF Init
<1>4. /\ todo \in [Jobs -> SUBSET Pkgs] /\ left \in [Jobs -> SUBSET Objects]
      /\ written \in [Jobs -> SUBSET Objects]
  BY DEF Init
<1>5. wanted \subseteq Pkgs /\ builds \in 0..MaxBuilds /\ faults \in 0..MaxFaults
  BY FileAssumption, BoundAssumption DEF FileAssumption, BoundAssumption, Init
<1> QED
  BY <1>1, <1>2, <1>3, <1>4, <1>5 DEF Init, TypeOK, NoPkg, NoFile

(* A run that ends leaves everything well typed. *)
LEMMA EndType ==
  ASSUME TypeOK, NEW j \in Jobs, NEW how \in {"uptodate", "done", "failed"},
         End(j, how), faults' \in 0..MaxFaults
  PROVE  TypeOK'
<1>1. Nothing \in [Objects -> Int]
  BY DEF Nothing
<1>2. Repodir(j) \in [file : [Objects -> Int], etag : [Objects -> Int], clean : BOOLEAN]
  BY DEF TypeOK, Repodir, Clean
<1>3. saved' \in [file : [Objects -> Int], etag : [Objects -> Int], clean : BOOLEAN]
  BY <1>2 DEF End, TypeOK
<1>4. /\ UNCHANGED <<wanted, bucket, lists, rejected, builds>>
      /\ pc' = [pc EXCEPT ![j] = "idle"] /\ outcome' = [outcome EXCEPT ![j] = how]
      /\ Forget(j)
  BY DEF End
<1> HIDE DEF End
<1> QED
  BY <1>1, <1>3, <1>4 DEF Forget, TypeOK

LEMMA StepType ==
  ASSUME TypeOK, NEW j \in Jobs, Step(j), Present(j)
  PROVE  TypeOK'
<1>1. CASE Start(j)
  <2>1. Outdated(saved.file, saved.etag) \subseteq Objects
    BY DEF Outdated
  <2> QED
    BY <1>1, <2>1 DEF Start, NoFault, shared, TypeOK
<1>2. ASSUME NEW f \in Objects, Get(j, f) PROVE TypeOK'
  <2>1. local' \in [Jobs -> [Objects -> Int]] /\ rejected' \subseteq Objects
    <3>1. bucket[f] \in Int /\ Torn \in Int
      BY TornType DEF TypeOK
    <3>2. PICK c \in Int : local' = [local EXCEPT ![j][f] = c]
      BY <1>2, <3>1 DEF Get
    <3>3. local \in [Jobs -> [Objects -> Int]]
      BY DEF TypeOK
    <3>4. local' \in [Jobs -> [Objects -> Int]]
      BY <3>2, <3>3, Update
    <3> QED
      BY <1>2, <3>4 DEF Get, TypeOK
  <2>2. etag' \in [Jobs -> [Objects -> Int]] /\ left' \in [Jobs -> SUBSET Objects]
    <3>1. PICK e \in Int : etag' = [etag EXCEPT ![j][f] = e]
      <4>1. listing[j][f] \in Int /\ etag[j][f] \in Int /\ 0 \in Int
        BY DEF TypeOK
      <4>2. Note(j, f, listing[j][f]) \/ Note(j, f, etag[j][f]) \/ Note(j, f, 0)
        BY <1>2 DEF Get, NoteFails
      <4> QED
        BY <4>1, <4>2 DEF Note
    <3>2. etag' \in [Jobs -> [Objects -> Int]]
      BY <3>1, Update DEF TypeOK
    <3> QED
      BY <1>2, <3>2 DEF Get, TypeOK
  <2>3. faults' \in 0..MaxFaults
    BY <1>2, FaultType DEF Get, NoFault, TypeOK
  <2> QED
    BY <1>2, <2>1, <2>2, <2>3 DEF Get, history, TypeOK
<1>3. CASE Select(j)
  BY <1>3 DEF Select, Missing, Goto, NoFault, shared, dirs, history, TypeOK
<1>4. CASE EverythingUpToDate(j) \/ Finish(j) \/ UploadFailed(j)
  BY <1>4, EndType DEF EverythingUpToDate, Finish, UploadFailed, NoFault, TypeOK
<1>5. CASE Install(j)
  <2>1. machine' \in [Jobs -> [Objects -> Int]]
    <3>1. ASSUME NEW f \in Objects, machine' = [machine EXCEPT ![j] = [local[j] EXCEPT ![f] = Torn]]
          PROVE  machine' \in [Jobs -> [Objects -> Int]]
      <4>1. [local[j] EXCEPT ![f] = Torn] \in [Objects -> Int]
        BY TornType DEF TypeOK
      <4> QED
        BY <3>1, <4>1 DEF TypeOK
    <3>2. CASE machine' = [machine EXCEPT ![j] = local[j]]
      BY <3>2 DEF TypeOK
    <3> QED
      BY <1>5, <3>1, <3>2 DEF Install
  <2>2. faults' \in 0..MaxFaults
    BY <1>5, FaultType DEF Install, NoFault, TypeOK
  <2> QED
    BY <1>5, <2>1, <2>2 DEF Install, Goto, shared, loop, history, TypeOK
<1>6. ASSUME NEW p \in Pkgs, NextPackage(j, p) PROVE TypeOK'
  BY <1>6 DEF NextPackage, Goto, NoFault, shared, dirs, history, TypeOK
<1>7. CASE Build(j)
  <2>1. builds' \in 0..MaxBuilds /\ builds + 1 \in Int
    BY <1>7, BoundAssumption DEF BoundAssumption, Build, TypeOK
  <2>2. machine' \in [Jobs -> [Objects -> Int]]
    <3>1. [f \in Objects |-> IF f \in Output(j) THEN builds + 1 ELSE machine[j][f]]
            \in [Objects -> Int]
      BY <2>1 DEF TypeOK
    <3> QED
      BY <1>7, <3>1 DEF Build, TypeOK
  <2>3. lists' \in [1..MaxBuilds -> [Files -> Int]]
    <3>1. Whole(machine'[j]) \in [Files -> Int]
      BY <2>2 DEF Whole, Objects
    <3> QED
      BY <1>7, <3>1 DEF Build, TypeOK
  <2>4. written' \in [Jobs -> SUBSET Objects]
    BY <1>7 DEF Build, Output, Objects, TypeOK
  <2> QED
    BY <1>7, <2>1, <2>2, <2>3, <2>4 DEF Build, Goto, NoFault, loop, TypeOK
<1>8. CASE IndexMachine(j)
  <2>1. left' \in [Jobs -> SUBSET Objects] /\ failed' \in [Jobs -> BOOLEAN]
    BY <1>8 DEF IndexMachine, TypeOK
  <2> QED
    BY <1>8, <2>1 DEF IndexMachine, Goto, NoFault, shared, dirs, history, TypeOK
<1>9. ASSUME NEW f \in Objects, Fetch(j, f) PROVE TypeOK'
  <2>1. local' \in [Jobs -> [Objects -> Int]]
    <3>1. machine[j][f] \in Int /\ Torn \in Int
      BY TornType DEF TypeOK
    <3>2. PICK c \in Int : local' = [local EXCEPT ![j][f] = c]
      BY <1>9, <3>1 DEF Fetch
    <3>3. local \in [Jobs -> [Objects -> Int]]
      BY DEF TypeOK
    <3> QED
      BY <3>2, <3>3, Update
  <2>2. faults' \in 0..MaxFaults
    BY <1>9, FaultType DEF Fetch, NoFault, TypeOK
  <2> QED
    BY <1>9, <2>1, <2>2 DEF Fetch, Goto, shared, history, TypeOK
<1>10. CASE Put(j) \/ PutFails(j)
  <2>1. moving[j] \in Objects
    BY <1>10 DEF Put, PutFails, Present
  <2>2. Readable(j) \subseteq Int
    BY <2>1 DEF Readable, TypeOK
  <2>3. bucket' \in [Objects -> Int] /\ rejected' \subseteq Objects
    BY <1>10, <2>1, <2>2 DEF Put, PutFails, Store, TypeOK
  <2>5. local' \in [Jobs -> [Objects -> Int]]
    <3>1. local' = local \/ \E c \in Int : local' = [local EXCEPT ![j][moving[j]] = c]
      BY <1>10, <2>2 DEF Put, PutFails, Store
    <3>2. local \in [Jobs -> [Objects -> Int]]
      BY DEF TypeOK
    <3> QED
      BY <2>1, <3>1, <3>2, Update
  <2>4. faults' \in 0..MaxFaults
    BY <1>10, FaultType DEF Put, PutFails, NoFault, TypeOK
  <2> QED
    BY <1>10, <2>3, <2>4, <2>5 DEF Put, PutFails, Goto, loop, history, TypeOK
<1>11. CASE Mark(j)
  <2>1. moving[j] \in Objects
    BY <1>11 DEF Mark, Present
  <2>2. Readable(j) \subseteq Int /\ local[j][moving[j]] \in Int
    BY <2>1 DEF Readable, TypeOK
  <2>3. local' \in [Jobs -> [Objects -> Int]] /\ etag' \in [Jobs -> [Objects -> Int]]
    <3>1. etag[j][moving[j]] \in Int
      BY <2>1 DEF TypeOK
    <3>2. PICK c \in Int, h \in Int : /\ local' = [local EXCEPT ![j][moving[j]] = c]
                                     /\ etag' = [etag EXCEPT ![j][moving[j]] = h]
      <4>1. PICK c \in Readable(j) :
              /\ local' = [local EXCEPT ![j][moving[j]] = c]
              /\ \/ \E h \in {local[j][moving[j]], c} : Note(j, moving[j], h)
                 \/ Note(j, moving[j], etag[j][moving[j]])
                 \/ Note(j, moving[j], 0)
        BY <1>11 DEF Mark, NoteFails
      <4>2. \E h \in Int : Note(j, moving[j], h)
        BY <2>2, <3>1, <4>1
      <4> QED
        BY <2>2, <4>1, <4>2 DEF Note
    <3>3. local \in [Jobs -> [Objects -> Int]] /\ etag \in [Jobs -> [Objects -> Int]]
      BY DEF TypeOK
    <3>4. local' \in [Jobs -> [Objects -> Int]]
      BY <2>1, <3>2, <3>3, Update
    <3>5. etag' \in [Jobs -> [Objects -> Int]]
      BY <2>1, <3>2, <3>3, Update
    <3> QED
      BY <3>4, <3>5
  <2>4. faults' \in 0..MaxFaults
    BY <1>11, FaultType DEF Mark, NoFault, TypeOK
  <2> QED
    BY <1>11, <2>3, <2>4 DEF Mark, Goto, shared, loop, history, TypeOK
<1>12. CASE Uploaded(j)
  BY <1>12 DEF Uploaded, Goto, NoFault, shared, dirs, loop, history, TypeOK
<1>13. CASE Fails(j) \/ Kill(j)
  <2>1. End(j, "failed") /\ faults' \in 0..MaxFaults
    BY <1>13, FaultType DEF Fails, Kill, NoFault, TypeOK
  <2> QED
    BY <2>1, EndType
<1> QED
  BY <1>1, <1>2, <1>3, <1>4, <1>5, <1>6, <1>7, <1>8, <1>9, <1>10, <1>11, <1>12, <1>13 DEF Step

-----------------------------------------------------------------------------
(* The invariant: what a step of one job does to the others *)

LEMMA InitInv == Init => RepoInv
<1> SUFFICES ASSUME Init PROVE RepoInv
  OBVIOUS
<1>1. ASSUME NEW j \in Jobs PROVE JobInv(j)
  BY DEF Init, Nothing, JobInv, Present, Complete, Listed, Sent, Honest, SkipsPublished, Current,
    Clean, Uploading, OnMachine
<1>2. Lone /\ SavedPresent /\ Numbered /\ SavedHonest
  BY DEF Init, Nothing, Lone, SavedPresent, Numbered, SavedHonest
<1> QED
  BY <1>1, <1>2 DEF RepoInv

(* Nothing is ever removed from the bucket. *)
LEMMA Monotone ==
  ASSUME TypeOK, NEW j \in Jobs, JobInv(j), Step(j), NEW f \in Objects, bucket[f] # 0
  PROVE  bucket'[f] # 0
<1>1. CASE bucket' = bucket
  BY <1>1
<1>2. CASE pc[j] = "put" /\ Store(j)
  <2>1. 0 \notin Readable(j)
    BY <1>2 DEF JobInv, Present, Readable
  <2> QED
    BY <1>2, <2>1 DEF Store, TypeOK
<1> QED
  BY <1>1, <1>2 DEF Step, Start, Get, Select, EverythingUpToDate, Install, NextPackage, Build,
    Finish, IndexMachine, Fetch, Put, PutFails, Mark, Uploaded, UploadFailed, Fails, Kill,
    End, shared

(* What a step leaves alone of the other jobs. *)
Apart(j, k) ==
    /\ pc'[k] = pc[k] /\ listing'[k] = listing[k] /\ local'[k] = local[k]
    /\ etag'[k] = etag[k] /\ machine'[k] = machine[k] /\ cur'[k] = cur[k]
    /\ left'[k] = left[k] /\ moving'[k] = moving[k] /\ failed'[k] = failed[k]
    /\ alone'[k] => alone[k] /\ pc[j] # "idle"

LEMMA StepApart ==
  ASSUME TypeOK, NEW j \in Jobs, Step(j), NEW k \in Jobs, k # j
  PROVE  Apart(j, k)
<1>1. CASE Start(j)
  BY <1>1 DEF Start, TypeOK, Apart, shared
<1>2. ASSUME NEW how, End(j, how), pc[j] # "idle" PROVE Apart(j, k)
  BY <1>2 DEF End, Forget, TypeOK, Apart
<1>3. ASSUME NEW f \in Objects, Get(j, f) PROVE Apart(j, k)
  <2>1. local'[k] = local[k] /\ etag'[k] = etag[k] /\ left'[k] = left[k]
    BY <1>3 DEF Get, Note, NoteFails, TypeOK
  <2> QED
    BY <1>3, <2>1 DEF Get, TypeOK, Apart, history
<1>4. ASSUME NEW f \in Objects, Fetch(j, f) PROVE Apart(j, k)
  <2>1. local'[k] = local[k]
    BY <1>4 DEF Fetch, TypeOK
  <2> QED
    BY <1>4, <2>1 DEF Fetch, TypeOK, Apart, history, Goto
<1>5. CASE Mark(j)
  <2>1. local'[k] = local[k] /\ etag'[k] = etag[k]
    BY <1>5 DEF Mark, Note, NoteFails, TypeOK
  <2> QED
    BY <1>5, <2>1 DEF Mark, TypeOK, Apart, history, loop, Goto
<1>6. CASE Select(j) \/ Install(j) \/ (\E p \in Pkgs : NextPackage(j, p)) \/ IndexMachine(j)
  BY <1>6 DEF Select, Downloaded, Install, NextPackage, IndexMachine, TypeOK, Apart, dirs, loop,
    history, Goto
<1>7. CASE Build(j)
  BY <1>7 DEF Build, TypeOK, Apart, loop, Goto
<1>8. CASE Put(j) \/ PutFails(j)
  <2>1. local'[k] = local[k]
    BY <1>8 DEF Put, PutFails, Store, TypeOK
  <2> QED
    BY <1>8, <2>1 DEF Put, PutFails, TypeOK, Apart, loop, history, Goto
<1>9. CASE Uploaded(j)
  BY <1>9 DEF Uploaded, TypeOK, Apart, dirs, loop, history, Goto
<1> QED
  BY <1>1, <1>2, <1>3, <1>4, <1>5, <1>6, <1>7, <1>8, <1>9 DEF Step, EverythingUpToDate, Finish,
    UploadFailed, Fails, Kill, Downloaded

LEMMA OthersInv ==
  ASSUME TypeOK, RepoInv, NEW j \in Jobs, Step(j), NEW k \in Jobs, k # j
  PROVE  JobInv(k)'
<1>1. Apart(j, k)
  BY StepApart
<1>2. ~alone'[k]
  BY <1>1 DEF Apart, RepoInv, Lone
<1>3. Present(k)'
  <2>1. \A f \in Objects : bucket[f] # 0 => bucket'[f] # 0
    BY Monotone DEF RepoInv
  <2>2. Present(k)
    BY DEF RepoInv, JobInv
  <2>3. left[k] \subseteq Objects
    BY DEF TypeOK
  <2> QED
    BY <1>1, <2>1, <2>2, <2>3 DEF Apart, Present, Uploading
<1> QED
  BY <1>2, <1>3 DEF JobInv, Complete, Listed, Sent, Honest, Current, Clean

(* A job stays the only one until another starts. *)
LEMMA LoneStep == ASSUME TypeOK, RepoInv, NEW j \in Jobs, Step(j) PROVE Lone'
<1>1. \A k \in Jobs \ {j} : Apart(j, k)
  BY StepApart
<1>2. ASSUME NEW k \in Jobs, k # j, alone'[k] PROVE FALSE
  BY <1>1, <1>2 DEF Apart, RepoInv, Lone
<1>3. ASSUME alone'[j] PROVE pc'[j] # "idle" /\ \A k \in Jobs \ {j} : pc[k] = "idle"
  <2>1. CASE Start(j)
    BY <1>3, <2>1 DEF Start, TypeOK
  <2>2. CASE \E how : End(j, how)
    BY <1>3, <2>2 DEF End, Forget, TypeOK
  <2>3. CASE alone'[j] = alone[j] /\ pc'[j] # "idle"
    BY <1>3, <2>3 DEF RepoInv, Lone
  <2> QED
    BY <2>1, <2>2, <2>3 DEF Step, Get, Select, Downloaded, EverythingUpToDate, Install,
      NextPackage, Build, Finish, IndexMachine, Fetch, Put, PutFails, Mark, Uploaded,
      UploadFailed, Fails, Kill, history, Goto, TypeOK
<1> QED
  BY <1>1, <1>2, <1>3 DEF Lone, Apart


-----------------------------------------------------------------------------
(* The invariant: what a step does to the job itself *)

LEMMA EndInv ==
  ASSUME TypeOK, NEW j \in Jobs, NEW how, End(j, how)
  PROVE  JobInv(j)'
  BY DEF End, Forget, Nothing, TypeOK, JobInv, Present, Complete, Listed, Sent, Honest,
    Current, Clean, Uploading, OnMachine

LEMMA SavedSkips ==
  ASSUME TypeOK, SavedHonest PROVE SkippedIsPublished
<1> SUFFICES ASSUME saved.clean, NEW f \in Objects \ rejected,
                    bucket[f] > 0, saved.etag[f] = bucket[f]
             PROVE  saved.file[f] = bucket[f]
  BY DEF SkippedIsPublished
<1>1. bucket[f] \in Int /\ ~(saved.etag[f] <= 0)
  BY DEF TypeOK
<1> QED
  BY <1>1 DEF SavedHonest, Gone

LEMMA StartInv ==
  ASSUME TypeOK, RepoInv, NEW j \in Jobs, Start(j)
  PROVE  JobInv(j)'
<1>1. /\ pc'[j] = "download" /\ listing'[j] = bucket /\ local'[j] = saved.file
      /\ etag'[j] = saved.etag /\ left'[j] = Outdated(saved.file, saved.etag)
      /\ failed'[j] = failed[j] /\ fresh'[j] = saved.clean /\ cur'[j] = cur[j]
      /\ UNCHANGED <<bucket, rejected, machine>> /\ pc[j] = "idle"
  BY DEF Start, TypeOK, shared
<1>2. ~failed[j] /\ cur[j] = NoPkg /\ machine[j] = Nothing
  BY DEF Start, RepoInv, JobInv, Present, Uploading
<1>3. Present(j)'
  BY <1>1, <1>2 DEF RepoInv, SavedPresent, Outdated, Present, Uploading
<1>4. Complete(j)'
  BY <1>1 DEF RepoInv, SavedPresent, Outdated, Complete, OnMachine
<1>5. Listed(j)' /\ Sent(j)'
  BY <1>1 DEF Listed, Sent, Indexed, Uploading
<1>6. saved \in [file : [Objects -> Int], etag : [Objects -> Int], clean : BOOLEAN]
  BY DEF TypeOK
<1>7. ASSUME saved.clean, NEW f \in Objects \ rejected
      PROVE  SkipsPublished(saved.etag, saved.file, f)
  BY <1>6, <1>7, SavedSkips DEF RepoInv, TypeOK, SkippedIsPublished, SkipsPublished
<1>8. Honest(j)'
  BY <1>1, <1>7 DEF Honest, Clean, SkipsPublished
<1>9. Current(j)'
  <2> SUFFICES ASSUME saved.clean, NEW f \in Objects \ rejected, bucket[f] > 0,
                      f \notin Outdated(saved.file, saved.etag)
               PROVE  saved.file[f] = bucket[f]
    BY <1>1 DEF Current, Clean, OnMachine
  <2>1. saved.etag[f] = bucket[f]
    BY <1>6 DEF Outdated, TypeOK
  <2> QED
    BY <1>7, <2>1 DEF SkipsPublished
<1> QED
  BY <1>3, <1>4, <1>5, <1>8, <1>9 DEF JobInv

LEMMA GetInv ==
  ASSUME TypeOK, RepoInv, NEW j \in Jobs, NEW f \in Objects, Get(j, f)
  PROVE  JobInv(j)'
<1>1. /\ pc[j] = "download" /\ pc'[j] = "download" /\ f \in left[j] /\ left'[j] = left[j] \ {f}
      /\ UNCHANGED <<bucket, listing, machine, cur, failed, history>>
      /\ rejected \subseteq rejected'
  BY DEF Get, TypeOK
<1>2. JobInv(j)
  BY DEF RepoInv
<1>3. bucket[f] \in Int \ {0} /\ Torn \in Int /\ Torn < 0 /\ listing[j][f] \in Int
  BY <1>1, <1>2, TornType DEF JobInv, Present, TypeOK
<1>4. local \in [Jobs -> [Objects -> Int]] /\ etag \in [Jobs -> [Objects -> Int]]
  BY DEF TypeOK
<1>5. /\ local'[j][f] \in Int \ {0}
      /\ local'[j][f] = bucket[f] \/ f \in rejected'
      /\ \A x \in Objects \ {f} : local'[j][x] = local[j][x]
  <2>1. CASE local' = [local EXCEPT ![j][f] = bucket[f]]
    BY <1>3, <1>4, <2>1, Update
  <2>2. CASE local' = [local EXCEPT ![j][f] = Torn] /\ rejected' = rejected \cup {f}
    BY <1>3, <1>4, <2>2, Update
  <2> QED
    BY <2>1, <2>2 DEF Get
<1>6. \A x \in Objects \ {f} : etag'[j][x] = etag[j][x]
  <2>1. etag[j][f] \in Int
    BY DEF TypeOK
  <2>2. \E e \in Int : etag' = [etag EXCEPT ![j][f] = e]
    BY <1>3, <2>1 DEF Get, Note, NoteFails
  <2> QED
    BY <1>4, <2>2, Update
<1>7. Present(j)'
  BY <1>1, <1>2, <1>5, <1>6 DEF JobInv, Present, Uploading
<1>8. Complete(j)'
  BY <1>1, <1>2, <1>5, <1>6 DEF JobInv, Complete, OnMachine, history
<1>9. Listed(j)' /\ Sent(j)'
  BY <1>1 DEF Listed, Sent, Indexed, Uploading
<1>10. Honest(j)' /\ Current(j)'
  <2>1. CASE Clean(j)
    <3>1. listing[j] = bucket /\ Clean(j)'
      BY <1>1, <1>2, <2>1 DEF JobInv, Current, Clean, history
    <3>2. Honest(j)'
      BY <1>1, <1>2, <1>5, <1>6, <2>1, <3>1 DEF JobInv, Honest, SkipsPublished
    <3>3. Current(j)'
      BY <1>1, <1>2, <1>5, <1>6, <2>1, <3>1 DEF JobInv, Current, OnMachine
    <3> QED
      BY <3>2, <3>3
  <2>2. CASE ~Clean(j)
    BY <1>1, <2>2 DEF Clean, history, Honest, Current
  <2> QED
    BY <2>1, <2>2
<1> QED
  BY <1>7, <1>8, <1>9, <1>10 DEF JobInv

LEMMA SelectInv ==
  ASSUME TypeOK, RepoInv, NEW j \in Jobs, Select(j)
  PROVE  JobInv(j)'
<1>1. /\ pc[j] = "download" /\ left[j] = {} /\ pc'[j] = "install"
      /\ UNCHANGED <<shared, dirs, cur, left, moving, failed, history>>
  BY DEF Select, Downloaded, Goto, TypeOK
<1>2. JobInv(j)
  BY DEF RepoInv
<1> QED
  BY <1>1, <1>2 DEF JobInv, Present, Complete, Listed, Sent, Honest, SkipsPublished, Current, Clean, Uploading,
    OnMachine, Indexed, shared, dirs, history

LEMMA InstallInv ==
  ASSUME TypeOK, RepoInv, NEW j \in Jobs, Install(j)
  PROVE  JobInv(j)'
<1>1. /\ pc[j] = "install" /\ pc'[j] = "next"
      /\ UNCHANGED <<shared, listing, local, etag, loop, history>>
  BY DEF Install, Goto, TypeOK
<1>2. JobInv(j)
  BY DEF RepoInv
<1>3. \A f \in Objects : \/ machine'[j][f] = local[j][f]
                         \/ machine'[j][f] = Torn /\ local[j][f] # 0
  BY DEF Install, TypeOK
<1>4. Torn < 0 /\ Torn # 0
  BY TornType
<1>5. cur[j] = NoPkg
  BY <1>1, <1>2 DEF JobInv, Present
<1> QED
  BY <1>1, <1>2, <1>3, <1>4, <1>5 DEF JobInv, Present, Complete, Listed, Sent, Honest, SkipsPublished, Current,
    Clean, Uploading, OnMachine, Indexed, shared, loop, history

LEMMA NextPackageInv ==
  ASSUME TypeOK, RepoInv, NEW j \in Jobs, NEW p \in Pkgs, NextPackage(j, p)
  PROVE  JobInv(j)'
<1>1. /\ pc[j] = "next" /\ pc'[j] = "build"
      /\ UNCHANGED <<shared, dirs, left, moving, failed, history>>
  BY DEF NextPackage, Goto, TypeOK
<1>2. JobInv(j)
  BY DEF RepoInv
<1> QED
  BY <1>1, <1>2 DEF JobInv, Present, Complete, Listed, Sent, Honest, SkipsPublished, Current, Clean, Uploading,
    OnMachine, Indexed, shared, dirs, history

LEMMA BuildInv ==
  ASSUME TypeOK, RepoInv, NEW j \in Jobs, Build(j)
  PROVE  JobInv(j)'
<1>1. /\ pc[j] = "build" /\ pc'[j] = "index"
      /\ UNCHANGED <<bucket, rejected, listing, local, etag, loop, alone, fresh>>
      /\ written'[j] = written[j] \cup Output(j)
  BY DEF Build, Goto, TypeOK
<1>2. JobInv(j)
  BY DEF RepoInv
<1>3. builds + 1 \in 1..MaxBuilds /\ builds + 1 > 0
  BY BoundAssumption DEF BoundAssumption, Build, TypeOK
<1>4. \A f \in Objects : machine'[j][f] = IF f \in Output(j) THEN builds + 1 ELSE machine[j][f]
  BY DEF Build, TypeOK
<1>5. Index \in Output(j) /\ Index \in Objects
  BY DEF Output, Objects
<1>6. Present(j)' /\ Sent(j)'
  BY <1>1, <1>2 DEF JobInv, Present, Sent, Uploading, loop
<1>7. Complete(j)'
  BY <1>1, <1>2, <1>3, <1>4 DEF JobInv, Complete, OnMachine
<1>8. Listed(j)'
  <2>1. machine'[j][Index] = builds + 1
    BY <1>4, <1>5
  <2>2. lists'[builds + 1] = Whole(machine'[j])
    BY <1>3 DEF Build, TypeOK
  <2> QED
    BY <1>3, <2>1, <2>2 DEF Listed
<1>9. Honest(j)'
  BY <1>1, <1>2 DEF JobInv, Honest, SkipsPublished, Clean, loop
<1>10. Current(j)'
  BY <1>1, <1>2, <1>4 DEF JobInv, Current, Clean, OnMachine
<1> QED
  BY <1>6, <1>7, <1>8, <1>9, <1>10 DEF JobInv

LEMMA IndexInv ==
  ASSUME TypeOK, RepoInv, NEW j \in Jobs, IndexMachine(j)
  PROVE  JobInv(j)'
<1>1. /\ pc[j] = "index" /\ pc'[j] = "fetch" /\ ~failed'[j]
      /\ left'[j] = {f \in Objects : machine[j][f] # 0}
      /\ UNCHANGED <<shared, dirs, cur, moving, history>>
  BY DEF IndexMachine, Goto, TypeOK
<1>2. JobInv(j) /\ ~failed[j]
  BY <1>1 DEF RepoInv, JobInv, Present, Uploading
<1> QED
  BY <1>1, <1>2 DEF JobInv, Present, Complete, Listed, Sent, Honest, SkipsPublished, Current, Clean, Uploading,
    OnMachine, Indexed, shared, dirs, history

LEMMA FetchInv ==
  ASSUME TypeOK, RepoInv, NEW j \in Jobs, NEW f \in Objects, Fetch(j, f)
  PROVE  JobInv(j)'
<1>1. /\ pc[j] = "fetch" /\ pc'[j] = "put" /\ f \in left[j] /\ left'[j] = left[j] \ {f}
      /\ moving'[j] = f
      /\ UNCHANGED <<shared, listing, etag, machine, cur, failed, history>>
  BY DEF Fetch, Goto, TypeOK
<1>2. JobInv(j)
  BY DEF RepoInv
<1>3. machine[j][f] \in Int \ {0} /\ Torn \in Int /\ Torn < 0
  BY <1>1, <1>2, TornType DEF JobInv, Present, Uploading, TypeOK
<1>4. local \in [Jobs -> [Objects -> Int]]
  BY DEF TypeOK
<1>5. \/ local' = [local EXCEPT ![j][f] = machine[j][f]]
      \/ local' = [local EXCEPT ![j][f] = Torn]
  BY DEF Fetch
<1>6. /\ local'[j][f] \in Int \ {0}
      /\ local'[j][f] = machine[j][f] \/ local'[j][f] < 0
      /\ \A x \in Objects \ {f} : local'[j][x] = local[j][x]
  <2>1. CASE local' = [local EXCEPT ![j][f] = machine[j][f]]
    BY <1>3, <1>4, <2>1, Update
  <2>2. CASE local' = [local EXCEPT ![j][f] = Torn]
    BY <1>3, <1>4, <2>2, Update
  <2> QED
    BY <1>5, <2>1, <2>2
<1>7. Present(j)'
  BY <1>1, <1>2, <1>3, <1>6 DEF JobInv, Present, Uploading
<1>8. Complete(j)' /\ Listed(j)' /\ Sent(j)' /\ Current(j)'
  BY <1>1, <1>2 DEF JobInv, Complete, Listed, Sent, Current, Clean, Indexed, Uploading, OnMachine,
    shared, history
<1>9. Honest(j)'
  BY <1>1, <1>2, <1>6 DEF JobInv, Honest, SkipsPublished, Clean, shared, history
<1> QED
  BY <1>7, <1>8, <1>9 DEF JobInv

(* What put_object_stream stores is the machine's file, or torn. *)
LEMMA Stored ==
  ASSUME TypeOK, RepoInv, NEW j \in Jobs, Put(j) \/ PutFails(j)
  PROVE  /\ moving[j] \in Objects /\ machine[j][moving[j]] # 0
         /\ \A f \in Objects : bucket'[f] \in Int /\ bucket[f] \in Int /\ machine[j][f] \in Int
         /\ \A f \in Objects \ {moving[j]} : bucket'[f] = bucket[f]
         /\ \/ bucket' = bucket
            \/ bucket'[moving[j]] = machine[j][moving[j]]
            \/ bucket'[moving[j]] < 0
         /\ local' = local \/ bucket'[moving[j]] = local'[j][moving[j]]
         /\ local'[j][moving[j]] # 0
         /\ local'[j][moving[j]] > 0 => local'[j][moving[j]] = machine[j][moving[j]]
         /\ \A f \in Objects \ {moving[j]} : local'[j][f] = local[j][f]
<1>1. pc[j] = "put" /\ Present(j)
  BY DEF Put, PutFails, RepoInv, JobInv
<1>2. /\ moving[j] \in Objects /\ machine[j][moving[j]] # 0 /\ local[j][moving[j]] # 0
      /\ local[j][moving[j]] > 0 => local[j][moving[j]] = machine[j][moving[j]]
      /\ local[j][moving[j]] \in Int /\ machine[j][moving[j]] \in Int
  BY <1>1 DEF Present, TypeOK
<1>3. ASSUME NEW c \in Readable(j), bucket' = [bucket EXCEPT ![moving[j]] = c],
             local' = [local EXCEPT ![j][moving[j]] = c]
      PROVE  /\ \A f \in Objects : bucket'[f] \in Int
             /\ \A f \in Objects \ {moving[j]} : bucket'[f] = bucket[f]
             /\ bucket'[moving[j]] = machine[j][moving[j]] \/ bucket'[moving[j]] < 0
             /\ bucket'[moving[j]] = c /\ local'[j][moving[j]] = c /\ c # 0
             /\ c > 0 => c = machine[j][moving[j]]
             /\ \A f \in Objects \ {moving[j]} : local'[j][f] = local[j][f]
  <2>1. c \in Int /\ c # 0 /\ (c > 0 => c = machine[j][moving[j]])
    BY <1>2 DEF Readable
  <2>2. local'[j][moving[j]] = c /\ \A f \in Objects \ {moving[j]} : local'[j][f] = local[j][f]
    BY <1>2, <1>3, <2>1, Update DEF TypeOK
  <2> QED
    BY <1>2, <1>3, <2>1, <2>2 DEF TypeOK
<1>4. UNCHANGED <<bucket, local>> \/ Store(j)
  BY DEF Put, PutFails
<1>5. CASE UNCHANGED <<bucket, local>>
  BY <1>2, <1>5 DEF TypeOK
<1>6. CASE Store(j)
  <2>1. PICK c \in Readable(j) : /\ bucket' = [bucket EXCEPT ![moving[j]] = c]
                                 /\ local' = [local EXCEPT ![j][moving[j]] = c]
    BY <1>6 DEF Store
  <2>2. /\ \A f \in Objects : bucket'[f] \in Int
        /\ \A f \in Objects \ {moving[j]} : bucket'[f] = bucket[f]
        /\ bucket'[moving[j]] = machine[j][moving[j]] \/ bucket'[moving[j]] < 0
        /\ bucket'[moving[j]] = c /\ local'[j][moving[j]] = c /\ c # 0
        /\ c > 0 => c = machine[j][moving[j]]
        /\ \A f \in Objects \ {moving[j]} : local'[j][f] = local[j][f]
    BY <1>3, <2>1
  <2>3. \A f \in Objects : bucket[f] \in Int /\ machine[j][f] \in Int
    BY DEF TypeOK
  <2> QED
    BY <1>2, <2>2, <2>3
<1> QED
  BY <1>4, <1>5, <1>6

LEMMA PutInv ==
  ASSUME TypeOK, RepoInv, NEW j \in Jobs, Put(j) \/ PutFails(j)
  PROVE  JobInv(j)'
<1>1. /\ pc[j] = "put" /\ UNCHANGED <<lists, listing, etag, machine, cur, left, moving, history>>
      /\ \/ pc'[j] = "mark" /\ failed' = failed
         \/ pc'[j] = "fetch" /\ failed'[j]
      /\ rejected \subseteq rejected'
  BY DEF Put, PutFails, Goto, loop, TypeOK
<1>2. JobInv(j)
  BY DEF RepoInv
<1>3. /\ \A f \in Objects \ {moving[j]} : bucket'[f] = bucket[f]
      /\ moving[j] \in Objects /\ machine[j][moving[j]] # 0
      /\ \A f \in Objects : bucket'[f] \in Int /\ bucket[f] \in Int /\ machine[j][f] \in Int
      /\ \/ bucket' = bucket
         \/ bucket'[moving[j]] = machine[j][moving[j]]
         \/ bucket'[moving[j]] < 0
      /\ local'[j][moving[j]] # 0
      /\ local'[j][moving[j]] > 0 => local'[j][moving[j]] = machine[j][moving[j]]
      /\ \A f \in Objects \ {moving[j]} : local'[j][f] = local[j][f]
  BY Stored
<1>4. Present(j)'
  BY <1>1, <1>2, <1>3 DEF JobInv, Present, Uploading
<1>5. Complete(j)'
  BY <1>1, <1>2, <1>3 DEF JobInv, Complete, OnMachine, history
<1>6. Listed(j)'
  BY <1>1, <1>2 DEF JobInv, Listed, Indexed, Uploading, history
<1>7. Sent(j)'
  <2>1. CASE pc'[j] = "fetch" /\ failed'[j]
    BY <1>1, <2>1 DEF Sent
  <2>2. CASE pc'[j] = "mark" /\ failed' = failed
    <3>1. Put(j)
      BY <2>2 DEF PutFails, Goto, TypeOK
    <3>2. \/ moving[j] \in rejected'
          \/ /\ bucket'[moving[j]] = machine[j][moving[j]] \/ bucket'[moving[j]] < 0
             /\ bucket'[moving[j]] = local'[j][moving[j]]
      <4>1. CASE Store(j)
        <5>1. PICK c \in Readable(j) : /\ bucket' = [bucket EXCEPT ![moving[j]] = c]
                                       /\ local' = [local EXCEPT ![j][moving[j]] = c]
          BY <4>1 DEF Store
        <5>2. c \in Int /\ (c = machine[j][moving[j]] \/ c < 0)
          BY <1>1, <1>2, <1>3 DEF JobInv, Present, Readable, TypeOK
        <5>3. local'[j][moving[j]] = c
          BY <1>3, <5>1, <5>2, Update DEF TypeOK
        <5> QED
          BY <1>3, <5>1, <5>2, <5>3 DEF TypeOK
      <4> QED
        BY <3>1, <4>1 DEF Put
    <3> QED
      BY <1>1, <1>2, <1>3, <2>2, <3>2 DEF JobInv, Sent, Indexed, Uploading, history
  <2> QED
    BY <1>1, <2>1, <2>2
<1>8. Honest(j)'
  BY <1>1, <1>2, <1>3 DEF JobInv, Honest, SkipsPublished, Clean, history
<1>9. Current(j)'
  BY <1>1, <1>2, <1>3 DEF JobInv, Current, Clean, OnMachine, history
<1> QED
  BY <1>4, <1>5, <1>6, <1>7, <1>8, <1>9 DEF JobInv

LEMMA MarkInv ==
  ASSUME TypeOK, RepoInv, NEW j \in Jobs, Mark(j)
  PROVE  JobInv(j)'
<1>1. /\ pc[j] = "mark" /\ pc'[j] = "fetch"
      /\ UNCHANGED <<shared, listing, machine, loop, history>>
  BY DEF Mark, Goto, TypeOK
<1>2. JobInv(j)
  BY DEF RepoInv
<1> DEFINE m == moving[j]
<1>3. /\ m \in Objects /\ machine[j][m] # 0 /\ local[j][m] # 0
      /\ local[j][m] > 0 => local[j][m] = machine[j][m]
      /\ local[j][m] \in Int /\ machine[j][m] \in Int
  BY <1>1, <1>2 DEF JobInv, Present, TypeOK
<1>4. local \in [Jobs -> [Objects -> Int]] /\ etag \in [Jobs -> [Objects -> Int]]
  BY DEF TypeOK
<1>5. /\ local'[j][m] \in Int \ {0}
      /\ local'[j][m] \in {local[j][m], machine[j][m]}
      /\ \A x \in Objects \ {m} : local'[j][x] = local[j][x] /\ etag'[j][x] = etag[j][x]
  <2>1. PICK c \in Readable(j) : local' = [local EXCEPT ![j][m] = c]
    BY DEF Mark
  <2>2. c \in Int \ {0} /\ c \in {local[j][m], machine[j][m]}
    BY <1>3 DEF Readable
  <2>3. \E h \in Int : etag' = [etag EXCEPT ![j][m] = h]
    BY <1>3, <1>4 DEF Mark, Note, NoteFails, Readable
  <2>4. local'[j][m] = c /\ \A x \in Objects \ {m} : local'[j][x] = local[j][x]
    BY <1>3, <1>4, <2>1, <2>2, Update
  <2>5. \A x \in Objects \ {m} : etag'[j][x] = etag[j][x]
    BY <1>3, <1>4, <2>3, Update
  <2> QED
    BY <2>2, <2>4, <2>5
<1>6. Present(j)'
  BY <1>1, <1>2, <1>5 DEF JobInv, Present, Uploading, loop
<1>7. Complete(j)' /\ Listed(j)' /\ Sent(j)' /\ Current(j)'
  BY <1>1, <1>2 DEF JobInv, Complete, Listed, Sent, Current, Clean, Indexed, Uploading, OnMachine,
    shared, loop, history
<1>8. Honest(j)'
  <2>1. CASE Clean(j) /\ m \notin rejected
    <3>1. bucket[m] < 0 \/ bucket[m] = local[j][m]
      BY <1>1, <1>2, <2>1 DEF JobInv, Sent, Clean, Indexed, Uploading
    <3>2. bucket[m] > 0 => local'[j][m] = bucket[m]
      BY <1>3, <1>5, <3>1 DEF TypeOK
    <3> QED
      BY <1>1, <1>2, <1>5, <3>2 DEF JobInv, Honest, SkipsPublished, Clean, shared, loop, history
  <2>2. CASE ~(Clean(j) /\ m \notin rejected)
    BY <1>1, <1>2, <1>5, <2>2 DEF JobInv, Honest, SkipsPublished, Clean, shared, loop, history
  <2> QED
    BY <2>1, <2>2
<1> QED
  BY <1>6, <1>7, <1>8 DEF JobInv

LEMMA UploadedInv ==
  ASSUME TypeOK, RepoInv, NEW j \in Jobs, Uploaded(j)
  PROVE  JobInv(j)'
<1>1. /\ pc[j] = "fetch" /\ pc'[j] = "next" /\ left[j] = {} /\ ~failed[j]
      /\ UNCHANGED <<shared, dirs, loop, history>>
  BY DEF Uploaded, Goto, TypeOK
<1>2. JobInv(j)
  BY DEF RepoInv
<1> QED
  BY <1>1, <1>2 DEF JobInv, Present, Complete, Listed, Sent, Honest, SkipsPublished, Current, Clean, Uploading,
    OnMachine, Indexed, shared, dirs, loop, history

-----------------------------------------------------------------------------
(* The invariant: where contents come from, and the stored repodir *)

(* What a step of a job may find in a file, an object or a note. *)
Moved(j, f) ==
    /\ bucket'[f] \in {bucket[f], local[j][f], machine[j][f]}
    /\ local'[j][f] \in {0, local[j][f], saved.file[f], bucket[f], machine[j][f], Torn}
    /\ machine'[j][f] \in {0, machine[j][f], local[j][f], Torn, builds'}
    /\ machine'[j][f] = builds' => machine'[j][f] = machine[j][f] \/ builds' = builds + 1
                                    \/ machine'[j][f] = local[j][f] \/ machine'[j][f] = 0
    /\ listing'[j][f] \in {0, listing[j][f], bucket[f]}
    /\ etag'[j][f] \in {0, etag[j][f], saved.etag[f], listing[j][f], local[j][f], machine[j][f]}
    /\ saved'.file[f] \in {saved.file[f], local[j][f]}
    /\ saved'.etag[f] \in {saved.etag[f], etag[j][f]}
    /\ builds' \in {builds, builds + 1}

LEMMA EndMoves ==
  ASSUME TypeOK, NEW j \in Jobs, NEW how, End(j, how), NEW f \in Objects PROVE Moved(j, f)
<1>1. builds' = builds /\ bucket' = bucket /\ saved' \in {saved, Repodir(j)}
  BY DEF End
<1>2. local'[j][f] = 0 /\ machine'[j][f] = 0 /\ listing'[j][f] = 0 /\ etag'[j][f] = 0
  BY DEF End, Forget, Nothing, TypeOK
<1> QED
  BY <1>1, <1>2 DEF Moved, Repodir

LEMMA StepMoves ==
  ASSUME TypeOK, RepoInv, NEW j \in Jobs, Step(j), NEW f \in Objects PROVE Moved(j, f)
<1> USE DEF Moved
<1>1. CASE Start(j)
  BY <1>1 DEF Start, shared, TypeOK
<1>2. ASSUME NEW how, End(j, how) PROVE Moved(j, f)
  BY <1>2, EndMoves
<1>3. ASSUME NEW g \in Objects, Get(j, g) PROVE Moved(j, f)
  <2>1. UNCHANGED <<bucket, saved, listing, machine, builds>>
    BY <1>3 DEF Get
  <2>2. local'[j][f] \in {local[j][f], bucket[f], Torn}
    BY <1>3 DEF Get, TypeOK
  <2>3. etag'[j][f] \in {etag[j][f], listing[j][f], 0}
    BY <1>3 DEF Get, Note, NoteFails, TypeOK
  <2> QED
    BY <2>1, <2>2, <2>3
<1>4. CASE Install(j)
  <2>1. UNCHANGED <<bucket, saved, listing, local, etag, builds>>
    BY <1>4 DEF Install, shared
  <2>2. machine'[j][f] \in {local[j][f], Torn}
    BY <1>4 DEF Install, TypeOK
  <2>3. Torn < 0 /\ builds' \in Nat
    BY <2>1, TornType DEF TypeOK
  <2> QED
    BY <2>1, <2>2, <2>3
<1>5. CASE Build(j)
  <2>1. UNCHANGED <<bucket, saved, listing, local, etag>> /\ builds' = builds + 1
    BY <1>5 DEF Build
  <2>2. machine'[j][f] \in {machine[j][f], builds'}
    BY <1>5, <2>1 DEF Build, TypeOK
  <2> QED
    BY <2>1, <2>2
<1>6. ASSUME NEW g \in Objects, Fetch(j, g) PROVE Moved(j, f)
  <2>1. UNCHANGED <<bucket, saved, listing, etag, machine, builds>>
    BY <1>6 DEF Fetch, shared
  <2>2. local'[j][f] \in {local[j][f], machine[j][f], Torn}
    BY <1>6 DEF Fetch, TypeOK
  <2> QED
    BY <2>1, <2>2
<1>7. CASE Put(j) \/ PutFails(j)
  <2>1. UNCHANGED <<saved, listing, etag, machine, builds>>
    BY <1>7 DEF Put, PutFails
  <2>2. UNCHANGED <<bucket, local>> \/ Store(j)
    BY <1>7 DEF Put, PutFails
  <2>3. bucket'[f] \in {bucket[f], local[j][f], machine[j][f]}
    BY <2>2 DEF Store, Readable, TypeOK
  <2>4. local'[j][f] \in {local[j][f], machine[j][f]}
    BY <2>2 DEF Store, Readable, TypeOK
  <2> QED
    BY <2>1, <2>3, <2>4
<1>8. CASE Mark(j)
  <2>1. UNCHANGED <<bucket, saved, listing, machine, builds>>
    BY <1>8 DEF Mark, shared
  <2>2. local'[j][f] \in {local[j][f], machine[j][f]}
    BY <1>8 DEF Mark, Readable, TypeOK
  <2>3. etag'[j][f] \in {etag[j][f], local[j][f], machine[j][f], 0}
    BY <1>8 DEF Mark, Readable, Note, NoteFails, TypeOK
  <2> QED
    BY <2>1, <2>2, <2>3
<1>9. CASE Select(j) \/ (\E p \in Pkgs : NextPackage(j, p)) \/ IndexMachine(j) \/ Uploaded(j)
  BY <1>9 DEF Select, NextPackage, IndexMachine, Uploaded, shared, dirs
<1> QED
  BY <1>1, <1>2, <1>3, <1>4, <1>5, <1>6, <1>7, <1>8, <1>9
  DEF Step, EverythingUpToDate, Finish, UploadFailed, Fails, Kill

(* The values involved, for the arithmetic. *)
LEMMA Values ==
  ASSUME TypeOK, NEW f \in Objects
  PROVE  /\ bucket[f] \in Int /\ saved.file[f] \in Int /\ saved.etag[f] \in Int
         /\ builds \in Nat /\ Torn \in Int /\ Torn < 0
         /\ \A j \in Jobs : /\ local[j][f] \in Int /\ machine[j][f] \in Int
                           /\ listing[j][f] \in Int /\ etag[j][f] \in Int
  BY TornType DEF TypeOK

(* What is gone stays gone. *)
LEMMA GoneStep ==
  ASSUME TypeOK, RepoInv, NEW j \in Jobs, Step(j), NEW f \in Objects,
         NEW e \in Int, e > 0, Gone(f, e)
  PROVE  Gone(f, e)'
<1>1. Moved(j, f)
  BY StepMoves
<1>2. bucket[f] # e /\ saved.file[f] # e /\ local[j][f] # e /\ machine[j][f] # e /\ e <= builds
  BY DEF Gone
<1>3. builds \in Nat /\ Torn < 0 /\ Torn \in Int
  BY Values
<1>4. e <= builds' /\ (builds' = builds + 1 => builds' # e)
  BY <1>1, <1>2, <1>3 DEF Moved
<1>5. bucket'[f] # e /\ saved'.file[f] # e
  BY <1>1, <1>2 DEF Moved
<1>6. local'[j][f] # e
  BY <1>1, <1>2, <1>3 DEF Moved
<1>7. machine'[j][f] # e
  BY <1>1, <1>2, <1>3, <1>4 DEF Moved
<1>8. \A k \in Jobs \ {j} : local'[k][f] # e /\ machine'[k][f] # e
  BY StepApart DEF Apart, Gone
<1> QED
  BY <1>4, <1>5, <1>6, <1>7, <1>8 DEF Gone

LEMMA NumberedStep ==
  ASSUME TypeOK, RepoInv, NEW j \in Jobs, Step(j) PROVE Numbered'
<1> SUFFICES ASSUME NEW f \in Objects
             PROVE  /\ bucket'[f] <= builds' /\ saved'.file[f] <= builds' /\ saved'.etag[f] <= builds'
                    /\ \A k \in Jobs : /\ listing'[k][f] <= builds' /\ local'[k][f] <= builds'
                                      /\ etag'[k][f] <= builds' /\ machine'[k][f] <= builds'
  BY DEF Numbered
<1>1. Moved(j, f)
  BY StepMoves
<1>2. /\ bucket[f] <= builds /\ saved.file[f] <= builds /\ saved.etag[f] <= builds
      /\ \A k \in Jobs : /\ listing[k][f] <= builds /\ local[k][f] <= builds
                        /\ etag[k][f] <= builds /\ machine[k][f] <= builds
  BY DEF RepoInv, Numbered
<1>3. /\ bucket[f] \in Int /\ saved.file[f] \in Int /\ saved.etag[f] \in Int
      /\ builds \in Nat /\ Torn \in Int /\ Torn < 0
      /\ \A k \in Jobs : /\ local[k][f] \in Int /\ machine[k][f] \in Int
                        /\ listing[k][f] \in Int /\ etag[k][f] \in Int
  BY Values
<1>4. builds' \in Nat /\ builds <= builds'
  BY <1>1, <1>3 DEF Moved
<1>5. bucket'[f] <= builds' /\ saved'.file[f] <= builds' /\ saved'.etag[f] <= builds'
  BY <1>1, <1>2, <1>3, <1>4 DEF Moved
<1>6. /\ listing'[j][f] <= builds' /\ local'[j][f] <= builds'
      /\ etag'[j][f] <= builds' /\ machine'[j][f] <= builds'
  BY <1>1, <1>2, <1>3, <1>4 DEF Moved
<1>7. ASSUME NEW k \in Jobs, k # j
      PROVE  /\ listing'[k][f] <= builds' /\ local'[k][f] <= builds'
             /\ etag'[k][f] <= builds' /\ machine'[k][f] <= builds'
  <2>1. Apart(j, k)
    BY <1>7, StepApart
  <2> QED
    BY <1>2, <1>3, <1>4, <2>1 DEF Apart
<1> QED
  BY <1>5, <1>6, <1>7

(* What a clean run stores: a note that is not of the file beside it is of *)
(* contents that are neither published nor in the repodir, and by the end  *)
(* of the run, which was the only one, nowhere else.                       *)
LEMMA StoredHonest ==
  ASSUME TypeOK, RepoInv, NEW j \in Jobs, EverythingUpToDate(j) \/ Finish(j)
  PROVE  SavedPresent' /\ SavedHonest'
<1>1. /\ saved' = Repodir(j) /\ pc[j] \in {"download", "next"} /\ Forget(j)
      /\ UNCHANGED <<bucket, rejected, builds>>
  BY DEF EverythingUpToDate, Finish, End, Downloaded
<1>2. JobInv(j) /\ Lone /\ Numbered
  BY DEF RepoInv
<1>3. ~failed[j] /\ \A f \in Objects : etag[j][f] # 0 => local[j][f] # 0
  BY <1>1, <1>2 DEF JobInv, Present, Uploading
<1>4. SavedPresent'
  BY <1>1, <1>3 DEF Repodir, SavedPresent
<1>5. ASSUME Clean(j), NEW f \in Objects \ rejected, NEW e, e = etag[j][f], e > 0,
             e # local[j][f]
      PROVE  Gone(f, e)'
  <2>1. e <= builds /\ e \in Int /\ bucket[f] \in Int
    BY <1>2, <1>5, Values DEF Numbered
  <2>2. bucket[f] # e
    BY <1>1, <1>2, <1>3, <1>5, <2>1 DEF JobInv, Honest, SkipsPublished
  <2>3. local'[j] = Nothing /\ machine'[j] = Nothing
    BY <1>1 DEF Forget, TypeOK
  <2>4. ASSUME NEW k \in Jobs, k # j PROVE local'[k] = Nothing /\ machine'[k] = Nothing
    <3>1. pc[k] = "idle" /\ JobInv(k)
      BY <1>2, <1>5, <2>4 DEF Lone, Clean, RepoInv
    <3> QED
      BY <1>1, <2>4, <3>1 DEF JobInv, Present, Forget, TypeOK
  <2>5. \A k \in Jobs : local'[k][f] = 0 /\ machine'[k][f] = 0
    BY <2>3, <2>4 DEF Nothing
  <2>6. saved'.file[f] = local[j][f]
    BY <1>1 DEF Repodir
  <2> QED
    BY <1>1, <1>5, <2>1, <2>2, <2>5, <2>6 DEF Gone
<1>6. SavedHonest'
  <2>1. /\ saved'.clean = Clean(j)
        /\ \A f \in Objects : saved'.etag[f] = etag[j][f] /\ saved'.file[f] = local[j][f]
    BY <1>1 DEF Repodir
  <2>2. \A f \in Objects : etag[j][f] \in Int
    BY DEF TypeOK
  <2>3. ASSUME saved'.clean, NEW f \in Objects \ rejected', ~(saved'.etag[f] <= 0),
               saved'.etag[f] # saved'.file[f]
        PROVE  Gone(f, saved.etag[f])'
    BY <1>1, <1>5, <2>1, <2>2, <2>3 DEF Gone
  <2> QED
    BY <2>3 DEF SavedHonest
<1> QED
  BY <1>4, <1>6

LEMMA SavedInv ==
  ASSUME TypeOK, RepoInv, NEW j \in Jobs, Step(j)
  PROVE  SavedPresent' /\ SavedHonest'
<1>1. CASE saved' = saved /\ rejected \subseteq rejected'
  <2>1. ASSUME saved.clean, NEW f \in Objects \ rejected', saved.etag[f] > 0,
               saved.etag[f] # saved.file[f]
        PROVE  Gone(f, saved.etag[f])'
    <3>1. saved.etag[f] \in Int
      BY Values
    <3>2. Gone(f, saved.etag[f])
      BY <1>1, <2>1, <3>1 DEF RepoInv, SavedHonest
    <3>3. ASSUME NEW e \in Int, e = saved.etag[f] PROVE Gone(f, e)'
      BY <2>1, <3>2, <3>3, GoneStep
    <3> QED
      BY <1>1, <3>1, <3>3 DEF Gone
  <2>2. \A f \in Objects : saved.etag[f] \in Int
    BY Values
  <2> QED
    BY <1>1, <2>1, <2>2 DEF RepoInv, SavedPresent, SavedHonest
<1>2. CASE EverythingUpToDate(j) \/ Finish(j)
  BY <1>2, StoredHonest
<1>3. CASE UploadFailed(j) \/ Fails(j) \/ Kill(j)
  BY <1>3, <1>1 DEF UploadFailed, Fails, Kill, End
<1> QED
  BY <1>1, <1>2, <1>3 DEF Step, Start, Get, Select, Install, NextPackage, Build, IndexMachine,
    Fetch, Put, PutFails, Mark, Uploaded, shared

LEMMA StepInv == ASSUME TypeOK, RepoInv, NEW j \in Jobs, Step(j) PROVE RepoInv'
<1>1. JobInv(j)'
  <2>1. ASSUME NEW how, End(j, how) PROVE JobInv(j)'
    BY <2>1, EndInv
  <2> QED
    BY <2>1, StartInv, GetInv, SelectInv, InstallInv, NextPackageInv, BuildInv, IndexInv, FetchInv,
      PutInv, MarkInv, UploadedInv
    DEF Step, EverythingUpToDate, Finish, UploadFailed, Fails, Kill
<1>2. \A k \in Jobs \ {j} : JobInv(k)'
  BY OthersInv
<1>3. \A k \in Jobs : JobInv(k)'
  BY <1>1, <1>2
<1>4. RepoInv' = (Lone' /\ SavedPresent' /\ Numbered' /\ SavedHonest' /\ \A k \in Jobs : JobInv(k)')
  BY DEF RepoInv
<1> QED
  BY <1>3, <1>4, LoneStep, NumberedStep, SavedInv

(* A release and a step that changes nothing. *)
LEMMA ReleaseInv ==
  ASSUME TypeOK, RepoInv, (\E p \in Pkgs : Release(p)) \/ UNCHANGED vars
  PROVE  TypeOK' /\ RepoInv'
<1>1. /\ UNCHANGED <<bucket, lists, saved, rejected, pc, outcome, dirs, loop, history, builds>>
      /\ faults' = faults /\ wanted' \subseteq Pkgs
  BY DEF Release, NoFault, vars, shared, TypeOK
<1>2. TypeOK'
  BY <1>1 DEF TypeOK, dirs, loop, history
<1>3. ASSUME NEW j \in Jobs PROVE JobInv(j)'
  <2>1. JobInv(j)
    BY DEF RepoInv
  <2> QED
    BY <1>1, <2>1 DEF JobInv, Present, Complete, Listed, Sent, Honest, SkipsPublished, Current, Clean, Uploading,
      OnMachine, Indexed, dirs, loop, history
<1>4. Lone' /\ SavedPresent' /\ Numbered' /\ SavedHonest'
  BY <1>1 DEF RepoInv, Lone, SavedPresent, Numbered, SavedHonest, Gone, dirs, history
<1>5. RepoInv' = (Lone' /\ SavedPresent' /\ Numbered' /\ SavedHonest' /\ \A k \in Jobs : JobInv(k)')
  BY DEF RepoInv
<1> QED
  BY <1>2, <1>3, <1>4, <1>5

LEMMA Inductive == TypeOK /\ RepoInv /\ [Next]_vars => (TypeOK /\ RepoInv)'
<1> SUFFICES ASSUME TypeOK, RepoInv, [Next]_vars PROVE TypeOK' /\ RepoInv'
  OBVIOUS
<1>1. ASSUME NEW j \in Jobs, Step(j) PROVE TypeOK' /\ RepoInv'
  <2>1. Present(j)
    BY DEF RepoInv, JobInv
  <2> QED
    BY <1>1, <2>1, StepType, StepInv
<1> QED
  BY <1>1, ReleaseInv DEF Next

LEMMA Invariant == Spec => [](TypeOK /\ RepoInv)
<1>1. Init => TypeOK /\ RepoInv
  BY InitTypeOK, InitInv
<1> QED
  BY <1>1, Inductive, PTL DEF Spec

-----------------------------------------------------------------------------
(* Theorems *)

(* Every value the jobs and the store hold keeps its type. *)
THEOREM TypeCorrect == Spec => []TypeOK
  BY Invariant, PTL

(* After upload_repo_changes of a job that ran alone, the index of the     *)
(* published repository lists exactly the published files, but for objects *)
(* whose upload was rejected or torn (server/upcloud/mod.rs 178-209).      *)
THEOREM IndexIsClosed == Spec => []IndexClosed
<1>1. TypeOK /\ RepoInv => IndexClosed
  <2> SUFFICES ASSUME TypeOK, RepoInv, NEW j \in Jobs, pc[j] = "next", cur[j] # NoPkg, alone[j]
               PROVE  Closed
    BY DEF IndexClosed
  <2>1. JobInv(j) /\ Indexed(j) /\ left[j] = {} /\ ~failed[j]
    BY DEF RepoInv, JobInv, Present, Sent, Indexed, Uploading
  <2>2. /\ machine[j][Index] \in 1..MaxBuilds
        /\ lists[machine[j][Index]] = Whole(machine[j])
    BY <2>1 DEF JobInv, Listed
  <2>3. \A f \in Objects : \/ machine[j][f] = 0 \/ f \in rejected
                           \/ bucket[f] < 0 \/ bucket[f] = machine[j][f]
    BY <2>1 DEF JobInv, Sent
  <2>4. \A f \in Objects : bucket[f] # 0 => machine[j][f] # 0
    BY <2>1 DEF JobInv, Complete, OnMachine
  <2>5. Index \in Objects /\ Files \subseteq Objects
    BY DEF Objects
  <2>6. \A f \in Files : bucket[f] \in Int /\ machine[j][f] \in Int
    BY <2>5 DEF TypeOK
  <2>7. SUFFICES ASSUME Index \notin rejected, ~(bucket[Index] < 0)
                 PROVE  /\ bucket[Index] > 0
                        /\ \A f \in Files : \/ f \in rejected
                                            \/ bucket[f] < 0
                                            \/ lists[bucket[Index]][f] = bucket[f]
    BY DEF Closed
  <2>8. bucket[Index] = machine[j][Index] /\ bucket[Index] > 0
    BY <2>2, <2>3, <2>5, <2>7
  <2>9. ASSUME NEW f \in Files, f \notin rejected, ~(bucket[f] < 0)
        PROVE  Whole(machine[j])[f] = bucket[f]
    <3>1. bucket[f] = machine[j][f]
      BY <2>3, <2>4, <2>5, <2>9
    <3> QED
      BY <2>6, <2>9, <3>1 DEF Whole
  <2> QED
    BY <2>2, <2>8, <2>9
<1> QED
  BY <1>1, Invariant, PTL

(* What the next repo::download skips (repo.rs 36-49) is what is published *)
(* for every object without a rejected request, if the stored repodir      *)
(* comes from runs that were alone: also where .etag files could not be    *)
(* created or written, which repo.rs 64-73 and 114-123 only log, and       *)
(* whatever fails or overlaps after the repodir was stored.                *)
THEOREM SkippedFilesAreCurrent == Spec => []SkippedIsPublished
<1>1. TypeOK /\ RepoInv => SkippedIsPublished
  BY SavedSkips DEF RepoInv
<1> QED
  BY <1>1, Invariant, PTL

(* No step of upload_repo_changes of a clean job (server/upcloud/mod.rs    *)
(* 197-208, repo.rs 80-126) takes from a client a file it has not built.   *)
THEOREM NothingIsTaken == Spec => StaysInstallable
<1> DEFINE Taken ==
      \A j \in Jobs, f \in Files :
          /\ pc[j] = "put" /\ pc'[j] # "put" /\ Clean(j)
          /\ Installable(f) /\ f \notin written[j] \cup rejected
          /\ machine[j][f] >= 0 /\ bucket'[f] >= 0 /\ bucket'[Index] >= 0
          => Installable(f)'
<1>1. ASSUME TypeOK, RepoInv, [Next]_vars PROVE [Taken]_vars
  <2> SUFFICES ASSUME NEW j \in Jobs, NEW f \in Files,
                      pc[j] = "put", pc'[j] # "put", Clean(j),
                      Installable(f), f \notin written[j] \cup rejected,
                      machine[j][f] >= 0, bucket'[f] >= 0, bucket'[Index] >= 0
               PROVE  Installable(f)'
    OBVIOUS
  <2>1. ASSUME NEW k \in Jobs, Step(k) PROVE k = j
    BY <1>1, <2>1, StepApart DEF Apart
  <2>2. Put(j) \/ PutFails(j) \/ Kill(j)
    <3>1. Step(j)
      BY <1>1, <2>1 DEF Next, Release, vars
    <3> QED
      BY <3>1 DEF Step, Start, Get, Select, Downloaded, EverythingUpToDate, Install, NextPackage,
        Build, Finish, IndexMachine, Fetch, Mark, Uploaded, UploadFailed, Fails
  <2>3. CASE Kill(j)
    BY <2>3 DEF Kill, End, Installable
  <2>4. CASE Put(j) \/ PutFails(j)
    <3>1. /\ \A x \in Objects \ {moving[j]} : bucket'[x] = bucket[x]
          /\ \A x \in Objects : bucket'[x] \in Int /\ bucket[x] \in Int /\ machine[j][x] \in Int
          /\ \/ bucket' = bucket
             \/ bucket'[moving[j]] = machine[j][moving[j]]
             \/ bucket'[moving[j]] < 0
      BY <1>1, <2>4, Stored
    <3>2. f \in Objects /\ Index \in Objects /\ lists' = lists
      BY <2>4 DEF Objects, Put, PutFails
    <3>3. machine[j][f] = bucket[f]
      BY <1>1, <3>1, <3>2 DEF RepoInv, JobInv, Current, OnMachine, Installable
    <3>4. /\ machine[j][Index] \in 1..MaxBuilds
          /\ lists[machine[j][Index]] = Whole(machine[j])
      BY <1>1 DEF RepoInv, JobInv, Listed, Indexed, Uploading, Clean
    <3>5. Whole(machine[j])[f] = bucket[f]
      BY <3>1, <3>2, <3>3 DEF Whole, Installable
    <3> QED
      BY <3>1, <3>2, <3>3, <3>4, <3>5 DEF Installable
  <2> QED
    BY <2>2, <2>3, <2>4
<1>2. TypeOK /\ RepoInv /\ [Next]_vars => [Taken]_vars
  BY <1>1
<1> QED
  BY <1>2, Invariant, PTL DEF Spec, StaysInstallable
=============================================================================
