--------------------------- MODULE BuildOrderProofs ---------------------------
(***************************************************************************)
(* Theorems about BuildOrder, for any versions, any number of releases,    *)
(* failures and changes of the alpine release.                             *)
(***************************************************************************)
EXTENDS BuildOrder, TLAPS

(* Strengthenings of the invariants *)

(* config.toml has every version up to its stable one, and is at most one  *)
(* release behind.                                                         *)
ConfigOK(f) == /\ f[stable] \in (First + 1)..Last
               /\ \A k \in Minors : f[k] = IF k <= f[stable] THEN k ELSE 0
ConfigInv == /\ ConfigOK(git) /\ ConfigOK(conf)
             /\ released \in {git[stable], git[stable] + 1}
             /\ pc = "config" => conf = git

(* What is not in the repository is still to be built, and nothing that    *)
(* is still to be built comes before the package being built.              *)
LoopInv ==
    /\ \A k \in Minors : published[k] \subseteq {k} /\ mounted[k] \subseteq {k}
    /\ pc \in {"next", "build", "upload"} =>
          /\ \A c \in todo : conf[c] # 0 /\ c # beta
          /\ \A c \in Channels \ {beta} : conf[c] # 0 =>
                \/ conf[c] \in mounted[c]
                \/ c \in todo
                \/ pc = "build" /\ c = cur
    /\ pc \in {"build", "upload"} => cur \in Channels \ {beta} /\ conf[cur] # 0
    /\ pc = "build" => \A d \in todo : ~Less(d, cur)

(* What is built or still to be built is in config.toml. *)
CurInv ==
    /\ pc \in {"next", "build", "upload"} => \A c \in todo : conf[c] # 0
    /\ pc \in {"build", "upload"} => cur \in Channels /\ conf[cur] # 0

PatchInv ==
    \A c \in Channels : /\ git[c] # 0 => git[c] \in patches
                        /\ conf[c] # 0 => conf[c] \in patches

-----------------------------------------------------------------------------
USE DEF Minors, Channels, Configs, Packages

LEMMA InitType == Init => TypeOK
<1> SUFFICES ASSUME Init PROVE TypeOK
  OBVIOUS
<1>1. InitialConfig \in Configs
  BY VersionAssumption, NameAssumption DEF InitialConfig
<1>2. published \in Packages
  BY <1>1, VersionAssumption, NameAssumption DEF Init, InitialConfig
<1>3. mounted \in Packages
  BY DEF Init, NoPackages
<1>4. released \in First..(Last - 1) /\ patches \subseteq Minors
  BY VersionAssumption DEF Init
<1> QED
  BY <1>1, <1>2, <1>3, <1>4, BoundAssumption DEF Init, TypeOK

LEMMA FaultType == ASSUME TypeOK, NEW k, Fault(k) \/ NoFault PROVE faults' \in 0..MaxFaults
  BY BoundAssumption DEF TypeOK, Fault, NoFault

(* Where a run ends, only the configuration and the packages outlive it.   *)
LEMMA EndType ==
  ASSUME EndRun
  PROVE  /\ pc' = "idle" /\ mounted' \in Packages /\ todo' \subseteq Channels
         /\ cur' \in Channels \cup {NoChannel}
  BY DEF EndRun, NoPackages

LEMMA OfferedType == ASSUME TypeOK, NEW c PROVE Offered(c) \in Minors
  BY VersionAssumption DEF TypeOK, Offered

LEMMA PatchedType == ASSUME TypeOK, NEW U PROVE Patched(U) \subseteq Minors
  BY OfferedType DEF TypeOK, Patched

LEMMA TypeStep == TypeOK /\ CurInv /\ [Next]_vars => TypeOK'
<1> SUFFICES ASSUME TypeOK, CurInv, [Next]_vars PROVE TypeOK'
  OBVIOUS
<1> USE DEF TypeOK
<1>0. CASE Release
  BY <1>0, VersionAssumption DEF Release, run
<1>1. CASE RaiseAlpine
  BY <1>1, BoundAssumption DEF RaiseAlpine, NoPackages, run
<1>11. CASE Start
  BY <1>11 DEF Start
<1>2. ASSUME NEW U \in SUBSET {stable, beta}, UpdateConfig(U) PROVE TypeOK'
  <2>1. conf' \in Configs
    BY <1>2, OfferedType, VersionAssumption DEF UpdateConfig
  <2>2. git' \in Configs
    BY <1>2, <2>1 DEF UpdateConfig
  <2>3. patches' \subseteq Minors
    BY <1>2, PatchedType DEF UpdateConfig
  <2>4. faults' \in 0..MaxFaults
    BY <1>2, FaultType DEF UpdateConfig
  <2> QED
    BY <1>2, <2>1, <2>2, <2>3, <2>4 DEF UpdateConfig
<1>3. CASE UpdateFails
  <2>1. faults' \in 0..MaxFaults
    BY <1>3, FaultType DEF UpdateFails
  <2>2. patches' \subseteq Minors
    BY <1>3, PatchedType DEF UpdateFails
  <2> QED
    BY <1>3, <2>1, <2>2, EndType DEF UpdateFails
<1>4. CASE Select
  BY <1>4, EndType DEF Select, Missing
<1>5. ASSUME NEW c \in Channels, NextPackage(c) PROVE TypeOK'
  BY <1>5 DEF NextPackage
<1>6. CASE LoopDone
  BY <1>6, EndType DEF LoopDone
<1>7. CASE Build
  <2>1. cur \in Channels /\ conf[cur] \in Minors
    BY <1>7, NameAssumption, VersionAssumption DEF Build, CurInv
  <2>2. mounted' \in Packages
    BY <1>7, <2>1 DEF Build
  <2> QED
    BY <1>7, <2>2 DEF Build
<1>8. CASE BuildFails
  BY <1>8, EndType, FaultType DEF BuildFails
<1>9. CASE UploadRepoChanges
  BY <1>9 DEF UploadRepoChanges
<1>10. CASE UNCHANGED vars
  BY <1>10 DEF vars, run
<1> QED
  BY <1>0, <1>1, <1>2, <1>3, <1>4, <1>5, <1>6, <1>7, <1>8, <1>9, <1>10, <1>11 DEF Next

LEMMA CurStep == TypeOK /\ CurInv /\ [Next]_vars => CurInv'
<1> SUFFICES ASSUME TypeOK, CurInv, [Next]_vars PROVE CurInv'
  OBVIOUS
<1>1. CASE Release \/ RaiseAlpine \/ LoopDone \/ BuildFails \/ UpdateFails
  BY <1>1 DEF Release, RaiseAlpine, LoopDone, BuildFails, UpdateFails, EndRun, CurInv, run
<1>2. CASE Start \/ (\E U \in SUBSET {stable, beta} : UpdateConfig(U))
  BY <1>2 DEF Start, UpdateConfig, CurInv
<1>3. CASE Select
  BY <1>3 DEF Select, Missing, EndRun, CurInv
<1>4. CASE (\E c \in Channels : NextPackage(c)) \/ Build \/ UploadRepoChanges
  BY <1>4 DEF NextPackage, Build, UploadRepoChanges, CurInv
<1>5. CASE UNCHANGED vars
  BY <1>5 DEF vars, run, CurInv
<1> QED
  BY <1>1, <1>2, <1>3, <1>4, <1>5 DEF Next

LEMMA TypeInvariant == Spec => [](TypeOK /\ CurInv)
<1>1. Init => CurInv
  BY DEF Init, CurInv
<1> QED
  BY <1>1, InitType, TypeStep, CurStep, PTL DEF Spec

(* Every variable keeps its type, whatever the releases and the command    *)
(* line.                                                                   *)
THEOREM TypeCorrect == Spec => []TypeOK
  BY TypeInvariant, PTL

-----------------------------------------------------------------------------
(* The patches *)

LEMMA PatchStep == TypeOK /\ PatchInv /\ [Next]_vars => PatchInv'
<1> SUFFICES ASSUME TypeOK, PatchInv, [Next]_vars PROVE PatchInv'
  OBVIOUS
<1>1. ASSUME NEW U \in SUBSET {stable, beta}, UpdateConfig(U) PROVE PatchInv'
  <2>1. \A c \in Channels : conf'[c] \in {Offered(d) : d \in U} \cup {conf[c]}
    BY <1>1 DEF UpdateConfig, Offered
  <2>2. patches' = patches \cup {Offered(d) : d \in U}
    BY <1>1 DEF UpdateConfig, Patched
  <2>3. \A c \in Channels : conf'[c] # 0 => conf'[c] \in patches'
    BY <2>1, <2>2 DEF PatchInv
  <2>4. CASE git' = conf'
    BY <2>3, <2>4 DEF PatchInv
  <2>5. CASE git' = git
    BY <2>2, <2>3, <2>5 DEF PatchInv
  <2> QED
    BY <1>1, <2>4, <2>5 DEF UpdateConfig
<1>2. CASE UpdateFails
  <2>1. patches \subseteq patches'
    BY <1>2 DEF UpdateFails, Patched
  <2>2. git' = git /\ conf' = conf
    BY <1>2 DEF UpdateFails
  <2> QED
    BY <2>1, <2>2 DEF PatchInv
<1>3. CASE Start
  BY <1>3 DEF Start, PatchInv
<1>4. CASE Release \/ RaiseAlpine \/ Select \/ (\E c \in Channels : NextPackage(c))
            \/ LoopDone \/ Build \/ BuildFails \/ UploadRepoChanges
  BY <1>4 DEF Release, RaiseAlpine, Select, NextPackage, LoopDone, Build, BuildFails,
              UploadRepoChanges, PatchInv, run
<1>5. CASE UNCHANGED vars
  BY <1>5 DEF vars, run, PatchInv
<1> QED
  BY <1>1, <1>2, <1>3, <1>4, <1>5 DEF Next

LEMMA PatchInvariant == Spec => []PatchInv
<1>1. ASSUME Init PROVE PatchInv
  <2>1. ASSUME NEW c \in Channels, InitialConfig[c] # 0
        PROVE  InitialConfig[c] \in First..(Current + 1)
    <3>1. CASE c = stable \/ c = beta
      BY <3>1, VersionAssumption, NameAssumption DEF InitialConfig
    <3>2. CASE c \in Minors
      BY <2>1, <3>2, VersionAssumption, NameAssumption DEF InitialConfig
    <3> QED
      BY <3>1, <3>2
  <2> QED
    BY <1>1, <2>1 DEF Init, PatchInv
<1> QED
  BY <1>1, PatchStep, TypeInvariant, PTL DEF Spec

(* Wherever an update breaks off, every channel of the committed           *)
(* config.toml has the branch with its patches.                            *)
THEOREM SourcesArePatched == Spec => []PatchesExist
<1>1. PatchInv => PatchesExist
  BY DEF PatchInv, PatchesExist
<1> QED
  BY <1>1, PatchInvariant, PTL

-----------------------------------------------------------------------------
(* The configuration *)

LEMMA InitConfigInv == Init => ConfigInv
<1> SUFFICES ASSUME Init PROVE ConfigInv
  OBVIOUS
<1>1. ConfigOK(InitialConfig)
  BY VersionAssumption, NameAssumption DEF ConfigOK, InitialConfig
<1>2. git[stable] = released
  BY VersionAssumption, NameAssumption DEF Init, InitialConfig
<1> QED
  BY <1>1, <1>2 DEF Init, ConfigInv

(* An update of stable appends the release to the versions; one of beta    *)
(* leaves them alone.                                                      *)
LEMMA UpdateKeepsConfig ==
  ASSUME TypeOK, ConfigInv, NEW U \in SUBSET {stable, beta}, UpdateConfig(U)
  PROVE  ConfigOK(conf') /\ conf'[stable] \in {conf[stable], released}
<1>1. \A c \in Channels : conf'[c] = IF c \in U THEN Offered(c)
                                     ELSE IF stable \in U /\ c = released THEN released
                                     ELSE conf[c]
  BY DEF UpdateConfig
<1>2. conf[stable] \in (First + 1)..Last /\ conf = git /\ U \subseteq Outdated
  BY DEF ConfigInv, ConfigOK, UpdateConfig
<1>3. CASE stable \in U
  <2>1. released = conf[stable] + 1
    BY <1>2, <1>3 DEF Outdated, Offered, ConfigInv
  <2>2. conf'[stable] = released
    BY <1>1, <1>3 DEF Offered
  <2>3. ASSUME NEW k \in Minors PROVE conf'[k] = IF k <= released THEN k ELSE 0
    <3>1. k \notin U
      BY NameAssumption
    <3>2. conf[k] = IF k <= conf[stable] THEN k ELSE 0
      BY DEF ConfigInv, ConfigOK
    <3>3. conf'[k] = IF k = released THEN released ELSE conf[k]
      BY <1>1, <1>3, <3>1
    <3> QED
      BY <2>1, <3>2, <3>3, <1>2, VersionAssumption
  <2> QED
    BY <1>2, <2>1, <2>2, <2>3, VersionAssumption DEF ConfigOK, TypeOK
<1>4. CASE stable \notin U
  <2>1. conf'[stable] = conf[stable]
    BY <1>1, <1>4, NameAssumption DEF TypeOK
  <2>2. ASSUME NEW k \in Minors PROVE conf'[k] = conf[k]
    BY <1>1, <1>4, NameAssumption
  <2> QED
    BY <2>1, <2>2 DEF ConfigInv, ConfigOK
<1> QED
  BY <1>3, <1>4

LEMMA ConfigStep ==
  ASSUME Lag = 0 PROVE TypeOK /\ ConfigInv /\ [Next]_vars => ConfigInv'
<1> SUFFICES ASSUME TypeOK, ConfigInv, [Next]_vars PROVE ConfigInv'
  OBVIOUS
<1>0. git[stable] \in Nat /\ released \in Nat
  BY VersionAssumption DEF ConfigInv, ConfigOK, TypeOK
<1>1. CASE Release
  BY <1>0, <1>1 DEF Release, ConfigInv, run
<1>2. CASE RaiseAlpine \/ Select \/ (\E c \in Channels : NextPackage(c)) \/ LoopDone
            \/ Build \/ BuildFails \/ UploadRepoChanges \/ UpdateFails
  BY <1>2 DEF RaiseAlpine, Select, NextPackage, LoopDone, Build, BuildFails,
              UploadRepoChanges, UpdateFails, EndRun, ConfigInv, run
<1>3. CASE Start
  BY <1>3 DEF Start, ConfigInv
<1>4. ASSUME NEW U \in SUBSET {stable, beta}, UpdateConfig(U) PROVE ConfigInv'
  <2>1. ConfigOK(conf') /\ conf'[stable] \in {conf[stable], released}
    BY <1>4, UpdateKeepsConfig
  <2>2. conf = git /\ released' = released /\ pc' = "select" /\ git' \in {conf', git}
    BY <1>4 DEF UpdateConfig, ConfigInv
  <2> QED
    BY <1>0, <2>1, <2>2 DEF ConfigInv
<1>5. CASE UNCHANGED vars
  BY <1>5 DEF vars, run, ConfigInv
<1> QED
  BY <1>1, <1>2, <1>3, <1>4, <1>5 DEF Next
-----------------------------------------------------------------------------
(* The order of the builds *)

(* Among names of one length the order of strings is the order of the      *)
(* versions, so that a versioned channel comes right behind its compiler.  *)
LEMMA DigitOrder ==
  ASSUME 10 <= First, Last <= 99, NEW k \in Minors, k + 1 \in Minors
  PROVE  Less(k, k + 1)
<1>1. k \in 10..98
  BY VersionAssumption
<1>2. Digits(k) = <<k \div 10, k % 10>> /\ Digits(k + 1) = <<(k + 1) \div 10, (k + 1) % 10>>
  BY <1>1 DEF Digits
<1>3. CASE k \div 10 = (k + 1) \div 10
  <2>1. k % 10 < (k + 1) % 10
    BY <1>1, <1>3
  <2>2. StrLess(<<k \div 10, k % 10>>, <<(k + 1) \div 10, (k + 1) % 10>>)
    BY <1>3, <2>1 DEF StrLess
  <2> QED
    BY <1>2, <2>2 DEF Less
<1>4. CASE k \div 10 # (k + 1) \div 10
  <2>1. k \div 10 < (k + 1) \div 10
    BY <1>1, <1>4
  <2>2. StrLess(<<k \div 10, k % 10>>, <<(k + 1) \div 10, (k + 1) % 10>>)
    BY <2>1 DEF StrLess
  <2> QED
    BY <1>2, <2>2 DEF Less
<1> QED
  BY <1>3, <1>4

(* The heart of it: what a package needs is either in the repository or    *)
(* would have been built before it.                                        *)
LEMMA LoopBoot ==
  ASSUME 10 <= First, Last <= 99, ConfigInv, LoopInv
  PROVE  BootReady
<1> SUFFICES ASSUME pc = "build", cur \notin BootSys PROVE CanCompile(cur)
  BY DEF BootReady, CanCompile
<1>1. cur \in Channels \ {beta} /\ conf[cur] # 0
  BY DEF LoopInv
<1>2. conf[stable] \in (First + 1)..Last
      /\ \A k \in Minors : conf[k] = IF k <= conf[stable] THEN k ELSE 0
  BY DEF ConfigInv, ConfigOK
<1>3. conf[cur] \in (First + 1)..Last /\ conf[cur] <= conf[stable]
  <2>1. CASE cur = stable
    BY <1>2, <2>1, VersionAssumption
  <2>2. CASE cur \in Minors
    BY <1>1, <1>2, <2>2, ArgAssumption, VersionAssumption
  <2> QED
    BY <1>1, <2>1, <2>2
<1> DEFINE b == conf[cur] - 1
<1>4. b \in Minors /\ b + 1 \in Minors /\ b + 1 = conf[cur] /\ conf[b] = b /\ b # 0 /\ b # cur
  <2>1. b \in Minors /\ b + 1 = conf[cur] /\ b + 1 \in Minors /\ b <= conf[stable]
    BY <1>3, <1>2, VersionAssumption
  <2>2. b # cur
    BY <1>1, <1>2, <2>1, NameAssumption, VersionAssumption
  <2> QED
    BY <1>2, <2>1, <2>2, VersionAssumption
<1>5. Less(b, cur)
  <2>1. CASE cur = stable
    BY <1>4, <2>1 DEF Less
  <2>2. CASE cur \in Minors
    BY <1>1, <1>2, <1>4, <2>2, DigitOrder
  <2> QED
    BY <1>1, <2>1, <2>2
<1>6. b \notin todo
  BY <1>5 DEF LoopInv
<1>7. conf[b] \in mounted[b]
  BY <1>4, <1>6, NameAssumption DEF LoopInv
<1>8. mounted[b] \subseteq {b}
  BY <1>4 DEF LoopInv
<1>9. BootChannel(cur) = b
  BY <1>1 DEF BootChannel
<1> QED
  BY <1>4, <1>7, <1>8, <1>9, VersionAssumption DEF CanCompile

LEMMA LoopStep ==
  ASSUME Ignore = {beta}
  PROVE  TypeOK /\ ConfigInv /\ LoopInv /\ [Next]_vars => LoopInv'
<1> SUFFICES ASSUME TypeOK, ConfigInv, LoopInv, [Next]_vars PROVE LoopInv'
  OBVIOUS
<1>1. CASE Release \/ UNCHANGED vars
  BY <1>1 DEF Release, LoopInv, Less, vars, run
<1>2. CASE RaiseAlpine \/ LoopDone \/ BuildFails \/ UpdateFails
  BY <1>2 DEF RaiseAlpine, LoopDone, BuildFails, UpdateFails, EndRun, NoPackages, LoopInv, run
<1>3. CASE Start
  BY <1>3 DEF Start, LoopInv
<1>4. ASSUME NEW U \in SUBSET {stable, beta}, UpdateConfig(U) PROVE LoopInv'
  BY <1>4 DEF UpdateConfig, LoopInv
<1>5. CASE Select
  <2>1. CASE Missing = {}
    BY <1>5, <2>1 DEF Select, EndRun, NoPackages, LoopInv
  <2>2. CASE Missing # {}
    BY <1>5, <2>2, NameAssumption DEF Select, Missing, LoopInv
  <2> QED
    BY <2>1, <2>2
<1>6. ASSUME NEW c \in Channels, NextPackage(c) PROVE LoopInv'
  <2>1. c \in Channels \ {beta} /\ conf[c] # 0
    BY <1>6 DEF NextPackage, LoopInv
  <2>2. \A d \in todo' : ~Less(d, c)
    BY <1>6 DEF NextPackage
  <2> QED
    BY <1>6, <2>1, <2>2 DEF NextPackage, LoopInv, Less
<1>7. CASE Build
  <2>1. cur \in Channels \ {beta} /\ conf[cur] # 0
    BY <1>7 DEF Build, LoopInv
  <2>2. \A c \in Channels : mounted'[c] = IF c = cur THEN mounted[c] \cup {conf[cur]}
                                                    ELSE mounted[c]
    BY <1>7, <2>1 DEF Build, TypeOK
  <2>3. cur \in Minors => conf[cur] = cur
    BY <2>1 DEF ConfigInv, ConfigOK
  <2>4. \A k \in Minors : published'[k] \subseteq {k} /\ mounted'[k] \subseteq {k}
    BY <1>7, <2>2, <2>3 DEF Build, LoopInv
  <2> QED
    BY <1>7, <2>1, <2>2, <2>4 DEF Build, LoopInv
<1>8. CASE UploadRepoChanges
  BY <1>8 DEF UploadRepoChanges, LoopInv
<1> QED
  BY <1>1, <1>2, <1>3, <1>4, <1>5, <1>6, <1>7, <1>8 DEF Next

LEMMA InitLoop == Init => LoopInv
<1> SUFFICES ASSUME Init PROVE LoopInv
  OBVIOUS
<1>1. \A k \in Minors : git[k] \in {0, k}
  BY NameAssumption DEF Init, InitialConfig
<1> QED
  BY <1>1 DEF Init, LoopInv, NoPackages

(* The scheduled job, which ignores beta and sees every release, always    *)
(* has the compiler it needs, whatever fails, however often rust releases  *)
(* and alpine.version is raised, until a version has three digits.         *)
THEOREM BootCompilerReady ==
  ASSUME 10 <= First, Last <= 99, Lag = 0, Ignore = {beta}
  PROVE  Spec => []BootReady
<1>1. TypeOK /\ ConfigInv /\ LoopInv /\ [Next]_vars => ConfigInv' /\ LoopInv'
  BY ConfigStep, LoopStep
<1>2. ConfigInv /\ LoopInv => BootReady
  BY LoopBoot
<1> QED
  BY <1>1, <1>2, TypeInvariant, InitConfigInv, InitLoop, PTL DEF Spec

(* The scheduled job that sees every release always finds patches to copy  *)
(* (config.rs 312-318), whatever updates failed or were not pushed, and    *)
(* whichever channel was skipped for its missing packages.                 *)
THEOREM UpdatesFindPatches ==
  ASSUME Lag = 0
  PROVE  Spec => []PatchesReady
<1>1. TypeOK /\ ConfigInv /\ PatchInv => PatchesReady
  <2> SUFFICES ASSUME TypeOK, ConfigInv, PatchInv, pc = "config" PROVE AllPatched(Outdated)
    BY DEF PatchesReady
  <2>1. /\ conf[stable] \in patches /\ conf[stable] \in Nat /\ released \in Nat
        /\ released \in {conf[stable], conf[stable] + 1}
    BY VersionAssumption DEF ConfigInv, ConfigOK, PatchInv, TypeOK
  <2>2. CanPatch(released, patches)
    BY <2>1 DEF CanPatch
  <2>3. released \in Patched(Outdated \cap {stable})
    BY <2>1 DEF Patched, Outdated, Offered
  <2>4. CanPatch(released + 1, Patched(Outdated \cap {stable}))
    BY <2>1, <2>3 DEF CanPatch
  <2> QED
    BY <2>2, <2>4 DEF AllPatched, Outdated, Offered
<1> QED
  BY <1>1, ConfigStep, TypeInvariant, PatchInvariant, InitConfigInv, PTL DEF Spec
=============================================================================
