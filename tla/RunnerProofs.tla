---------------------------- MODULE RunnerProofs ----------------------------
(***************************************************************************)
(* Theorems about Runner, for every set of packages, every set of command  *)
(* lines and any number of failures and restarts.                          *)
(***************************************************************************)
EXTENDS Runner, TLAPS

(* Strengthenings of the invariants *)

(* The server handle exists exactly between create and destroy, and its    *)
(* kind is the one the command line asked for; the body of the loop has a  *)
(* package.                                                                *)
ControlOK ==
    /\ IF pc \in ServerPcs THEN \/ args.mode = "local" /\ handle = LocalHost
                                \/ args.mode = "upcloud" /\ handle \in servers
                           ELSE handle = NoHost
    /\ pc \in LoopPcs \ {"next"} => cur \in Pkgs
    /\ failing => pc \in {"stop", "destroy"}
    /\ pc = "create" => args.mode \in {"local", "upcloud"}

(* Where no process abandoned its caddy, none runs on the local daemon but *)
(* the current one, between its start and its stop.                        *)
PortInv == LocalHost \in caddy =>
    abandoned \/ (handle = LocalHost /\ pc \in LoopPcs \cup {"stop"})

(* A caddy on a machine dies with the machine, and a run meets none of its *)
(* own on the way to start_caddy.                                          *)
HostInv ==
    /\ CleanExitLeavesNoServer
    /\ pc \in LoopPcs => handle \in caddy
    /\ caddy \cap Servers \subseteq servers
    /\ pc \in {"install", "connect", "buildCaddy", "startCaddy"} /\ handle # LocalHost
          => handle \notin caddy

(* Between two runs everything that could reach the bucket has been        *)
(* tested; during one, only the package between its build and its test and *)
(* what a failed run leaves to be thrown away may be anything else.        *)
Tame(f) == \A p \in Pkgs : f[p] \in {"absent", "good"}
UnderTest(p) == pc = "test" /\ p = cur /\ p \in Rust
AlmostTame(f) == \A p \in Pkgs : \/ f[p] \in {"absent", "good"}
                                 \/ f[p] = "new" /\ UnderTest(p)
GoodInv ==
    /\ Tame(bucket) /\ Tame(saved.file)
    /\ ~failing => IF args.mode = "local" THEN Tame(remote) ELSE AlmostTame(remote)
    /\ ~failing /\ pc # "idle" =>
          IF args.mode = "local" THEN AlmostTame(local) ELSE Tame(local)

(* Events come from a local run's repodir and name files that are there.   *)
EventInv == /\ dirty # {} => handle = LocalHost /\ args.mode = "local"
            /\ \A p \in dirty : local[p] # "absent"

(* A file in repodir is in the bucket, but for the one just built on a     *)
(* local daemon, whose event waits to be read.                             *)
Pending(p) == args.mode = "local" /\ pc \in {"test", "upload"} /\ p = cur /\ p \in dirty
PubInv ==
    /\ \A p \in Pkgs : saved.file[p] # "absent" => bucket[p] = "good"
    /\ ~failing /\ pc # "idle" =>
          \A p \in Pkgs : local[p] # "absent" => bucket[p] = "good" \/ Pending(p)
    /\ outcome = "uptodate" => pc = "idle"
    /\ UpToDateMeansPublished

-----------------------------------------------------------------------------
LEMMA InitTypeOK == Init => TypeOK
<1> SUFFICES ASSUME Init PROVE TypeOK
  OBVIOUS
<1>1. Empty \in [Pkgs -> Contents] /\ NoEtags \in [Pkgs -> BOOLEAN]
  BY DEF Empty, NoEtags, Contents
<1>2. /\ cause \in [Servers -> {"none", "uptodate", "done", "failed", "abort",
                                "killed", "undeleted"}]
      /\ registry \in [Pkgs -> {"old", "current"}]
  BY DEF Init
<1>3. bumps \in 0..MaxBumps /\ faults \in 0..MaxFaults
  BY BoundAssumption DEF BoundAssumption, Init
<1>4. saved \in [file : [Pkgs -> Contents], etag : [Pkgs -> BOOLEAN]]
  BY <1>1 DEF Init
<1> QED
  BY <1>1, <1>2, <1>3, <1>4 DEF Init, TypeOK, NoHost, NoPkg

(* A process that ends leaves every variable that End assigns well typed. *)
LEMMA EndType ==
  ASSUME TypeOK, local' \in [Pkgs -> Contents], etag' \in [Pkgs -> BOOLEAN],
         NEW how \in {"uptodate", "done", "failed", "abort", "killed"},
         NEW why \in {"uptodate", "done", "failed", "abort", "killed", "undeleted"},
         End(how, why)
  PROVE  /\ pc' = "idle" /\ args' \in ArgSet /\ todo' \subseteq Pkgs
         /\ cur' \in Pkgs \cup {NoPkg} /\ failing' \in BOOLEAN
         /\ outcome' \in {"never", "running", "uptodate", "done", "failed", "abort", "killed"}
         /\ handle' \in Servers \cup {LocalHost, NoHost}
         /\ cause' \in [Servers -> {"none", "uptodate", "done", "failed", "abort",
                                    "killed", "undeleted"}]
         /\ remote' \in [Pkgs -> Contents] /\ dirty' \subseteq Pkgs
         /\ saved' \in [file : [Pkgs -> Contents], etag : [Pkgs -> BOOLEAN]]
<1>1. remote' \in [Pkgs -> Contents]
  BY DEF End, Empty, Contents
<1>2. cause' \in [Servers -> {"none", "uptodate", "done", "failed", "abort",
                              "killed", "undeleted"}]
  BY DEF End, TypeOK
<1>3. saved' \in [file : [Pkgs -> Contents], etag : [Pkgs -> BOOLEAN]]
  BY DEF End, TypeOK
<1> QED
  BY <1>1, <1>2, <1>3 DEF End, TypeOK

LEMMA AbandonType ==
  ASSUME TypeOK, UNCHANGED abandoned \/ Abandon PROVE abandoned' \in BOOLEAN
  BY DEF TypeOK, Abandon

LEMMA AbortType == ASSUME TypeOK, Abort, faults' \in 0..MaxFaults PROVE TypeOK'
<1>1. UNCHANGED <<servers, caddy, local, etag, bucket, index, registry, bumps>> /\ End("abort", "abort")
      /\ abandoned' \in BOOLEAN
  BY AbandonType DEF Abort
<1>2. local' \in [Pkgs -> Contents] /\ etag' \in [Pkgs -> BOOLEAN]
  BY <1>1 DEF TypeOK
<1> HIDE DEF End
<1> QED
  BY <1>1, <1>2, EndType DEF TypeOK

LEMMA FaultType == ASSUME TypeOK, NEW k, Fault(k) PROVE faults' \in 0..MaxFaults
  BY BoundAssumption DEF BoundAssumption, TypeOK, Fault

(* Writing the current package's file keeps both directories well typed. *)
LEMMA WritesType ==
  ASSUME TypeOK, NEW c \in Contents, Writes(c)
  PROVE  /\ local' \in [Pkgs -> Contents] /\ remote' \in [Pkgs -> Contents]
         /\ cur \in Pkgs => dirty' \subseteq Pkgs
<1>1. [local EXCEPT ![cur] = c] \in [Pkgs -> Contents]
  BY DEF TypeOK
<1>2. [remote EXCEPT ![cur] = c] \in [Pkgs -> Contents]
  BY DEF TypeOK
<1>3. CASE args.mode = "local"
  BY <1>1, <1>3 DEF TypeOK, Writes, SetMounted, Mounted
<1>4. CASE args.mode # "local"
  BY <1>2, <1>4 DEF TypeOK, Writes, SetMounted, Mounted
<1> QED
  BY <1>3, <1>4

LEMMA TransferType ==
  ASSUME TypeOK, NEW D, NEW X, NEW U, Transfer(D, X, U)
  PROVE  /\ local' \in [Pkgs -> Contents] /\ bucket' \in [Pkgs -> Contents]
         /\ etag' \in [Pkgs -> BOOLEAN] /\ dirty' \subseteq Pkgs
<1>1. Mounted \in [Pkgs -> Contents]
  BY DEF TypeOK, Mounted
<1> HIDE DEF Mounted
<1>2. local' \in [Pkgs -> Contents] /\ bucket' \in [Pkgs -> Contents]
  BY <1>1 DEF Transfer, TypeOK, Contents
<1>3. etag' \in [Pkgs -> BOOLEAN] /\ dirty' \subseteq Pkgs
  BY DEF Transfer, TypeOK
<1> QED
  BY <1>2, <1>3

LEMMA IndexType ==
  ASSUME TypeOK, PublishIndex \/ UNCHANGED index PROVE index' \subseteq Pkgs
  BY DEF TypeOK, PublishIndex

LEMMA TypeStep == TypeOK /\ ControlOK /\ [Next]_vars => TypeOK'
<1> SUFFICES ASSUME TypeOK, ControlOK, [Next]_vars PROVE TypeOK'
  OBVIOUS
<1> USE ArgAssumption, BoundAssumption
    DEF TypeOK, Contents, NoFault, Fault, ArgAssumption, BoundAssumption
<1>1. ASSUME NEW a \in ArgSet, Start(a) PROVE TypeOK'
  BY <1>1 DEF Start, hosts
<1>2. ASSUME NEW B \in SUBSET Rust, UpdateConfig(B) PROVE TypeOK'
  BY <1>2 DEF UpdateConfig, Goto, Stay, hosts
<1>3. CASE Download
  BY <1>3 DEF Download, Goto, Stay, hosts
<1>4. CASE Select
  BY <1>4 DEF Select, Selected, hosts, repos, Args
<1>5. CASE EverythingUpToDate
  BY <1>5, EndType DEF EverythingUpToDate
<1>6. CASE NoDaemonSpecified
  BY <1>6, AbortType DEF NoDaemonSpecified
<1>7. CASE CreateLocal
  BY <1>7 DEF CreateLocal, Goto, Stay
<1>8. ASSUME NEW s \in Servers, CreateUpcloud(s) PROVE TypeOK'
  BY <1>8 DEF CreateUpcloud, Goto, Stay, repos
<1>9. CASE Install
  BY <1>9 DEF Install, Goto, Stay, hosts
<1>10. CASE Connect \/ BuildCaddy \/ LoopDone
  BY <1>10 DEF Connect, BuildCaddy, LoopDone, Goto, Stay, hosts, repos
<1>11. CASE StartCaddy
  BY <1>11 DEF ControlOK, ServerPcs, NoHost, StartCaddy, Goto, Stay, repos
<1>12. CASE PortTaken
  BY <1>12, AbortType DEF PortTaken
<1>13. ASSUME NEW p \in Pkgs, NextPackage(p) PROVE TypeOK'
  BY <1>13 DEF NextPackage, hosts, repos
<1>14. CASE Build
  <2>1. cur \in Pkgs /\ Built \in Contents
    BY <1>14 DEF Build, Built, ControlOK, LoopPcs
  <2>2. CASE Skipped
    BY <1>14, <2>2 DEF Build, Goto, Stay, hosts
  <2>3. CASE ~Skipped
    BY <1>14, <2>1, <2>3, WritesType DEF Build, Goto, Stay, hosts
  <2> QED
    BY <2>2, <2>3
<1>15. CASE Test
  BY <1>15 DEF Test, Goto, Stay, hosts, SetMounted, Mounted
<1>16. CASE UploadRepoChanges
  <2>1. /\ local' \in [Pkgs -> Contents] /\ bucket' \in [Pkgs -> Contents]
        /\ etag' \in [Pkgs -> BOOLEAN] /\ dirty' \subseteq Pkgs
    BY <1>16, TransferType DEF UploadRepoChanges, TypeOK
  <2>2. /\ pc' = "docker" /\ Stay /\ UNCHANGED <<hosts, remote, registry, saved, bumps>>
        /\ faults' \in 0..MaxFaults
    BY <1>16, FaultType DEF UploadRepoChanges, Goto, NoFault, TypeOK
  <2>3. index' \subseteq Pkgs
    BY <1>16, IndexType DEF UploadRepoChanges
  <2> QED
    BY <2>1, <2>2, <2>3 DEF Stay, hosts, TypeOK
<1>17. CASE BuildAndUploadDocker
  BY <1>17 DEF BuildAndUploadDocker, Goto, Stay, hosts
<1>18. CASE StopCaddy
  <2>1. abandoned' \in BOOLEAN
    BY <1>18, AbandonType DEF StopCaddy
  <2> QED
    BY <1>18, <2>1, FaultType DEF StopCaddy, Goto, Stay, NoFault, repos, TypeOK
<1>19. CASE Destroy
  <2>1. /\ servers' \subseteq Servers /\ caddy' \subseteq Servers \cup {LocalHost}
        /\ UNCHANGED <<abandoned, local, etag, bucket, index, registry, bumps, faults>>
        /\ \E how \in {"failed", "done"} : End(how, how)
    BY <1>19 DEF Destroy, Ending
  <2> QED
    BY <2>1, EndType
<1>20. CASE DownloadFails
  <2>1. local' \in [Pkgs -> Contents] /\ etag' \in [Pkgs -> BOOLEAN]
    BY <1>20 DEF DownloadFails
  <2>2. End("abort", "abort") /\ UNCHANGED <<servers, caddy, abandoned, bucket, index, registry, bumps>>
    BY <1>20 DEF DownloadFails
  <2>3. faults' \in 0..MaxFaults
    BY <1>20, FaultType DEF DownloadFails
  <2> QED
    BY <2>1, <2>2, <2>3, EndType
<1>21. CASE PrepareFails \/ CidrFails \/ CaddyFails \/ Panic
  <2>1. Abort /\ \E k \in FaultKinds : Fault(k)
    BY <1>21 DEF PrepareFails, CidrFails, CaddyFails, Panic, FaultKinds
  <2> QED
    BY <2>1, AbortType, FaultType
<1>22. CASE InstallFails \/ ConnectFails \/ TestFails \/ DockerFails
  <2>1. /\ pc' \in {"stop", "destroy"} /\ failing' = TRUE
        /\ UNCHANGED <<args, todo, cur, outcome, hosts, repos, bumps>>
        /\ (\E k \in FaultKinds : Fault(k)) \/ NoFault
    BY <1>22 DEF InstallFails, ConnectFails, TestFails, DockerFails, Cleanup, FaultKinds
  <2> QED
    BY <2>1 DEF hosts, repos
<1>23. ASSUME NEW s \in Servers, CreateFails(s) PROVE TypeOK'
  BY <1>23 DEF CreateFails
<1>24. CASE BuildFails
  <2>1. cur \in Pkgs /\ Built \in Contents
    BY <1>24 DEF BuildFails, Built, ControlOK, LoopPcs
  <2>2. /\ local' \in [Pkgs -> Contents] /\ remote' \in [Pkgs -> Contents]
        /\ dirty' \subseteq Pkgs
    <3>1. CASE UNCHANGED <<local, remote, dirty>>
      BY <3>1
    <3>2. CASE \E c \in Contents : Writes(c)
      BY <2>1, <3>2, WritesType
    <3> QED
      BY <1>24, <2>1, <3>1, <3>2 DEF BuildFails
  <2> QED
    BY <1>24, <2>2, FaultType DEF BuildFails, Cleanup, hosts
<1>25. CASE UploadFails
  <2>1. index' \subseteq Pkgs
    BY <1>25, IndexType DEF UploadFails
  <2> QED
    BY <1>25, <2>1, TransferType, FaultType DEF UploadFails, Cleanup, hosts
<1>26. CASE DestroyFails
  <2>1. /\ UNCHANGED <<servers, caddy, abandoned, local, etag, bucket, index, registry, bumps>>
        /\ \E how \in {"abort", "failed", "done"} : End(how, "undeleted")
        /\ \E k \in FaultKinds : Fault(k)
    BY <1>26 DEF DestroyFails, Ending, FaultKinds
  <2> QED
    BY <2>1, EndType, FaultType
<1>27. CASE Kill
  BY <1>27, EndType, FaultType, AbandonType DEF Kill, TypeOK
<1>28. CASE UNCHANGED vars
  BY <1>28 DEF vars, process, hosts, repos
<1> QED
  BY <1>1, <1>2, <1>3, <1>4, <1>5, <1>6, <1>7, <1>8, <1>9, <1>10, <1>11, <1>12, <1>13,
     <1>14, <1>15, <1>16, <1>17, <1>18, <1>19, <1>20, <1>21, <1>22, <1>23, <1>24,
     <1>25, <1>26, <1>27, <1>28
  DEF Next, Progress, Failure

-----------------------------------------------------------------------------
(* What a process that ends leaves of the control state. *)
LEMMA EndControl ==
  ASSUME NEW how, NEW why, End(how, why) PROVE ControlOK'
  BY DEF End, ControlOK, ServerPcs, LoopPcs

LEMMA AbortControl == ASSUME Abort PROVE ControlOK'
  BY EndControl DEF Abort

LEMMA ControlStep == TypeOK /\ ControlOK /\ [Next]_vars => ControlOK'
<1> SUFFICES ASSUME TypeOK, ControlOK, [Next]_vars PROVE ControlOK'
  OBVIOUS
<1> USE DEF ControlOK, ServerPcs, LoopPcs
<1>1. ASSUME NEW a \in ArgSet, Start(a) PROVE ControlOK'
  BY <1>1 DEF Start, hosts
<1>2. ASSUME NEW B \in SUBSET Rust, UpdateConfig(B) PROVE ControlOK'
  BY <1>2 DEF UpdateConfig, Goto, Stay, hosts
<1>3. CASE Download \/ Install \/ Connect \/ BuildCaddy \/ LoopDone
  BY <1>3 DEF Download, Install, Connect, BuildCaddy, LoopDone, Goto, Stay, hosts, repos
<1>4. CASE Select
  BY <1>4, ArgAssumption DEF ArgAssumption, Args, TypeOK, Select, hosts, repos
<1>5. CASE EverythingUpToDate \/ NoDaemonSpecified \/ PortTaken
  BY <1>5, EndControl, AbortControl DEF EverythingUpToDate, NoDaemonSpecified, PortTaken
<1>6. CASE CreateLocal
  BY <1>6 DEF CreateLocal, Goto, Stay
<1>7. ASSUME NEW s \in Servers, CreateUpcloud(s) PROVE ControlOK'
  BY <1>7 DEF CreateUpcloud, Goto, Stay, repos
<1>8. CASE StartCaddy
  BY <1>8 DEF StartCaddy, Goto, Stay, repos
<1>9. ASSUME NEW p \in Pkgs, NextPackage(p) PROVE ControlOK'
  BY <1>9 DEF NextPackage, hosts, repos
<1>10. CASE Build \/ Test \/ UploadRepoChanges \/ BuildAndUploadDocker
  BY <1>10 DEF Build, Test, UploadRepoChanges, BuildAndUploadDocker, Goto, Stay, hosts
<1>11. CASE StopCaddy
  BY <1>11 DEF StopCaddy, Goto, Stay, repos
<1>12. CASE Destroy \/ DestroyFails \/ DownloadFails \/ Kill
  BY <1>12, EndControl DEF Destroy, DestroyFails, DownloadFails, Kill
<1>13. CASE PrepareFails \/ CidrFails \/ CaddyFails \/ Panic
  BY <1>13, AbortControl DEF PrepareFails, CidrFails, CaddyFails, Panic
<1>14. CASE InstallFails \/ ConnectFails \/ TestFails \/ DockerFails
  BY <1>14 DEF InstallFails, ConnectFails, TestFails, DockerFails, Cleanup, hosts, repos
<1>15. ASSUME NEW s \in Servers, CreateFails(s) PROVE ControlOK'
  BY <1>15 DEF CreateFails
<1>16. CASE BuildFails \/ UploadFails
  BY <1>16 DEF BuildFails, UploadFails, Cleanup, hosts
<1>17. CASE UNCHANGED vars
  BY <1>17 DEF vars, process, hosts, repos
<1> QED
  BY <1>1, <1>2, <1>3, <1>4, <1>5, <1>6, <1>7, <1>8, <1>9, <1>10, <1>11, <1>12, <1>13,
     <1>14, <1>15, <1>16, <1>17
  DEF Next, Progress, Failure

LEMMA InitControl == Init => ControlOK
  BY DEF Init, ControlOK, ServerPcs, LoopPcs

(* TypeOK alone is not inductive: the loop needs its package, start_caddy  *)
(* its host.                                                               *)
LEMMA ControlInvariant == Spec => [](TypeOK /\ ControlOK)
<1>1. Init => TypeOK /\ ControlOK
  BY InitTypeOK, InitControl
<1>2. TypeOK /\ ControlOK /\ [Next]_vars => TypeOK' /\ ControlOK'
  BY TypeStep, ControlStep
<1> QED
  BY <1>1, <1>2, PTL DEF Spec

(* Every variable keeps its type, whatever fails. *)
THEOREM TypeCorrect == Spec => []TypeOK
  BY ControlInvariant, PTL

-----------------------------------------------------------------------------
(* Servers and caddy *)

(* A process that ends accounts for the machine it leaves, if it does. *)
LEMMA EndHosts ==
  ASSUME TypeOK, HostInv, NEW how, NEW why, End(how, why),
         servers' \subseteq servers, caddy' \subseteq caddy,
         caddy' \cap Servers \subseteq servers',
         why \in {"abort", "killed", "undeleted"} \/ handle \notin servers'
  PROVE  HostInv'
<1>1. ASSUME NEW s \in servers' PROVE cause'[s] \in {"abort", "killed", "undeleted"}
  <2>1. s \in Servers /\ s \in servers
    BY <1>1 DEF TypeOK
  <2>2. CASE s = handle
    BY <1>1, <2>1, <2>2 DEF End
  <2>3. CASE s # handle
    BY <2>1, <2>3 DEF End, HostInv, CleanExitLeavesNoServer
  <2> QED
    BY <2>2, <2>3
<1>2. pc' = "idle"
  BY DEF End
<1> QED
  BY <1>1, <1>2 DEF HostInv, CleanExitLeavesNoServer, LoopPcs

LEMMA AbortHosts == ASSUME TypeOK, HostInv, Abort PROVE HostInv'
  BY EndHosts DEF Abort, HostInv

(* Steps that leave the hosts alone and stay on this side of the loop. *)
LEMMA SameHosts ==
  ASSUME HostInv, UNCHANGED hosts,
         pc' \in LoopPcs => pc \in LoopPcs,
         pc' \in {"install", "connect", "buildCaddy", "startCaddy"}
            => pc \in {"install", "connect", "buildCaddy", "startCaddy"}
  PROVE  HostInv'
  BY DEF HostInv, CleanExitLeavesNoServer, hosts

LEMMA HostStep == TypeOK /\ ControlOK /\ HostInv /\ [Next]_vars => HostInv'
<1> SUFFICES ASSUME TypeOK, ControlOK, HostInv, [Next]_vars PROVE HostInv'
  OBVIOUS
<1>1. ASSUME NEW a \in ArgSet, Start(a) PROVE HostInv'
  BY <1>1, SameHosts DEF Start, LoopPcs
<1>2. ASSUME NEW B \in SUBSET Rust, UpdateConfig(B) PROVE HostInv'
  BY <1>2, SameHosts DEF UpdateConfig, Goto, LoopPcs
<1>3. CASE Download \/ Install \/ Connect \/ BuildCaddy \/ LoopDone \/ Select
  BY <1>3, SameHosts
  DEF Download, Install, Connect, BuildCaddy, LoopDone, Select, Goto, LoopPcs
<1>4. CASE EverythingUpToDate
  <2>1. handle \notin servers
    BY <1>4, NameAssumption
    DEF NameAssumption, EverythingUpToDate, ControlOK, ServerPcs, TypeOK
  <2> QED
    BY <1>4, <2>1, EndHosts DEF EverythingUpToDate, HostInv
<1>5. CASE NoDaemonSpecified \/ PortTaken
  BY <1>5, AbortHosts DEF NoDaemonSpecified, PortTaken
<1>6. CASE CreateLocal
  <2>1. handle \notin servers
    BY <1>6, NameAssumption DEF NameAssumption, CreateLocal, ControlOK, ServerPcs, TypeOK
  <2> QED
    BY <1>6, <2>1 DEF CreateLocal, Goto, HostInv, CleanExitLeavesNoServer, LoopPcs
<1>7. ASSUME NEW s \in Servers, CreateUpcloud(s) PROVE HostInv'
  <2>1. handle \notin servers /\ s \notin caddy
    BY <1>7, NameAssumption
    DEF NameAssumption, CreateUpcloud, ControlOK, ServerPcs, TypeOK, HostInv
  <2>2. CleanExitLeavesNoServer'
    BY <1>7, <2>1 DEF CreateUpcloud, HostInv, CleanExitLeavesNoServer, TypeOK
  <2> QED
    BY <1>7, <2>1, <2>2 DEF CreateUpcloud, Goto, HostInv, LoopPcs
<1>8. CASE StartCaddy
  <2>1. handle \in servers \/ handle \notin Servers
    BY <1>8, NameAssumption DEF NameAssumption, StartCaddy, ControlOK, ServerPcs
  <2> QED
    BY <1>8, <2>1 DEF StartCaddy, Goto, HostInv, CleanExitLeavesNoServer
<1>9. ASSUME NEW p \in Pkgs, NextPackage(p) PROVE HostInv'
  BY <1>9, SameHosts DEF NextPackage, LoopPcs
<1>10. CASE Build \/ Test \/ UploadRepoChanges \/ BuildAndUploadDocker
  BY <1>10, SameHosts
  DEF Build, Test, UploadRepoChanges, BuildAndUploadDocker, Goto, LoopPcs
<1>11. CASE StopCaddy
  BY <1>11 DEF StopCaddy, Goto, HostInv, CleanExitLeavesNoServer, LoopPcs
<1>12. CASE Destroy
  <2>1. caddy' \cap Servers \subseteq servers'
    BY <1>12 DEF Destroy, HostInv
  <2> QED
    BY <1>12, <2>1, EndHosts DEF Destroy
<1>13. CASE DestroyFails \/ DownloadFails \/ Kill
  BY <1>13, EndHosts DEF DestroyFails, DownloadFails, Kill, HostInv
<1>14. CASE PrepareFails \/ CidrFails \/ CaddyFails \/ Panic
  BY <1>14, AbortHosts DEF PrepareFails, CidrFails, CaddyFails, Panic
<1>15. CASE InstallFails \/ ConnectFails \/ TestFails \/ DockerFails \/ BuildFails \/ UploadFails
  BY <1>15, SameHosts
  DEF InstallFails, ConnectFails, TestFails, DockerFails, BuildFails, UploadFails,
      Cleanup, LoopPcs
<1>16. ASSUME NEW s \in Servers, CreateFails(s) PROVE HostInv'
  <2>1. handle \notin servers
    BY <1>16, NameAssumption DEF NameAssumption, CreateFails, ControlOK, ServerPcs, TypeOK
  <2> QED
    BY <1>16, <2>1 DEF CreateFails, HostInv, CleanExitLeavesNoServer, TypeOK, LoopPcs
<1>17. CASE UNCHANGED vars
  BY <1>17 DEF vars, process, hosts, HostInv, CleanExitLeavesNoServer
<1> QED
  BY <1>1, <1>2, <1>3, <1>4, <1>5, <1>6, <1>7, <1>8, <1>9, <1>10, <1>11, <1>12, <1>13,
     <1>14, <1>15, <1>16, <1>17
  DEF Next, Progress, Failure

LEMMA HostInvariant == Spec => [](TypeOK /\ ControlOK /\ HostInv)
<1>1. Init => HostInv
  BY DEF Init, HostInv, CleanExitLeavesNoServer, LoopPcs
<1> QED
  BY <1>1, HostStep, ControlInvariant, PTL DEF Spec

(* Whatever fails and however often the process is restarted, a machine is *)
(* left behind only by a run that never got to server.destroy, or by a     *)
(* provider that did not delete it.                                        *)
THEOREM NoServerLeftByCleanExit == Spec => []CleanExitLeavesNoServer
<1>1. HostInv => CleanExitLeavesNoServer
  BY DEF HostInv
<1> QED
  BY <1>1, HostInvariant, PTL

(* No docker call is made to a machine that was destroyed, and the         *)
(* repository is served whenever a package is built, tested or uploaded.   *)
THEOREM EnvironmentIsUp == Spec => []EnvironmentUp
<1>1. ControlOK /\ HostInv => EnvironmentUp
  BY DEF ControlOK, HostInv, EnvironmentUp
<1> QED
  BY <1>1, HostInvariant, PTL

LEMMA PortStep == TypeOK /\ PortInv /\ [Next]_vars => PortInv'
<1> SUFFICES ASSUME TypeOK, PortInv, [Next]_vars PROVE PortInv'
  OBVIOUS
<1>0. (abandoned => abandoned') /\ abandoned \in BOOLEAN /\ abandoned' \in BOOLEAN
  <2>1. CASE UNCHANGED abandoned
    BY <2>1 DEF TypeOK
  <2>2. CASE Abandon
    BY <2>2 DEF Abandon, TypeOK
  <2> QED
    BY <2>1, <2>2 DEF Next, Progress, Failure, Start, UpdateConfig, Download, Select,
      EverythingUpToDate, NoDaemonSpecified, CreateLocal, CreateUpcloud, CreateFails, Install,
      Connect, BuildCaddy, StartCaddy, PortTaken, NextPackage, LoopDone, Build, Test,
      UploadRepoChanges, BuildAndUploadDocker, StopCaddy, Destroy, DownloadFails, PrepareFails,
      InstallFails, ConnectFails, CidrFails, CaddyFails, BuildFails, TestFails, UploadFails,
      DockerFails, DestroyFails, Panic, Kill, Abort, hosts, vars
<1>1. CASE LocalHost \notin caddy'
  BY <1>1 DEF PortInv
<1>2. CASE abandoned'
  BY <1>2 DEF PortInv
<1>3. CASE UNCHANGED <<caddy, handle>> /\ pc' \in LoopPcs \cup {"stop"}
  BY <1>0, <1>3 DEF PortInv
<1>4. CASE caddy' \subseteq caddy /\ pc \notin LoopPcs \cup {"stop"}
  BY <1>0, <1>4 DEF PortInv
<1>5. CASE Abandon /\ UNCHANGED caddy
  BY <1>5 DEF Abandon, PortInv
<1>6. CASE (\E a \in ArgSet : Start(a)) \/ (\E B \in SUBSET Rust : UpdateConfig(B))
            \/ Download \/ Select \/ EverythingUpToDate \/ CreateLocal
            \/ (\E s \in Servers : CreateUpcloud(s) \/ CreateFails(s)) \/ Install \/ Connect
            \/ BuildCaddy \/ DownloadFails \/ InstallFails \/ ConnectFails
  BY <1>4, <1>6
  DEF Start, UpdateConfig, Download, Select, EverythingUpToDate, CreateLocal,
      CreateUpcloud, CreateFails, Install, Connect, BuildCaddy, DownloadFails,
      InstallFails, ConnectFails, hosts, LoopPcs
<1>7. CASE NoDaemonSpecified \/ PortTaken \/ PrepareFails \/ CidrFails \/ CaddyFails
            \/ Panic \/ Kill
  BY <1>5, <1>7
  DEF NoDaemonSpecified, PortTaken, PrepareFails, CidrFails, CaddyFails, Panic, Kill, Abort
<1>8. CASE Destroy \/ DestroyFails
  BY <1>4, <1>8 DEF Destroy, DestroyFails, LoopPcs
<1>9. CASE StartCaddy
  BY <1>0, <1>9 DEF StartCaddy, Goto, LoopPcs, PortInv
<1>10. CASE StopCaddy
  <2>1. CASE caddy' = caddy \ {handle}
    <3>1. CASE handle = LocalHost
      BY <1>1, <2>1, <3>1
    <3>2. CASE handle # LocalHost
      BY <1>0, <2>1, <3>2, <1>10 DEF StopCaddy, PortInv
    <3> QED
      BY <3>1, <3>2
  <2> QED
    BY <1>5, <1>10, <2>1 DEF StopCaddy
<1>11. CASE (\E p \in Pkgs : NextPackage(p)) \/ LoopDone \/ Build \/ Test
            \/ UploadRepoChanges \/ BuildAndUploadDocker
            \/ BuildFails \/ TestFails \/ UploadFails \/ DockerFails
  BY <1>3, <1>11
  DEF NextPackage, LoopDone, Build, Test, UploadRepoChanges, BuildAndUploadDocker,
      BuildFails, TestFails, UploadFails, DockerFails, Goto, Cleanup, LoopPcs, hosts
<1>12. CASE UNCHANGED vars
  BY <1>12 DEF vars, process, hosts, PortInv
<1> QED
  BY <1>6, <1>7, <1>8, <1>9, <1>10, <1>11, <1>12 DEF Next, Progress, Failure

(* However many runs end with an error, locally or not, whatever machines  *)
(* and caddies they leave behind, the next one finds caddy's port free:    *)
(* only a process on the local daemon that died or panicked while its      *)
(* caddy ran, or could not stop it, takes the port from its successors.    *)
THEOREM PortIsFree == Spec => []PortFree
<1>1. Init => PortInv
  BY DEF Init, PortInv
<1>2. TypeOK /\ PortInv /\ [Next]_vars => PortInv'
  BY PortStep
<1>3. TypeOK /\ ControlOK /\ HostInv /\ PortInv => PortFree
  BY NameAssumption DEF NameAssumption, TypeOK, ControlOK, HostInv, PortInv, PortFree,
     ServerPcs, LoopPcs
<1> QED
  BY <1>1, <1>2, <1>3, HostInvariant, PTL DEF Spec

-----------------------------------------------------------------------------
(* What reaches the bucket *)

(* Outside the test step nothing may be new. *)
LEMMA NotUnderTest == pc # "test" => \A f : AlmostTame(f) <=> Tame(f)
  BY DEF AlmostTame, Tame, UnderTest

LEMMA EndGood ==
  ASSUME GoodInv, Keep # "always", UNCHANGED bucket, NEW how, NEW why, End(how, why),
         how \in {"uptodate", "done"} => Tame(local')
  PROVE  GoodInv'
<1>1. Tame(saved.file)'
  <2>1. CASE saved' = saved
    BY <2>1 DEF GoodInv, Tame
  <2>2. CASE saved' # saved
    BY <2>2 DEF End, Tame
  <2> QED
    BY <2>1, <2>2
<1>2. Tame(remote') /\ AlmostTame(remote)'
  BY DEF End, Empty, Tame, AlmostTame
<1>3. Tame(bucket')
  BY DEF GoodInv
<1>4. pc' = "idle"
  BY DEF End
<1> QED
  BY <1>1, <1>2, <1>3, <1>4 DEF GoodInv, Tame, AlmostTame

LEMMA AbortGood == ASSUME GoodInv, Keep # "always", Abort PROVE GoodInv'
  BY EndGood DEF Abort

(* A failed step on its way to the cleanup: only bucket and saved matter. *)
LEMMA FailingGood ==
  ASSUME Tame(bucket'), GoodInv, UNCHANGED saved, failing' = TRUE PROVE GoodInv'
  BY DEF GoodInv, Tame

(* A step of a healthy run outside the test that touches no file. *)
LEMMA QuietGood ==
  ASSUME GoodInv, pc # "test", pc # "idle",
         UNCHANGED <<args, failing, local, remote, bucket, saved>>
  PROVE  GoodInv'
<1>1. CASE failing
  BY <1>1 DEF GoodInv, Tame
<1>2. CASE ~failing
  <2>1. Tame(local) /\ Tame(remote) /\ Tame(bucket) /\ Tame(saved.file)
    BY <1>2, NotUnderTest DEF GoodInv
  <2> QED
    BY <2>1 DEF GoodInv, Tame, AlmostTame
<1> QED
  BY <1>1, <1>2

(* The steps that move files need every copy to be tame before them. *)
LEMMA AllTame ==
  ASSUME GoodInv, pc # "test", pc # "idle", ~failing
  PROVE  Tame(local) /\ Tame(remote) /\ Tame(bucket) /\ Tame(Mounted)
  BY NotUnderTest DEF GoodInv, Mounted

LEMMA TameGood ==
  ASSUME Tame(local'), Tame(remote'), Tame(bucket'), Tame(saved.file)'
  PROVE  GoodInv'
  BY DEF GoodInv, Tame, AlmostTame

(* Writing the current package's file in the mounted directory. *)
LEMMA WriteOne ==
  ASSUME TypeOK, NEW c, SetMounted([Mounted EXCEPT ![cur] = c])
  PROVE  /\ args.mode = "local" => local' = [local EXCEPT ![cur] = c] /\ remote' = remote
         /\ args.mode # "local" => remote' = [remote EXCEPT ![cur] = c] /\ local' = local
  BY DEF SetMounted, Mounted

(* What the theorems of the next two sections assume of the faults. *)
LEMMA Noticed ==
  ASSUME Faults \cap {"short", "rejected"} = {}
  PROVE  ~Fault("short") /\ ~Fault("rejected")
  BY DEF Fault

LEMMA WholeDownload ==
  ASSUME Faults \cap {"short", "rejected"} = {}, Download
  PROVE  local' = [p \in Pkgs |-> IF p \in Outdated THEN bucket[p] ELSE local[p]]
<1>1. PICK X \in SUBSET Outdated :
         /\ X = {} \/ Fault("rejected")
         /\ local' = [p \in Pkgs |-> IF p \in X THEN "part"
                                     ELSE IF p \in Outdated THEN bucket[p] ELSE local[p]]
  BY DEF Download
<1>2. X = {}
  BY <1>1, Noticed
<1> QED
  BY <1>1, <1>2

LEMMA WholeInstall ==
  ASSUME Faults \cap {"short", "rejected"} = {}, Install
  PROVE  remote' = remote \/ remote' = local
  BY Noticed DEF Install

LEMMA WholeUpload ==
  ASSUME Faults \cap {"short", "rejected"} = {}, UploadRepoChanges
  PROVE  \/ ~args.upload /\ UNCHANGED <<local, bucket, etag, dirty>>
         \/ args.upload /\ Transfer(Changed, {}, Changed)
  BY Noticed DEF UploadRepoChanges

LEMMA GoodStep ==
  ASSUME Keep # "always", Faults \cap {"short", "rejected"} = {}
  PROVE  TypeOK /\ ControlOK /\ GoodInv /\ [Next]_vars => GoodInv'
<1> SUFFICES ASSUME TypeOK, ControlOK, GoodInv, [Next]_vars PROVE GoodInv'
  OBVIOUS
<1>0. pc \notin {"stop", "destroy"} => ~failing
  BY DEF ControlOK, TypeOK
<1>1. ASSUME NEW a \in ArgSet, Start(a) PROVE GoodInv'
  <2>1. Tame(local') /\ Tame(remote') /\ Tame(bucket') /\ Tame(saved.file)'
    BY <1>0, <1>1, NotUnderTest DEF Start, GoodInv, Tame
  <2> QED
    BY <2>1, TameGood
<1>2. ASSUME NEW B \in SUBSET Rust, UpdateConfig(B) PROVE GoodInv'
  <2>1. Tame(local) /\ Tame(remote) /\ Tame(bucket) /\ Tame(saved.file)
    BY <1>0, <1>2, AllTame DEF UpdateConfig, GoodInv
  <2>2. Tame(local') /\ Tame(remote') /\ Tame(bucket') /\ Tame(saved.file)'
    BY <1>2, <2>1 DEF UpdateConfig, Tame
  <2> QED
    BY <2>2, TameGood
<1>3. CASE Download
  <2>1. Tame(local) /\ Tame(remote) /\ Tame(bucket) /\ Tame(saved.file)
    BY <1>0, <1>3, AllTame DEF Download, GoodInv
  <2>2. Tame(local') /\ Tame(remote') /\ Tame(bucket') /\ Tame(saved.file)'
    BY <1>3, <2>1, WholeDownload DEF Download, Tame
  <2> QED
    BY <2>2, TameGood
<1>4. CASE Select \/ CreateLocal \/ Connect \/ BuildCaddy \/ StartCaddy \/ LoopDone \/ StopCaddy
  BY <1>4, QuietGood
  DEF Select, CreateLocal, Connect, BuildCaddy, StartCaddy, LoopDone, StopCaddy, Goto, Stay, repos
<1>5. ASSUME NEW s \in Servers, CreateUpcloud(s) PROVE GoodInv'
  BY <1>5, QuietGood DEF CreateUpcloud, Goto, Stay, repos
<1>6. ASSUME NEW p \in Pkgs, NextPackage(p) PROVE GoodInv'
  BY <1>6, QuietGood DEF NextPackage, repos
<1>7. CASE EverythingUpToDate
  BY <1>0, <1>7, AllTame, EndGood DEF EverythingUpToDate
<1>8. CASE NoDaemonSpecified \/ PortTaken \/ PrepareFails \/ CidrFails \/ CaddyFails \/ Panic
  BY <1>8, AbortGood
  DEF NoDaemonSpecified, PortTaken, PrepareFails, CidrFails, CaddyFails, Panic
<1>9. CASE Install
  <2>1. Tame(local) /\ Tame(remote) /\ Tame(bucket) /\ Tame(saved.file)
    BY <1>0, <1>9, AllTame DEF Install, GoodInv
  <2>2. Tame(local') /\ Tame(remote') /\ Tame(bucket') /\ Tame(saved.file)'
    BY <1>9, <2>1, WholeInstall DEF Install, Tame
  <2> QED
    BY <2>2, TameGood
<1>10. CASE Build
  <2>1. Tame(local) /\ Tame(remote) /\ Tame(bucket) /\ Tame(saved.file)
    BY <1>0, <1>10, AllTame DEF Build, GoodInv
  <2>2. CASE Skipped
    <3>1. UNCHANGED <<local, remote, bucket, saved>>
      BY <1>10, <2>2 DEF Build
    <3> QED
      BY <2>1, <3>1, TameGood DEF Tame
  <2>3. CASE ~Skipped
    <3>1. /\ pc' = "test" /\ UNCHANGED <<args, cur, bucket, saved>> /\ Writes(Built)
      BY <1>10, <2>3 DEF Build, Goto, Stay
    <3>2. \/ Built = "good"
          \/ Built = "new" /\ cur \in Rust
      BY DEF Built
    <3>3. CASE args.mode = "local"
      <4>1. remote' = remote /\ local' = [local EXCEPT ![cur] = Built]
        BY <3>1, <3>3, WriteOne DEF Writes
      <4>2. AlmostTame(local)'
        BY <2>1, <3>1, <3>2, <4>1 DEF TypeOK, Tame, AlmostTame, UnderTest
      <4> QED
        BY <2>1, <3>1, <3>3, <4>1, <4>2 DEF GoodInv, Tame
    <3>4. CASE args.mode # "local"
      <4>1. local' = local /\ remote' = [remote EXCEPT ![cur] = Built]
        BY <3>1, <3>4, WriteOne DEF Writes
      <4>2. AlmostTame(remote)'
        BY <2>1, <3>1, <3>2, <4>1 DEF TypeOK, Tame, AlmostTame, UnderTest
      <4> QED
        BY <2>1, <3>1, <3>4, <4>1, <4>2 DEF GoodInv, Tame
    <3> QED
      BY <3>3, <3>4
  <2> QED
    BY <2>2, <2>3
<1>11. CASE Test
  <2>1. ~failing /\ pc' = "upload" /\ UNCHANGED <<args, cur, failing, bucket, saved>>
    BY <1>0, <1>11 DEF Test, Goto, Stay
  <2>2. Tame(bucket) /\ Tame(saved.file)
    BY DEF GoodInv
  <2>3. Tame(local') /\ Tame(remote')
    <3>1. CASE cur \notin Rust
      BY <1>11, <2>1, <3>1 DEF Test, GoodInv, Tame, AlmostTame, UnderTest
    <3>2. CASE cur \in Rust /\ args.mode = "local"
      <4>1. /\ remote' = remote
            /\ local' = [local EXCEPT ![cur] = IF Mounted[cur] = "new" THEN "good" ELSE Mounted[cur]]
        BY <1>11, <3>2, WriteOne DEF Test
      <4>2. AlmostTame(local) /\ Tame(remote) /\ Mounted = local
        BY <1>11, <2>1, <3>2 DEF Test, GoodInv, Mounted
      <4> QED
        BY <4>1, <4>2 DEF TypeOK, Tame, AlmostTame, UnderTest
    <3>3. CASE cur \in Rust /\ args.mode # "local"
      <4>1. /\ local' = local
            /\ remote' = [remote EXCEPT ![cur] = IF Mounted[cur] = "new" THEN "good" ELSE Mounted[cur]]
        BY <1>11, <3>3, WriteOne DEF Test
      <4>2. AlmostTame(remote) /\ Tame(local) /\ Mounted = remote
        BY <1>11, <2>1, <3>3 DEF Test, GoodInv, Mounted
      <4> QED
        BY <4>1, <4>2 DEF TypeOK, Tame, AlmostTame, UnderTest
    <3> QED
      BY <3>1, <3>2, <3>3
  <2> QED
    BY <2>1, <2>2, <2>3, TameGood DEF Tame
<1>12. CASE UploadRepoChanges
  <2>1. Tame(local) /\ Tame(remote) /\ Tame(bucket) /\ Tame(saved.file) /\ Tame(Mounted)
    BY <1>0, <1>12, AllTame DEF UploadRepoChanges, GoodInv
  <2>2. Tame(local') /\ Tame(bucket') /\ UNCHANGED <<remote, saved>>
    BY <1>12, <2>1, WholeUpload DEF UploadRepoChanges, Transfer, Tame
  <2> QED
    BY <2>1, <2>2, TameGood DEF Tame
<1>13. CASE BuildAndUploadDocker
  BY <1>13, QuietGood DEF BuildAndUploadDocker, Goto, Stay
<1>14. CASE Destroy \/ DestroyFails
  <2>1. ~failing => Tame(local)
    BY <1>14, AllTame DEF Destroy, DestroyFails
  <2>2. /\ UNCHANGED <<local, bucket>>
        /\ \E why : End(Ending, why) \/ End("abort", why)
    BY <1>14 DEF Destroy, DestroyFails
  <2> QED
    BY <2>1, <2>2, EndGood DEF Ending, Tame
<1>15. CASE DownloadFails \/ Kill
  BY <1>15, EndGood DEF DownloadFails, Kill
<1>16. CASE InstallFails \/ ConnectFails \/ BuildFails \/ TestFails \/ DockerFails
  <2>1. UNCHANGED <<bucket, saved>> /\ failing' = TRUE
    BY <1>16
    DEF InstallFails, ConnectFails, BuildFails, TestFails, DockerFails, Cleanup, repos
  <2>2. Tame(bucket')
    BY <2>1 DEF GoodInv, Tame
  <2> QED
    BY <2>1, <2>2, FailingGood
<1>17. CASE UploadFails
  <2>1. Tame(bucket) /\ Tame(Mounted)
    BY <1>0, <1>17, AllTame DEF UploadFails
  <2>2. Tame(bucket')
    BY <1>17, <2>1 DEF UploadFails, Transfer, Tame
  <2> QED
    BY <1>17, <2>2, FailingGood DEF UploadFails, Cleanup
<1>18. ASSUME NEW s \in Servers, CreateFails(s) PROVE GoodInv'
  <2>1. Tame(local) /\ Tame(remote) /\ Tame(bucket) /\ Tame(saved.file)
    BY <1>0, <1>18, AllTame DEF CreateFails, GoodInv
  <2>2. UNCHANGED <<local, remote, bucket, saved>>
    BY <1>18 DEF CreateFails
  <2> QED
    BY <2>1, <2>2, TameGood DEF Tame
<1>19. CASE UNCHANGED vars
  BY <1>19 DEF vars, process, repos, GoodInv, Tame, AlmostTame, UnderTest
<1> QED
  BY <1>1, <1>2, <1>3, <1>4, <1>5, <1>6, <1>7, <1>8, <1>9, <1>10, <1>11, <1>12, <1>13,
     <1>14, <1>15, <1>16, <1>17, <1>18, <1>19
  DEF Next, Progress, Failure

LEMMA InitGood == Init => GoodInv
  BY DEF Init, GoodInv, Tame, AlmostTame, Empty, UnderTest

LEMMA GoodInvariant ==
  ASSUME Keep # "always", Faults \cap {"short", "rejected"} = {}
  PROVE  Spec => []GoodInv
<1>1. TypeOK /\ ControlOK /\ GoodInv /\ [Next]_vars => GoodInv'
  BY GoodStep
<1> QED
  BY <1>1, InitGood, ControlInvariant, PTL DEF Spec

(* Unless a failed run's repodir is used again or a transfer loses data    *)
(* that nobody notices, no run ever publishes a truncated package or a     *)
(* rust package that has not passed its tests.                             *)
THEOREM NothingUntestedPublished ==
  ASSUME Keep # "always", Faults \cap {"short", "rejected"} = {}
  PROVE  Spec => []OnlyGoodPublished
<1>1. GoodInv => OnlyGoodPublished
  BY DEF GoodInv, Tame, OnlyGoodPublished
<1> QED
  BY <1>1, GoodInvariant, PTL

-----------------------------------------------------------------------------
(* What "up to date" means *)

LEMMA EventStep == TypeOK /\ ControlOK /\ EventInv /\ [Next]_vars => EventInv'
<1> SUFFICES ASSUME TypeOK, ControlOK, EventInv, [Next]_vars PROVE EventInv'
  OBVIOUS
<1>0. pc \notin ServerPcs => dirty = {}
  BY NameAssumption DEF ControlOK, EventInv, NameAssumption, LocalHost, NoHost
<1>1. CASE dirty' = {}
  BY <1>1 DEF EventInv
<1>2. CASE UNCHANGED <<dirty, local, handle, args>>
  BY <1>2 DEF EventInv
<1>3. CASE Build \/ BuildFails
  <2>1. UNCHANGED <<handle, args>> /\ cur \in Pkgs
    BY <1>3 DEF Build, BuildFails, Goto, Stay, Cleanup, hosts, ControlOK, LoopPcs
  <2>2. CASE UNCHANGED <<local, dirty>>
    BY <2>1, <2>2 DEF EventInv
  <2>3. ASSUME NEW c \in {"part", Built}, Writes(c) PROVE EventInv'
    <3>1. CASE args.mode = "local"
      <4>1. local' = [local EXCEPT ![cur] = c] /\ dirty' = dirty \cup {cur} /\ c # "absent"
        BY <2>3, <3>1 DEF Writes, SetMounted, Mounted, Built
      <4>2. handle = LocalHost
        BY <1>3, <3>1 DEF ControlOK, ServerPcs, Build, BuildFails
      <4> QED
        BY <2>1, <3>1, <4>1, <4>2 DEF EventInv, TypeOK
    <3>2. CASE args.mode # "local"
      BY <2>1, <2>3, <3>2 DEF Writes, SetMounted, EventInv
    <3> QED
      BY <3>1, <3>2
  <2> QED
    BY <1>3, <2>2, <2>3 DEF Build, BuildFails
<1>4. CASE Test
  <2>1. UNCHANGED <<handle, args, dirty>>
    BY <1>4 DEF Test, Goto, Stay, hosts
  <2>2. CASE UNCHANGED local
    BY <2>1, <2>2 DEF EventInv
  <2>3. CASE local' # local
    <3>1. /\ args.mode = "local"
          /\ local' = [local EXCEPT ![cur] = IF Mounted[cur] = "new" THEN "good" ELSE Mounted[cur]]
      BY <1>4, <2>3, WriteOne DEF Test
    <3>2. Mounted = local
      BY <3>1 DEF Mounted
    <3> QED
      BY <2>1, <3>1, <3>2 DEF EventInv, TypeOK
  <2> QED
    BY <2>2, <2>3
<1>5. CASE UploadRepoChanges
  <2>1. CASE args.upload
    BY <1>1, <1>5, <2>1 DEF UploadRepoChanges, Transfer
  <2>2. CASE ~args.upload
    BY <1>2, <1>5, <2>2 DEF UploadRepoChanges, Goto, Stay, hosts
  <2> QED
    BY <2>1, <2>2
<1>6. CASE UploadFails
  BY <1>1, <1>6 DEF UploadFails, Transfer
<1>7. ASSUME NEW how, NEW why, End(how, why) PROVE EventInv'
  BY <1>1, <1>7 DEF End
<1>8. ASSUME NEW a \in ArgSet, Start(a) PROVE EventInv'
  BY <1>0, <1>1, <1>8 DEF Start, ServerPcs
<1>9. ASSUME NEW B \in SUBSET Rust, UpdateConfig(B) PROVE EventInv'
  BY <1>0, <1>1, <1>9 DEF UpdateConfig, ServerPcs
<1>10. CASE Download
  BY <1>0, <1>1, <1>10 DEF Download, ServerPcs
<1>11. CASE EverythingUpToDate \/ NoDaemonSpecified \/ PortTaken \/ PrepareFails \/ CidrFails
            \/ CaddyFails \/ Panic \/ Destroy \/ DestroyFails \/ DownloadFails \/ Kill
  BY <1>7, <1>11
  DEF EverythingUpToDate, NoDaemonSpecified, PortTaken, PrepareFails, CidrFails, CaddyFails,
      Panic, Destroy, DestroyFails, DownloadFails, Kill, Abort
<1>12. CASE Select \/ Install \/ Connect \/ BuildCaddy \/ StartCaddy \/ LoopDone
            \/ BuildAndUploadDocker \/ StopCaddy
  BY <1>2, <1>12
  DEF Select, Install, Connect, BuildCaddy, StartCaddy, LoopDone, BuildAndUploadDocker,
      StopCaddy, Goto, Stay, hosts, repos
<1>13. CASE CreateLocal
  BY <1>1, <1>13 DEF CreateLocal
<1>14. ASSUME NEW s \in Servers, CreateUpcloud(s) \/ CreateFails(s) PROVE EventInv'
  BY <1>0, <1>1, <1>14 DEF CreateUpcloud, CreateFails, ServerPcs, repos
<1>15. ASSUME NEW p \in Pkgs, NextPackage(p) PROVE EventInv'
  BY <1>2, <1>15 DEF NextPackage, hosts, repos
<1>16. CASE InstallFails \/ ConnectFails \/ TestFails \/ DockerFails
  BY <1>2, <1>16 DEF InstallFails, ConnectFails, TestFails, DockerFails, Cleanup, hosts, repos
<1>17. CASE UNCHANGED vars
  BY <1>2, <1>17 DEF vars, process, hosts, repos
<1> QED
  BY <1>3, <1>4, <1>5, <1>6, <1>8, <1>9, <1>10, <1>11, <1>12, <1>13, <1>14, <1>15, <1>16, <1>17
  DEF Next, Progress, Failure

LEMMA EventInvariant == Spec => []EventInv
<1>1. Init => EventInv
  BY DEF Init, EventInv
<1>2. TypeOK /\ ControlOK /\ EventInv /\ [Next]_vars => EventInv'
  BY EventStep
<1> QED
  BY <1>1, <1>2, ControlInvariant, PTL DEF Spec

LEMMA EndPub ==
  ASSUME PubInv, Keep # "always", UNCHANGED bucket, NEW how, NEW why, End(how, why),
         how \in {"uptodate", "done"} =>
            \A p \in Pkgs : local'[p] # "absent" => bucket'[p] = "good",
         how = "uptodate" => UpToDateMeansPublished'
  PROVE  PubInv'
<1>1. \A p \in Pkgs : saved'.file[p] # "absent" => bucket'[p] = "good"
  <2>1. CASE saved' = saved
    BY <2>1 DEF PubInv
  <2>2. CASE saved' # saved
    BY <2>2 DEF End
  <2> QED
    BY <2>1, <2>2
<1>2. pc' = "idle" /\ outcome' = how
  BY DEF End
<1> QED
  BY <1>1, <1>2 DEF PubInv, UpToDateMeansPublished

LEMMA AbortPub == ASSUME PubInv, Keep # "always", Abort PROVE PubInv'
  BY EndPub DEF Abort

(* A step of a run that goes on: only the files matter. *)
LEMMA GoesOnPub ==
  ASSUME PubInv, pc # "idle", pc' # "idle", outcome' = outcome,
         \A p \in Pkgs : saved'.file[p] # "absent" => bucket'[p] = "good",
         ~failing' => \A p \in Pkgs : local'[p] # "absent" => bucket'[p] = "good" \/ Pending(p)'
  PROVE  PubInv'
  BY DEF PubInv, UpToDateMeansPublished

(* Files that are left alone stay accounted for away from the test. *)
LEMMA QuietPub ==
  ASSUME PubInv, pc \notin {"idle", "test", "upload"}, pc' # "idle",
         UNCHANGED <<outcome, failing, local, bucket, saved>>
  PROVE  PubInv'
<1>1. ~failing' => \A p \in Pkgs : local'[p] # "absent" => bucket'[p] = "good" \/ Pending(p)'
  BY DEF PubInv, Pending
<1>2. \A p \in Pkgs : saved'.file[p] # "absent" => bucket'[p] = "good"
  BY DEF PubInv
<1> QED
  BY <1>1, <1>2, GoesOnPub

LEMMA PubStep ==
  ASSUME Keep # "always", Faults \cap {"short", "rejected"} = {}, \A a \in ArgSet : a.upload
  PROVE  TypeOK /\ ControlOK /\ GoodInv /\ EventInv /\ PubInv /\ [Next]_vars => PubInv'
<1> SUFFICES ASSUME TypeOK, ControlOK, GoodInv, EventInv, PubInv, [Next]_vars PROVE PubInv'
  OBVIOUS
<1>0. /\ pc \notin {"stop", "destroy"} => ~failing
      /\ args.upload
  BY DEF ControlOK, TypeOK
<1>1. ASSUME NEW a \in ArgSet, Start(a) PROVE PubInv'
  BY <1>1 DEF Start, PubInv, UpToDateMeansPublished
<1>2. ASSUME NEW B \in SUBSET Rust, UpdateConfig(B) PROVE PubInv'
  <2>1. \A p \in Pkgs : saved'.file[p] # "absent" => bucket'[p] = "good"
    BY <1>2 DEF UpdateConfig, PubInv
  <2>2. \A p \in Pkgs : local'[p] # "absent" => bucket'[p] = "good"
    BY <1>0, <1>2 DEF UpdateConfig, PubInv, Pending
  <2> QED
    BY <1>2, <2>1, <2>2, GoesOnPub DEF UpdateConfig, Goto, Stay
<1>3. CASE Download
  <2>1. \A p \in Pkgs : local'[p] # "absent" => bucket'[p] = "good"
    BY <1>0, <1>3, WholeDownload DEF Download, Outdated, PubInv, Pending, GoodInv, Tame
  <2>2. \A p \in Pkgs : saved'.file[p] # "absent" => bucket'[p] = "good"
    BY <1>3 DEF Download, PubInv
  <2> QED
    BY <1>3, <2>1, <2>2, GoesOnPub DEF Download, Goto, Stay
<1>4. CASE Select \/ CreateLocal \/ Install \/ Connect \/ BuildCaddy \/ StartCaddy \/ LoopDone \/ StopCaddy
  BY <1>4, QuietPub
  DEF Select, CreateLocal, Install, Connect, BuildCaddy, StartCaddy, LoopDone, StopCaddy,
      Goto, Stay, repos
<1>5. ASSUME NEW s \in Servers, CreateUpcloud(s) PROVE PubInv'
  BY <1>5, QuietPub DEF CreateUpcloud, Goto, Stay, repos
<1>6. ASSUME NEW p \in Pkgs, NextPackage(p) PROVE PubInv'
  BY <1>6, QuietPub DEF NextPackage, repos
<1>7. CASE EverythingUpToDate
  <2>1. \A p \in Pkgs : local[p] # "absent" => bucket[p] = "good"
    BY <1>0, <1>7 DEF EverythingUpToDate, PubInv, Pending
  <2>2. args.channels = {} => \A p \in Pkgs \ args.ignore : local[p] # "absent"
    BY <1>7 DEF EverythingUpToDate, Selected, Exists
  <2>3. UNCHANGED <<local, bucket, args>>
    BY <1>7 DEF EverythingUpToDate, End
  <2>4. UpToDateMeansPublished'
    BY <2>1, <2>2, <2>3 DEF UpToDateMeansPublished
  <2> QED
    BY <1>7, <2>1, <2>3, <2>4, EndPub DEF EverythingUpToDate
<1>8. CASE NoDaemonSpecified \/ PortTaken \/ PrepareFails \/ CidrFails \/ CaddyFails \/ Panic
  BY <1>8, AbortPub
  DEF NoDaemonSpecified, PortTaken, PrepareFails, CidrFails, CaddyFails, Panic
<1>9. CASE Build
  <2>1. \A p \in Pkgs : local[p] # "absent" => bucket[p] = "good"
    BY <1>0, <1>9 DEF Build, PubInv, Pending
  <2>2. pc' = "test" /\ UNCHANGED <<args, cur, failing, outcome, bucket, saved>>
    BY <1>9 DEF Build, Goto, Stay
  <2>3. CASE local' = local
    BY <1>9, <2>1, <2>2, <2>3, GoesOnPub DEF Build, PubInv
  <2>4. CASE local' # local
    <3>1. ~Skipped /\ Writes(Built)
      BY <1>9, <2>4 DEF Build
    <3>2. args.mode = "local" /\ local' = [local EXCEPT ![cur] = Built] /\ cur \in dirty'
      BY <2>4, <3>1, WriteOne DEF Writes
    <3>3. \A p \in Pkgs : local'[p] # "absent" => bucket'[p] = "good" \/ Pending(p)'
      BY <2>1, <2>2, <3>2 DEF TypeOK, Pending
    <3> QED
      BY <1>9, <2>2, <3>3, GoesOnPub DEF Build, PubInv
  <2> QED
    BY <2>3, <2>4
<1>10. CASE Test
  <2>1. pc' = "upload" /\ UNCHANGED <<args, cur, failing, outcome, dirty, bucket, saved>>
    BY <1>10 DEF Test, Goto, Stay
  <2>2. \A p \in Pkgs : local'[p] # "absent" => local[p] # "absent"
    <3>1. CASE local' = local
      BY <3>1
    <3>2. CASE local' # local
      <4>1. /\ args.mode = "local"
            /\ local' = [local EXCEPT ![cur] = IF Mounted[cur] = "new" THEN "good" ELSE Mounted[cur]]
        BY <1>10, <3>2, WriteOne DEF Test
      <4>2. Mounted = local
        BY <4>1 DEF Mounted
      <4> QED
        BY <4>1, <4>2 DEF TypeOK
    <3> QED
      BY <3>1, <3>2
  <2>3. \A p \in Pkgs : local'[p] # "absent" => bucket'[p] = "good" \/ Pending(p)'
    BY <1>0, <1>10, <2>1, <2>2 DEF Test, PubInv, Pending
  <2> QED
    BY <1>10, <2>1, <2>3, GoesOnPub DEF Test, PubInv
<1>11. CASE UploadRepoChanges
  <2>1. Tame(Mounted) /\ Transfer(Changed, {}, Changed) /\ Tame(bucket)
    BY <1>0, <1>11, AllTame, WholeUpload DEF UploadRepoChanges
  <2>0. \A p \in Changed : Mounted[p] = "good"
    BY <2>1 DEF Tame, Changed, EventInv, Mounted, TypeOK
  <2>2. \A p \in Pkgs : bucket[p] = "good" => bucket'[p] = "good"
    BY <2>0, <2>1 DEF Transfer, TypeOK
  <2>3. \A p \in Pkgs : local'[p] # "absent" => bucket'[p] = "good"
    <3>1. \A p \in Changed : bucket'[p] = "good"
      BY <2>0, <2>1 DEF Transfer, Changed, TypeOK
    <3>2. \A p \in Pkgs \ Changed : local'[p] = local[p]
      BY <2>1 DEF Transfer
    <3>3. \A p \in Pkgs : Pending(p) => p \in Changed
      BY DEF Pending, Changed
    <3> QED
      BY <1>0, <1>11, <2>2, <3>1, <3>2, <3>3 DEF UploadRepoChanges, PubInv
  <2> QED
    BY <1>11, <2>2, <2>3, GoesOnPub DEF UploadRepoChanges, Goto, Stay, PubInv
<1>12. CASE BuildAndUploadDocker
  BY <1>12, QuietPub DEF BuildAndUploadDocker, Goto, Stay
<1>13. CASE Destroy \/ DestroyFails
  <2>1. ~failing => \A p \in Pkgs : local[p] # "absent" => bucket[p] = "good"
    BY <1>13 DEF Destroy, DestroyFails, PubInv, Pending
  <2>2. /\ UNCHANGED <<local, bucket>>
        /\ \E why : End(Ending, why) \/ End("abort", why)
    BY <1>13 DEF Destroy, DestroyFails
  <2> QED
    BY <2>1, <2>2, EndPub DEF Ending
<1>14. CASE DownloadFails \/ Kill
  BY <1>14, EndPub DEF DownloadFails, Kill
<1>15. CASE InstallFails \/ ConnectFails \/ BuildFails \/ TestFails \/ DockerFails
  <2>1. /\ UNCHANGED <<bucket, saved, outcome>> /\ failing' = TRUE
        /\ pc # "idle" /\ pc' # "idle"
    BY <1>15
    DEF InstallFails, ConnectFails, BuildFails, TestFails, DockerFails, Cleanup, repos
  <2> QED
    BY <2>1, GoesOnPub DEF PubInv
<1>16. CASE UploadFails
  <2>1. Tame(Mounted)
    BY <1>0, <1>16, AllTame DEF UploadFails
  <2>2. \A p \in Pkgs : bucket[p] = "good" => bucket'[p] = "good"
    <3>1. PICK D, U, X \in SUBSET Changed :
             U \subseteq D /\ D \cap X = {} /\ Transfer(D, X, U)
      BY <1>16 DEF UploadFails
    <3>2. \A p \in U : Mounted[p] = "good"
      BY <2>1, <3>1 DEF Tame, Changed, EventInv, Mounted, TypeOK
    <3> QED
      BY <3>1, <3>2 DEF Transfer, TypeOK
  <2> QED
    BY <1>16, <2>2, GoesOnPub DEF UploadFails, Cleanup, PubInv
<1>17. ASSUME NEW s \in Servers, CreateFails(s) PROVE PubInv'
  BY <1>17 DEF CreateFails, PubInv, UpToDateMeansPublished
<1>18. CASE UNCHANGED vars
  BY <1>18 DEF vars, process, repos, PubInv, Pending, UpToDateMeansPublished
<1> QED
  BY <1>1, <1>2, <1>3, <1>4, <1>5, <1>6, <1>7, <1>8, <1>9, <1>10, <1>11, <1>12, <1>13,
     <1>14, <1>15, <1>16, <1>17, <1>18
  DEF Next, Progress, Failure

LEMMA InitPub == Init => PubInv
  BY DEF Init, PubInv, Empty, UpToDateMeansPublished

(* When every run uploads, a failed run's repodir is not used again and a  *)
(* transfer that goes wrong is noticed, "Everything is up to date" is true *)
(* of the published repository.                                            *)
THEOREM UpToDateIsPublished ==
  ASSUME Keep # "always", Faults \cap {"short", "rejected"} = {}, \A a \in ArgSet : a.upload
  PROVE  Spec => []UpToDateMeansPublished
<1>1. PubInv => UpToDateMeansPublished
  BY DEF PubInv
<1>2. TypeOK /\ ControlOK /\ GoodInv /\ EventInv /\ PubInv /\ [Next]_vars => PubInv'
  BY PubStep
<1> QED
  BY <1>1, <1>2, InitPub, ControlInvariant, EventInvariant, GoodInvariant, PTL DEF Spec
=============================================================================
