------------------------------ MODULE BuildOrder ------------------------------
(***************************************************************************)
(* Rust compiles rust: each channel's APKBUILD installs a boot compiler    *)
(* from the repository its own package goes to.  update_config of          *)
(* src/config.rs follows the releases, main.rs builds what is missing in   *)
(* the order of Packagelike, and the two must leave every build the        *)
(* compiler it needs, release after release.                               *)
(*                                                                         *)
(* A version is the minor number of 1.x; a channel is `stable`, `beta` or  *)
(* the minor number of a versioned channel ("1.49").                       *)
(***************************************************************************)
EXTENDS Naturals, Sequences, FiniteSets

CONSTANTS
    stable, beta,
    First,      \* the oldest versioned channel of config.toml
    Current,    \* the stable release a behaviour begins with
    Last,       \* bound on the versions
    BootSys,    \* channels whose boot compiler is alpine's own
    Ignore,     \* --ignore
    Lag,        \* how many releases config.toml may be behind when rust releases
    Faults,     \* which failures may happen, a subset of FaultKinds
    MaxFaults,  \* bound on the failures of a behaviour
    MaxBumps    \* bound on the changes of alpine.version

(* missing: a channel is skipped because some of its packages are not      *)
(* available.  error: a step of a run fails.  push: git does not push the  *)
(* commit, nobody looks at its exit code.                                  *)
FaultKinds == {"missing", "error", "push"}

Minors == First..Last
Channels == Minors \cup {stable, beta}

ASSUME VersionAssumption == /\ First \in Nat \ {0} /\ Current \in Nat /\ Last \in Nat
                            /\ First < Current /\ Current < Last
ASSUME NameAssumption == stable \notin Minors /\ beta \notin Minors /\ stable # beta
ASSUME ArgAssumption == BootSys \subseteq Minors /\ First \in BootSys /\ Ignore \subseteq Channels
ASSUME BoundAssumption == /\ Faults \subseteq FaultKinds
                          /\ Lag \in Nat /\ MaxFaults \in Nat /\ MaxBumps \in Nat

VARIABLES
    released,   \* rust's stable release; beta is one ahead
    git,        \* config.toml in the git repository: the version of each
                \* channel, 0 for a channel that is not there
    patches,    \* the versions with a branch patches/1.x
    published,  \* the packages in the bucket, a set of versions per channel
    pc,         \* where the run stands, "idle" between two runs
    conf,       \* config.toml as the run has it
    mounted,    \* the packages in the repository the builds install from
    todo, cur,  \* pkg_updates, and the package of this iteration
    faults, bumps

run == <<pc, conf, mounted, todo, cur>>
vars == <<released, git, patches, published, run, faults, bumps>>

NoChannel == 0
Configs == [Channels -> Minors \cup {0}]
Packages == [Channels -> SUBSET Minors]
NoPackages == [c \in Channels |-> {}]

TypeOK ==
    /\ released \in First..(Last - 1)
    /\ git \in Configs /\ conf \in Configs
    /\ patches \subseteq Minors
    /\ published \in Packages /\ mounted \in Packages
    /\ pc \in {"idle", "config", "select", "next", "build", "upload"}
    /\ todo \subseteq Channels /\ cur \in Channels \cup {NoChannel}
    /\ faults \in 0..MaxFaults /\ bumps \in 0..MaxBumps

InitialConfig == [c \in Channels |-> CASE c = stable -> Current
                                       [] c = beta -> Current + 1
                                       [] OTHER -> IF c <= Current THEN c ELSE 0]

Init ==
    /\ released = Current
    /\ git = InitialConfig /\ conf = InitialConfig
    /\ patches = First..(Current + 1)
    /\ published = [c \in Channels |-> {git[c]} \ {0}]
    /\ pc = "idle" /\ mounted = NoPackages /\ todo = {} /\ cur = NoChannel
    /\ faults = 0 /\ bumps = 0

Fault(k) == k \in Faults /\ faults < MaxFaults /\ faults' = faults + 1
NoFault == UNCHANGED faults

-----------------------------------------------------------------------------
(* Packagelike's order on the names of the rust channels *)

(* The digits of a versioned channel behind "1.", and the order of strings *)
(* (`channel.cmp(other_channel)`).                                         *)
Digits(n) == IF n < 10 THEN <<n>>
             ELSE IF n < 100 THEN <<n \div 10, n % 10>>
             ELSE <<n \div 100, (n \div 10) % 10, n % 10>>
StrLess(s, t) ==
    \E k \in 0..Len(s) :
        /\ k < Len(t)
        /\ \A i \in 1..k : s[i] = t[i]
        /\ k < Len(s) => s[k + 1] < t[k + 1]

(* A digit comes before a letter. *)
Less(a, b) ==
    \/ a \in Minors /\ b \in Minors /\ StrLess(Digits(a), Digits(b))
    \/ a \in Minors /\ b \in {stable, beta}
    \/ a = beta /\ b = stable

(* The compiler a channel is built with (`bootver`), and whether the one   *)
(* apk installs, the newest in the repository, is the previous version.    *)
BootChannel(c) == IF c = beta THEN stable ELSE conf[c] - 1
CanCompile(c) ==
    \/ c \in BootSys
    \/ /\ BootChannel(c) \in Channels
       /\ conf[c] - 1 \in mounted[BootChannel(c)]
       /\ \A v \in mounted[BootChannel(c)] : v <= conf[c] - 1

-----------------------------------------------------------------------------
(* The world *)

(* Rust releases: beta becomes stable, the next version becomes beta. *)
Release ==
    /\ released < Last - 1 /\ released - git[stable] <= Lag
    /\ released' = released + 1
    /\ UNCHANGED <<git, patches, published, run, faults, bumps>>

(* The maintainer raises alpine.version: the packages of the new alpine    *)
(* release are in a directory of their own.                                *)
RaiseAlpine ==
    /\ pc = "idle" /\ bumps < MaxBumps /\ bumps' = bumps + 1
    /\ published' = NoPackages
    /\ UNCHANGED <<released, git, patches, run, faults>>

-----------------------------------------------------------------------------
(* A run *)

EndRun == pc' = "idle" /\ mounted' = NoPackages /\ todo' = {} /\ cur' = NoChannel

Start ==
    /\ pc = "idle"
    /\ pc' = "config" /\ conf' = git /\ mounted' = published
    /\ UNCHANGED <<released, git, patches, published, todo, cur, faults, bumps>>

(* Seeded fault: nightly is taken for beta. *)
OfferedNightly(c) == IF c = stable THEN released ELSE released + 2

(* What static.rust-lang.org has for a channel. *)
Offered(c) == IF c = stable THEN released ELSE released + 1
Outdated == {c \in {stable, beta} : conf[c] # Offered(c)}

(* The patches of a version are copied from the version before, if they    *)
(* are not there already; stable is handled before beta.                   *)
CanPatch(v, P) == v \in P \/ v - 1 \in P
Patched(U) == patches \cup {Offered(c) : c \in U}
AllPatched(U) == \A c \in U : CanPatch(Offered(c), IF c = stable THEN patches
                                                   ELSE Patched(U \cap {stable}))

(* Seeded fault: a new stable release does not get a versioned channel.    *)
UpdateChannelsOnly(U) ==
    /\ pc = "config" /\ U \subseteq Outdated /\ AllPatched(U)
    /\ conf' = [c \in Channels |-> IF c \in U THEN Offered(c) ELSE conf[c]]
    /\ patches' = Patched(U)
    /\ \/ U = Outdated /\ NoFault /\ git' = conf'
       \/ U # Outdated /\ Fault("missing") /\ git' = conf'
       \/ U = Outdated /\ U # {} /\ Fault("push") /\ UNCHANGED git
    /\ pc' = "select"
    /\ UNCHANGED <<released, published, mounted, todo, cur, bumps>>

(* Seeded fault: the patches are not copied. *)
UpdateWithoutPatches(U) ==
    /\ pc = "config" /\ U \subseteq Outdated
    /\ conf' = [c \in Channels |-> IF c \in U THEN Offered(c)
                                   ELSE IF stable \in U /\ c = released THEN released
                                   ELSE conf[c]]
    /\ \/ U = Outdated /\ NoFault /\ git' = conf'
       \/ U # Outdated /\ Fault("missing") /\ git' = conf'
       \/ U = Outdated /\ U # {} /\ Fault("push") /\ UNCHANGED git
    /\ pc' = "select"
    /\ UNCHANGED <<released, patches, published, mounted, todo, cur, bumps>>

(* update_config for the channels U; a new stable release also becomes a   *)
(* versioned channel.  The file is written, committed and pushed.          *)
UpdateConfig(U) ==
    /\ pc = "config" /\ U \subseteq Outdated /\ AllPatched(U)
    /\ conf' = [c \in Channels |-> IF c \in U THEN Offered(c)
                                   ELSE IF stable \in U /\ c = released THEN released
                                   ELSE conf[c]]
    /\ patches' = Patched(U)
    /\ \/ U = Outdated /\ NoFault /\ git' = conf'
       \/ U # Outdated /\ Fault("missing") /\ git' = conf'
       \/ U = Outdated /\ U # {} /\ Fault("push") /\ UNCHANGED git
    /\ pc' = "select"
    /\ UNCHANGED <<released, published, mounted, todo, cur, bumps>>

(* `expect`: patches that cannot be copied, a download or a patch that     *)
(* fails.  The branches pushed so far stay, the file is not written.       *)
UpdateFails ==
    /\ pc = "config"
    /\ \E U \in SUBSET Outdated :
        \/ AllPatched(U) /\ Fault("error") /\ patches' = Patched(U)
        \/ /\ ~AllPatched(U)
           /\ IF U = Outdated THEN NoFault ELSE Fault("missing")
           /\ patches' = IF AllPatched(U \cap {stable}) THEN Patched(U \cap {stable})
                         ELSE patches
    /\ EndRun
    /\ UNCHANGED <<released, git, published, conf, bumps>>

Missing == {c \in Channels \ Ignore : conf[c] # 0 /\ conf[c] \notin mounted[c]}

Select ==
    /\ pc = "select"
    /\ IF Missing = {} THEN EndRun
       ELSE pc' = "next" /\ todo' = Missing /\ UNCHANGED <<mounted, cur>>
    /\ UNCHANGED <<released, git, patches, published, conf, faults, bumps>>

(* Seeded fault: pkg_updates has no order, as in a HashSet. *)
NextOfHashSet(c) ==
    /\ pc = "next" /\ c \in todo
    /\ pc' = "build" /\ cur' = c /\ todo' = todo \ {c}
    /\ UNCHANGED <<released, git, patches, published, conf, mounted, faults, bumps>>

NextPackage(c) ==
    /\ pc = "next" /\ c \in todo
    /\ \A d \in todo : ~Less(d, c)
    /\ pc' = "build" /\ cur' = c /\ todo' = todo \ {c}
    /\ UNCHANGED <<released, git, patches, published, conf, mounted, faults, bumps>>

LoopDone ==
    /\ pc = "next" /\ todo = {} /\ EndRun
    /\ UNCHANGED <<released, git, patches, published, conf, faults, bumps>>

(* Build and test: the package is in the mounted repository. *)
Build ==
    /\ pc = "build" /\ CanCompile(cur)
    /\ mounted' = [mounted EXCEPT ![cur] = @ \cup {conf[cur]}]
    /\ pc' = "upload"
    /\ UNCHANGED <<released, git, patches, published, conf, todo, cur, faults, bumps>>

(* Rust cannot be compiled with this compiler, or the build, the test or   *)
(* the upload fails: the run is over.                                      *)
BuildFails ==
    /\ \/ pc = "build" /\ ~CanCompile(cur) /\ NoFault
       \/ pc \in {"build", "upload"} /\ Fault("error")
    /\ EndRun
    /\ UNCHANGED <<released, git, patches, published, conf, bumps>>

(* Everything in the mounted repository is uploaded. *)
UploadRepoChanges ==
    /\ pc = "upload"
    /\ published' = mounted
    /\ pc' = "next" /\ cur' = NoChannel
    /\ UNCHANGED <<released, git, patches, conf, mounted, todo, faults, bumps>>

-----------------------------------------------------------------------------
Next ==
    \/ Release \/ RaiseAlpine \/ Start
    \/ \E U \in SUBSET {stable, beta} : UpdateConfig(U)
    \/ UpdateFails \/ Select
    \/ \E c \in Channels : NextPackage(c)
    \/ LoopDone \/ Build \/ BuildFails \/ UploadRepoChanges

Spec == Init /\ [][Next]_vars

(* The job is scheduled again and again, and a run is one task that goes   *)
(* through its steps.                                                      *)
FairSpec == Spec /\ WF_vars(Next)

-----------------------------------------------------------------------------
(* Properties *)

(* "rust always requires the previous version for compiling the current    *)
(* version" (config.toml): when the loop comes to a package, the newest    *)
(* boot compiler in the repository is that version.                        *)
BootReady == pc = "build" => CanCompile(cur)

(* When update_config looks for new versions, the patches of each of them, *)
(* or those of the version before to copy them from, are there: one update *)
(* that failed or was skipped half way does not block the later ones.      *)
PatchesReady == pc = "config" => AllPatched(Outdated)

(* A channel of config.toml has the branch its sources are patched from,   *)
(* whichever update failed half way.                                       *)
PatchesExist == \A c \in Channels : git[c] # 0 => git[c] \in patches

(* Every release is published in the end: no channel is stuck behind       *)
(* another one that cannot be built.                                       *)
Published ==
    <>[](\A c \in Channels \ Ignore :
            /\ git[c] # 0 => git[c] \in published[c]
            /\ c = stable \/ c = released => released \in published[c])
=============================================================================
