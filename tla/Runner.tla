------------------------------- MODULE Runner -------------------------------
(***************************************************************************)
(* The life of the alpine-rust process, run after run: `main` of           *)
(* src/main.rs with everything it calls that changes shared state.  One    *)
(* process runs at a time (a CI job or an operator); between two runs only *)
(* the bucket, the docker registry, the repository directory, the servers  *)
(* that were not deleted and the local docker daemon persist.              *)
(*                                                                         *)
(* A package stands for its apk file at the version config.toml asks for;  *)
(* a version bump makes that file absent everywhere.  The contents of such *)
(* a file are what the properties tell apart:                              *)
(*   absent - there is no file of that name                                *)
(*   part   - a truncated file (a transfer or a build that broke off)      *)
(*   new    - a complete rust package that has not passed its tests        *)
(*   good   - a complete package that passed its tests, or has none        *)
(***************************************************************************)
EXTENDS Naturals, FiniteSets

CONSTANTS
    Pkgs,       \* the names in config.toml: channels, llvm packages, crates
    Kind,       \* [Pkgs -> {"llvm", "rust", "crate"}]
    Rank,       \* [Pkgs -> Nat], the position Packagelike's Ord gives
    Servers,    \* uuids the provider hands out
    ArgSet,     \* the command lines in use, a subset of Args
    Keep,       \* what becomes of --repodir between runs: temp, onSuccess, always
    Faults,     \* which kinds of failure may happen, a subset of FaultKinds
    MaxFaults,  \* bound on the failures of a behaviour
    MaxBumps    \* bound on the updates of config.toml in a behaviour

Args == [mode : {"local", "upcloud", "none"},   \* -l, -u, neither
         upload : BOOLEAN,                      \* -p
         push : BOOLEAN,                        \* -d
         skipRust : BOOLEAN,                    \* --skip-rust-packages
         skipDocker : BOOLEAN,                  \* --skip-rust-docker
         update : BOOLEAN,                      \* -c
         channels : SUBSET Pkgs,                \* CHANNEL...
         ignore : SUBSET Pkgs]                  \* --ignore

(* error: a call returns Err.  create, delete: so does a call to the       *)
(* provider.  refused: the provider answers the delete request with an     *)
(* error status.  panic: an image build's status is an error (`expect`).   *)
(* kill: the process dies.  stop: caddy cannot be stopped.  short: a       *)
(* transfer to or from the server loses its end (`write` instead of        *)
(* `write_all`, a file that is not flushed) and returns Ok.  rejected: the *)
(* object store answers with an error status, which is Ok as well.         *)
FaultKinds == {"error", "create", "delete", "refused", "panic", "kill", "stop",
               "short", "rejected"}
Contents == {"absent", "part", "new", "good"}
LocalHost == "local"
NoHost == "nohost"
NoPkg == "nopkg"

ASSUME KindAssumption == Kind \in [Pkgs -> {"llvm", "rust", "crate"}]
ASSUME RankAssumption ==
    /\ Rank \in [Pkgs -> Nat]
    /\ \A p, q \in Pkgs : Rank[p] = Rank[q] => p = q
ASSUME NameAssumption == /\ Servers \cap {LocalHost, NoHost} = {}
                         /\ NoPkg \notin Pkgs
ASSUME ArgAssumption == ArgSet \subseteq Args
ASSUME KeepAssumption == Keep \in {"temp", "onSuccess", "always"}
ASSUME BoundAssumption == /\ Faults \subseteq FaultKinds
                          /\ MaxFaults \in Nat
                          /\ MaxBumps \in Nat

VARIABLES
    \* the process
    pc,         \* where main stands; "idle" between two runs
    args,       \* its command line
    todo,       \* what is left of pkg_updates
    cur,        \* the package of the current iteration
    failing,    \* an error path is cleaning up
    outcome,    \* how the last process ended
    \* the docker hosts
    handle,     \* the host of `server`: LocalHost, a uuid or NoHost
    servers,    \* the provider's machines that exist
    cause,      \* how the process that created a surviving machine ended
    caddy,      \* the hosts where a caddy container holds port 2015
    abandoned,  \* a process left its caddy running on the local daemon
    \* the repositories
    local,      \* the files in repodir
    etag,       \* the .etag file beside it equals the object's ETag
    remote,     \* the files in the repository directory of the server
    dirty,      \* inotify events not yet read (local mode)
    bucket,     \* the published repository
    index,      \* what its APKINDEX lists at the current version
    registry,   \* docker images: "old" or "current"
    saved,      \* what a new process finds in repodir
    \* the bounds
    bumps, faults

process == <<pc, args, todo, cur, failing, outcome>>
hosts == <<handle, servers, cause, caddy, abandoned>>
repos == <<local, etag, remote, dirty, bucket, index, registry, saved>>
vars == <<process, hosts, repos, bumps, faults>>

Rust == {p \in Pkgs : Kind[p] = "rust"}
Empty == [p \in Pkgs |-> "absent"]
NoEtags == [p \in Pkgs |-> FALSE]

TypeOK ==
    /\ pc \in {"idle", "config", "download", "select", "create", "install",
               "connect", "buildCaddy", "startCaddy", "next", "build", "test",
               "upload", "docker", "stop", "destroy"}
    /\ args \in ArgSet
    /\ todo \subseteq Pkgs
    /\ cur \in Pkgs \cup {NoPkg}
    /\ failing \in BOOLEAN
    /\ outcome \in {"never", "running", "uptodate", "done", "failed", "abort", "killed"}
    /\ handle \in Servers \cup {LocalHost, NoHost}
    /\ servers \subseteq Servers
    /\ cause \in [Servers -> {"none", "uptodate", "done", "failed", "abort",
                              "killed", "undeleted"}]
    /\ caddy \subseteq Servers \cup {LocalHost}
    /\ abandoned \in BOOLEAN
    /\ local \in [Pkgs -> Contents]
    /\ etag \in [Pkgs -> BOOLEAN]
    /\ remote \in [Pkgs -> Contents]
    /\ dirty \subseteq Pkgs
    /\ bucket \in [Pkgs -> Contents]
    /\ index \subseteq Pkgs
    /\ registry \in [Pkgs -> {"old", "current"}]
    /\ saved \in [file : [Pkgs -> Contents], etag : [Pkgs -> BOOLEAN]]
    /\ bumps \in 0..MaxBumps
    /\ faults \in 0..MaxFaults

Init ==
    /\ pc = "idle" /\ args \in ArgSet /\ todo = {} /\ cur = NoPkg
    /\ failing = FALSE /\ outcome = "never"
    /\ handle = NoHost /\ servers = {} /\ caddy = {} /\ abandoned = FALSE
    /\ cause = [s \in Servers |-> "none"]
    /\ local = Empty /\ etag = NoEtags /\ remote = Empty /\ dirty = {}
    /\ bucket = Empty /\ index = {} /\ registry = [p \in Pkgs |-> "old"]
    /\ saved = [file |-> Empty, etag |-> NoEtags]
    /\ bumps = 0 /\ faults = 0

-----------------------------------------------------------------------------
(* Helpers *)

(* A failure of kind k happens here; each one is paid for from the budget. *)
Fault(k) == k \in Faults /\ faults < MaxFaults /\ faults' = faults + 1
NoFault == UNCHANGED faults

(* The directory bind-mounted into the containers (Server::repomount). *)
Mounted == IF args.mode = "local" THEN local ELSE remote
SetMounted(f) == IF args.mode = "local" THEN local' = f /\ UNCHANGED remote
                                        ELSE remote' = f /\ UNCHANGED local

Stay == UNCHANGED <<args, todo, cur, failing, outcome>>
Goto(l) == pc' = l /\ Stay

(* The process is gone: how it ended, and for a machine that still exists  *)
(* why nobody deleted it.  A repodir given with --repodir is still there   *)
(* (always); the CI job stores it only after exit status 0 (onSuccess); a  *)
(* tempdir is never seen again (temp).                                     *)
End(how, why) ==
    /\ pc' = "idle" /\ outcome' = how
    /\ todo' = {} /\ cur' = NoPkg /\ failing' = FALSE /\ UNCHANGED args
    /\ handle' = NoHost
    /\ cause' = [s \in Servers |-> IF s = handle /\ s \in servers' THEN why ELSE cause[s]]
    /\ remote' = Empty /\ dirty' = {}
    /\ saved' = IF \/ Keep = "always"
                   \/ Keep = "onSuccess" /\ how \in {"uptodate", "done"}
                THEN [file |-> local', etag |-> etag']
                ELSE saved

(* Nobody will stop the caddy this process has on the local daemon. *)
Abandon == abandoned' = (abandoned \/ handle \in caddy \cap {LocalHost})

(* exit(1) or a panic that cleans nothing up. *)
Abort == /\ UNCHANGED <<servers, caddy, local, etag, bucket, index, registry, bumps>>
         /\ Abandon /\ End("abort", "abort")

(* The error paths of main that clean up: from the loop through caddy.stop *)
(* to server.destroy, before the loop straight to server.destroy.          *)
Cleanup(l) == pc' = l /\ failing' = TRUE /\ UNCHANGED <<args, todo, cur, outcome>>

-----------------------------------------------------------------------------
(* Before there is a server *)

Start(a) ==
    /\ pc = "idle"
    /\ pc' = "config" /\ args' = a /\ outcome' = "running"
    /\ local' = saved.file /\ etag' = saved.etag
    /\ NoFault
    /\ UNCHANGED <<todo, cur, failing, hosts, remote, dirty, bucket, index, registry, saved, bumps>>

(* `-c`: update_config writes newer versions of the channels B. *)
UpdateConfig(B) ==
    /\ pc = "config"
    /\ B # {} => args.update /\ bumps < MaxBumps
    /\ bumps' = IF B = {} THEN bumps ELSE bumps + 1
    /\ local' = [p \in Pkgs |-> IF p \in B THEN "absent" ELSE local[p]]
    /\ etag' = [p \in Pkgs |-> p \notin B /\ etag[p]]
    /\ bucket' = [p \in Pkgs |-> IF p \in B THEN "absent" ELSE bucket[p]]
    /\ index' = index \ B
    /\ registry' = [p \in Pkgs |-> IF p \in B THEN "old" ELSE registry[p]]
    /\ saved' = [file |-> [p \in Pkgs |-> IF p \in B THEN "absent" ELSE saved.file[p]],
                 etag |-> [p \in Pkgs |-> p \notin B /\ saved.etag[p]]]
    /\ Goto("download") /\ NoFault
    /\ UNCHANGED <<hosts, remote, dirty>>

(* The objects whose ETag is not the one noted beside the local file. *)
Outdated == {p \in Pkgs : bucket[p] # "absent" /\ ~etag[p]}

(* Seeded fault: a kept --repodir is taken for complete, nothing is fetched. *)
KeptDirIsComplete ==
    /\ pc = "download"
    /\ Goto("select") /\ NoFault
    /\ UNCHANGED <<hosts, repos, bumps>>

(* The body of a rejected request is written to the file, whose etag is    *)
(* the listed one all the same.                                            *)
Download ==
    /\ pc = "download"
    /\ \E X \in SUBSET Outdated :
        /\ \/ X = {} /\ NoFault
           \/ Cardinality(X) = 1 /\ Fault("rejected")
        /\ local' = [p \in Pkgs |-> IF p \in X THEN "part"
                                    ELSE IF p \in Outdated THEN bucket[p] ELSE local[p]]
    /\ etag' = [p \in Pkgs |-> p \in Outdated \/ etag[p]]
    /\ Goto("select")
    /\ UNCHANGED <<hosts, remote, dirty, bucket, index, registry, saved, bumps>>

(* The listing or a transfer breaks off: S is complete, X was truncated by *)
(* File::create and has no new etag.  main panics.                         *)
DownloadFails ==
    /\ pc = "download" /\ Fault("error")
    /\ \E S \in SUBSET Outdated : \E X \in SUBSET (Outdated \ S) :
        /\ Cardinality(X) <= 1
        /\ local' = [p \in Pkgs |-> IF p \in S THEN bucket[p]
                                    ELSE IF p \in X THEN "part" ELSE local[p]]
        /\ etag' = [p \in Pkgs |-> p \in S \/ etag[p]]
    /\ UNCHANGED <<servers, caddy, abandoned, bucket, index, registry, bumps>>
    /\ End("abort", "abort")

(* update_config, the config file, metadata::update and up_to_date end the *)
(* process when they fail; so does LocalServer::new.                       *)
PrepareFails ==
    /\ \/ pc \in {"config", "select"}
       \/ pc = "create" /\ args.mode = "local"
    /\ Fault("error") /\ Abort

Exists(p) == local[p] # "absent"
Selected == (IF args.channels = {} THEN {p \in Pkgs : ~Exists(p)} ELSE args.channels)
            \ args.ignore

(* Seeded fault: a CHANNEL argument is queued without being looked up. *)
SelectUnknown ==
    /\ pc = "select" /\ Selected # {} /\ args.mode # "none"
    /\ pc' = "create" /\ todo' = Selected \cup {NoPkg}
    /\ NoFault
    /\ UNCHANGED <<args, cur, failing, outcome, hosts, repos, bumps>>

Select ==
    /\ pc = "select" /\ Selected # {} /\ args.mode # "none"
    /\ pc' = "create" /\ todo' = Selected
    /\ NoFault
    /\ UNCHANGED <<args, cur, failing, outcome, hosts, repos, bumps>>

EverythingUpToDate ==
    /\ pc = "select" /\ Selected = {}
    /\ UNCHANGED <<servers, caddy, abandoned, local, etag, bucket, index, registry, bumps>>
    /\ End("uptodate", "uptodate") /\ NoFault

NoDaemonSpecified ==
    /\ pc = "select" /\ Selected # {} /\ args.mode = "none"
    /\ Abort /\ NoFault

-----------------------------------------------------------------------------
(* The server and its docker daemon *)

CreateLocal ==
    /\ pc = "create" /\ args.mode = "local"
    /\ handle' = LocalHost /\ dirty' = {}
    /\ Goto("install") /\ NoFault
    /\ UNCHANGED <<servers, cause, caddy, abandoned, local, etag, remote, bucket, index, registry,
                   saved, bumps>>

CreateUpcloud(s) ==
    /\ pc = "create" /\ args.mode = "upcloud"
    /\ s \notin servers
    /\ servers' = servers \cup {s} /\ handle' = s
    /\ cause' = [cause EXCEPT ![s] = "none"]
    /\ Goto("install") /\ NoFault
    /\ UNCHANGED <<caddy, abandoned, repos, bumps>>

(* The API call fails, or it has created the machine and the answer cannot *)
(* be used (no address, no keys): main panics in both cases.               *)
CreateFails(s) ==
    /\ pc = "create" /\ args.mode = "upcloud" /\ Fault("create")
    /\ s \notin servers
    /\ \/ servers' = servers /\ UNCHANGED cause
       \/ servers' = servers \cup {s} /\ cause' = [cause EXCEPT ![s] = "abort"]
    /\ pc' = "idle" /\ outcome' = "abort" /\ todo' = {}
    /\ saved' = IF Keep = "always" THEN [file |-> local, etag |-> etag] ELSE saved
    /\ UNCHANGED <<args, cur, failing, handle, caddy, abandoned, local, etag, remote,
                   dirty, bucket, index, registry, bumps>>

Install ==
    /\ pc = "install"
    /\ \/ args.mode = "local" /\ NoFault /\ UNCHANGED remote
       \/ args.mode = "upcloud" /\ NoFault /\ remote' = local
       \/ /\ args.mode = "upcloud" /\ Fault("short")
          /\ \E p \in Pkgs : Exists(p) /\ remote' = [local EXCEPT ![p] = "part"]
    /\ Goto("connect")
    /\ UNCHANGED <<hosts, local, etag, dirty, bucket, index, registry, saved, bumps>>

(* Seeded fault: the error path of install leaves main without destroy. *)
InstallFailsNoDestroy ==
    /\ pc = "install" /\ args.mode = "upcloud" /\ Fault("error")
    /\ UNCHANGED <<servers, caddy, abandoned, local, etag, bucket, index, registry, bumps>>
    /\ End("failed", "failed")

(* LocalServer::install cannot fail. *)
InstallFails ==
    /\ pc = "install" /\ args.mode = "upcloud" /\ Fault("error")
    /\ Cleanup("destroy")
    /\ UNCHANGED <<hosts, repos, bumps>>

(* Seeded fault: caddy is never started. *)
ConnectNoCaddy ==
    /\ pc = "connect"
    /\ Goto("next") /\ NoFault
    /\ UNCHANGED <<hosts, repos, bumps>>

Connect ==
    /\ pc = "connect"
    /\ Goto("buildCaddy") /\ NoFault
    /\ UNCHANGED <<hosts, repos, bumps>>

ConnectFails ==
    /\ pc = "connect" /\ Fault("error")
    /\ Cleanup("destroy")
    /\ UNCHANGED <<hosts, repos, bumps>>

(* /etc/docker/daemon.json of a local daemon: LocalServer::cidr_v6 panics. *)
CidrFails ==
    /\ pc = "connect" /\ args.mode = "local" /\ Fault("error")
    /\ Abort

BuildCaddy ==
    /\ pc = "buildCaddy"
    /\ Goto("startCaddy") /\ NoFault
    /\ UNCHANGED <<hosts, repos, bumps>>

StartCaddy ==
    /\ pc = "startCaddy" /\ handle \notin caddy
    /\ caddy' = caddy \cup {handle}
    /\ Goto("next") /\ NoFault
    /\ UNCHANGED <<handle, servers, cause, abandoned, repos, bumps>>

(* Both failures leave main through exit(1) without server.destroy. *)
CaddyFails ==
    /\ pc \in {"buildCaddy", "startCaddy"} /\ Fault("error")
    /\ Abort

PortTaken ==
    /\ pc = "startCaddy" /\ handle \in caddy
    /\ Abort /\ NoFault

-----------------------------------------------------------------------------
(* The loop over pkg_updates *)

NextPackage(p) ==
    /\ pc = "next" /\ p \in todo
    /\ \A q \in todo : Rank[p] <= Rank[q]
    /\ cur' = p /\ todo' = todo \ {p} /\ pc' = "build"
    /\ NoFault
    /\ UNCHANGED <<args, failing, outcome, hosts, repos, bumps>>

LoopDone ==
    /\ pc = "next" /\ todo = {}
    /\ Goto("stop") /\ NoFault
    /\ UNCHANGED <<hosts, repos, bumps>>

(* What abuild leaves behind: the apk file, and in local mode the event. *)
Built == IF cur \in Rust THEN "new" ELSE "good"
Writes(c) == /\ SetMounted([Mounted EXCEPT ![cur] = c])
             /\ dirty' = IF args.mode = "local" THEN dirty \cup {cur} ELSE dirty

Skipped == args.skipRust /\ cur \in Rust

(* Seeded fault: the upload comes before the test. *)
BuildThenUpload ==
    /\ pc = "build"
    /\ IF Skipped THEN UNCHANGED <<local, remote, dirty>> ELSE Writes(Built)
    /\ Goto("upload") /\ NoFault
    /\ UNCHANGED <<hosts, etag, bucket, index, registry, saved, bumps>>

Build ==
    /\ pc = "build"
    /\ IF Skipped THEN UNCHANGED <<local, remote, dirty>> ELSE Writes(Built)
    /\ Goto("test") /\ NoFault
    /\ UNCHANGED <<hosts, etag, bucket, index, registry, saved, bumps>>

(* Seeded fault: an error of the build is only logged. *)
BuildFailsGoesOn ==
    /\ pc = "build" /\ ~Skipped /\ Fault("error")
    /\ \/ UNCHANGED <<local, remote, dirty>>
       \/ \E c \in {"part", Built} : Writes(c)
    /\ Goto("test")
    /\ UNCHANGED <<hosts, etag, bucket, index, registry, saved, bumps>>

(* The image, the container or abuild fails; the file may be there, whole  *)
(* or not (docker_run_abuild also fails after abuild has succeeded).       *)
BuildFails ==
    /\ pc = "build" /\ ~Skipped /\ Fault("error")
    /\ \/ UNCHANGED <<local, remote, dirty>>
       \/ \E c \in {"part", Built} : Writes(c)
    /\ Cleanup("stop")
    /\ UNCHANGED <<hosts, etag, bucket, index, registry, saved, bumps>>

(* Only rust packages are tested.  A file that is not there can pass: then *)
(* apk installs an older version of the channel.                           *)
Test ==
    /\ pc = "test"
    /\ IF cur \in Rust
       THEN /\ Mounted[cur] # "part"
            /\ SetMounted([Mounted EXCEPT ![cur] = IF @ = "new" THEN "good" ELSE @])
       ELSE UNCHANGED <<local, remote>>
    /\ Goto("upload") /\ NoFault
    /\ UNCHANGED <<hosts, etag, dirty, bucket, index, registry, saved, bumps>>

(* Seeded faults: a failed test stops caddy and the loop goes on; or main  *)
(* destroys the server without stopping caddy first.                       *)
TestFailsGoesOn ==
    /\ pc = "test" /\ cur \in Rust
    /\ \/ Fault("error")
       \/ Mounted[cur] \in {"absent", "part"} /\ NoFault
    /\ caddy' = caddy \ {handle} /\ Goto("next")
    /\ UNCHANGED <<handle, servers, cause, abandoned, repos, bumps>>
TestFailsNoStop ==
    /\ pc = "test" /\ cur \in Rust
    /\ \/ Fault("error")
       \/ Mounted[cur] \in {"absent", "part"} /\ NoFault
    /\ Cleanup("destroy")
    /\ UNCHANGED <<hosts, repos, bumps>>

TestFails ==
    /\ pc = "test" /\ cur \in Rust
    /\ \/ Fault("error")
       \/ Mounted[cur] \in {"absent", "part"} /\ NoFault
    /\ Cleanup("stop")
    /\ UNCHANGED <<hosts, repos, bumps>>

(* What upload_repo_changes looks at: the files inotify reported, or every *)
(* file on the server (repo_index is never filled).                        *)
Changed == IF args.mode = "local" THEN dirty ELSE {p \in Pkgs : remote[p] # "absent"}

(* The files D arrive in repodir whole, X truncated; U reach the bucket as *)
(* they are there.                                                         *)
Transfer(D, X, U) ==
    /\ local' = [p \in Pkgs |-> IF p \in X THEN "part"
                                ELSE IF p \in D THEN Mounted[p] ELSE local[p]]
    /\ bucket' = [p \in Pkgs |-> IF p \in U THEN local'[p] ELSE bucket[p]]
    /\ etag' = [p \in Pkgs |-> p \in U \/ etag[p]]
    /\ dirty' = {}

(* On a server the new APKINDEX is among the files; on a local daemon it   *)
(* is renamed into place, which the inotify watch does not report, and is  *)
(* never uploaded.  The server has all files the bucket has.  Where the    *)
(* package was not built, the index may be the one that was downloaded.    *)
OwnIndex == args.mode # "local" /\ args.upload /\ ~Skipped
PublishIndex ==
    \/ args.mode # "local" /\ index' = index \cup {p \in Pkgs : remote[p] \in {"new", "good"}}
    \/ ~OwnIndex /\ UNCHANGED index

UploadRepoChanges ==
    /\ pc = "upload"
    /\ \/ ~args.upload /\ NoFault /\ UNCHANGED <<local, bucket, index, etag, dirty>>
       \/ args.upload /\ NoFault /\ Transfer(Changed, {}, Changed) /\ PublishIndex
       \/ /\ args.upload /\ args.mode = "upcloud" /\ Fault("short") /\ PublishIndex
          /\ \E p \in Changed : Transfer(Changed, {p}, Changed)
       \/ /\ args.upload /\ Fault("rejected")
          /\ \/ UNCHANGED index /\ Transfer(Changed, {}, Changed)
             \/ PublishIndex /\ \E p \in Changed : Transfer(Changed, {}, Changed \ {p})
    /\ Goto("docker")
    /\ UNCHANGED <<hosts, remote, registry, saved, bumps>>

(* Seeded fault: an error of an upload is only logged. *)
UploadFailsGoesOn ==
    /\ pc = "upload" /\ args.upload /\ Fault("error")
    /\ \E D \in SUBSET Changed : \E U \in SUBSET D, X \in SUBSET (Changed \ D) :
        /\ IF args.mode = "local" THEN D = Changed ELSE Cardinality(X) <= 1
        /\ Transfer(D, X, U)
    /\ PublishIndex \/ UNCHANGED index
    /\ Goto("docker")
    /\ UNCHANGED <<hosts, remote, registry, saved, bumps>>

(* Some uploads fail; the loop goes on with the others, the events are     *)
(* consumed all the same.  From a server a download may break off too, and *)
(* its file is truncated by then.                                          *)
UploadFails ==
    /\ pc = "upload" /\ args.upload /\ Fault("error")
    /\ \E D \in SUBSET Changed : \E U \in SUBSET D, X \in SUBSET (Changed \ D) :
        /\ IF args.mode = "local" THEN D = Changed ELSE Cardinality(X) <= 1
        /\ Transfer(D, X, U)
    /\ PublishIndex \/ UNCHANGED index
    /\ Cleanup("stop")
    /\ UNCHANGED <<hosts, remote, registry, saved, bumps>>

HasImage == Kind[cur] # "llvm"

(* The images install the package through the published index: its current *)
(* version if that is listed, else an older one.                           *)
BuildAndUploadDocker ==
    /\ pc = "docker"
    /\ IF ~args.skipDocker /\ HasImage
       THEN /\ cur \in index => bucket[cur] \notin {"absent", "part"}
            /\ registry' = IF args.push
                           THEN [registry EXCEPT ![cur] = IF cur \in index THEN "current" ELSE "old"]
                           ELSE registry
       ELSE UNCHANGED registry
    /\ Goto("next") /\ NoFault
    /\ UNCHANGED <<hosts, local, etag, remote, dirty, bucket, index, saved, bumps>>

(* No version is listed, the file is not there, or it is not the one that  *)
(* an index of another run lists.                                          *)
DockerFails ==
    /\ pc = "docker" /\ ~args.skipDocker /\ HasImage
    /\ \/ Fault("error")
       \/ /\ cur \notin index \/ bucket[cur] \in {"absent", "part"} \/ ~OwnIndex
          /\ NoFault
    /\ Cleanup("stop")
    /\ UNCHANGED <<hosts, repos, bumps>>

-----------------------------------------------------------------------------
(* The end of a run *)

StopCaddy ==
    /\ pc = "stop"
    /\ \/ caddy' = caddy \ {handle} /\ NoFault /\ UNCHANGED abandoned
       \/ UNCHANGED caddy /\ Fault("stop") /\ Abandon       \* only logged
    /\ Goto("destroy")
    /\ UNCHANGED <<handle, servers, cause, repos, bumps>>

Ending == IF failing THEN "failed" ELSE "done"

Destroy ==
    /\ pc = "destroy"
    /\ servers' = servers \ {handle}
    /\ caddy' = IF handle \in Servers THEN caddy \ {handle} ELSE caddy
    /\ UNCHANGED <<abandoned, local, etag, bucket, index, registry, bumps>>
    /\ End(Ending, Ending) /\ NoFault

(* destroy_server fails (`expect` panics), or the provider refuses and     *)
(* nobody looks at the status.                                             *)
DestroyFails ==
    /\ pc = "destroy" /\ handle \in Servers
    /\ UNCHANGED <<servers, caddy, abandoned, local, etag, bucket, index, registry, bumps>>
    /\ \/ Fault("delete") /\ End("abort", "undeleted")
       \/ Fault("refused") /\ End(Ending, "undeleted")

(* build_image's `status.expect`, called from the steps below. *)
Panic ==
    /\ \/ pc \in {"buildCaddy", "test"}
       \/ pc = "build" /\ ~Skipped
       \/ pc = "docker" /\ ~args.skipDocker /\ HasImage
    /\ pc = "test" => cur \in Rust
    /\ Fault("panic") /\ Abort

Kill ==
    /\ pc # "idle" /\ Fault("kill")
    /\ UNCHANGED <<servers, caddy, local, etag, bucket, index, registry, bumps>>
    /\ Abandon /\ End("killed", "killed")

-----------------------------------------------------------------------------
Progress ==
    \/ \E a \in ArgSet : Start(a)
    \/ \E B \in SUBSET Rust : UpdateConfig(B)
    \/ Download \/ Select \/ EverythingUpToDate \/ NoDaemonSpecified
    \/ CreateLocal \/ Install \/ Connect \/ BuildCaddy \/ StartCaddy \/ PortTaken
    \/ \E s \in Servers : CreateUpcloud(s)
    \/ \E p \in Pkgs : NextPackage(p)
    \/ LoopDone \/ Build \/ Test \/ UploadRepoChanges \/ BuildAndUploadDocker
    \/ StopCaddy \/ Destroy

Failure ==
    \/ DownloadFails \/ PrepareFails \/ InstallFails \/ ConnectFails \/ CidrFails
    \/ \E s \in Servers : CreateFails(s)
    \/ CaddyFails \/ BuildFails \/ TestFails \/ UploadFails \/ DockerFails
    \/ DestroyFails \/ Panic \/ Kill

Next == Progress \/ Failure

Spec == Init /\ [][Next]_vars

(* main is one task that awaits one call after the other, and CI starts    *)
(* the next run: whatever can happen next, success or failure, happens.    *)
FairSpec == Spec /\ WF_vars(Next)

-----------------------------------------------------------------------------
(* Properties *)

ServerPcs == {"install", "connect", "buildCaddy", "startCaddy", "next", "build",
              "test", "upload", "docker", "stop", "destroy"}
LoopPcs == {"next", "build", "test", "upload", "docker"}

(* A machine that outlives the process that created it is never the result *)
(* of a run that went through main's cleanup with the provider's consent:  *)
(* the process was killed, panicked or left main without cleaning up, or   *)
(* the provider did not delete the machine (main.rs, the error paths).     *)
CleanExitLeavesNoServer ==
    \A s \in servers : \/ s = handle
                       \/ cause[s] \in {"abort", "killed", "undeleted"}

(* What the Server trait says of destroy, taken at its word: whatever      *)
(* error ends a run, no machine survives it.                               *)
NoServerSurvivesRun == pc = "idle" => servers = {}

(* From the first docker call to the last the daemon's host exists, and    *)
(* while packages are built, tested and uploaded caddy serves the          *)
(* repository there: nothing uses the server after destroy or the          *)
(* repository after caddy.stop, on any of main's paths.                    *)
EnvironmentUp ==
    /\ pc \in ServerPcs => handle = LocalHost \/ handle \in servers
    /\ pc \in LoopPcs => handle \in caddy

(* The port caddy binds is taken when a run comes to bind it only on the   *)
(* local daemon, where a process died or panicked while its caddy ran, or  *)
(* could not stop it: a run that merely failed took its caddy down.        *)
PortFree ==
    pc = "startCaddy" /\ handle \in caddy => handle = LocalHost /\ abandoned

(* The bucket never holds a truncated package, nor a rust package that has *)
(* not passed its tests, although every upload publishes whatever is in    *)
(* the directory.                                                          *)
OnlyGoodPublished == \A p \in Pkgs : bucket[p] \in {"absent", "good"}

(* Whatever becomes of transfers and uploads: a rust package that has not  *)
(* passed its tests never gets into the bucket, neither from a build that  *)
(* failed later nor from a directory an earlier run left behind.           *)
OnlyTestedPublished == \A p \in Pkgs : bucket[p] # "new"

(* With -p, the docker images of a package are built when the package they *)
(* install has reached the bucket, on every way through the loop, and with *)
(* a server when the index they find it through lists it.                  *)
ImageFromPublished ==
    pc = "docker" /\ args.upload /\ ~args.skipRust =>
        bucket[cur] = "good" /\ (args.mode # "local" => cur \in index)

(* Hours of compiling are not spent on what is already published, unless   *)
(* the command line names the package.                                     *)
NoRebuildOfPublished ==
    pc = "build" /\ args.channels = {} => bucket[cur] # "good"

(* A run with -p that calls everything up to date leaves nothing           *)
(* unpublished that it was responsible for.                                *)
UpToDateMeansPublished ==
    outcome = "uptodate" /\ pc = "idle" /\ args.upload /\ args.channels = {}
        => \A p \in Pkgs \ args.ignore : bucket[p] = "good"


(* A run goes wrong only when something failed while it ran, or for a      *)
(* reason that is no state an earlier run left: no daemon was asked for, a *)
(* process has abandoned its caddy on the local daemon, the rust packages  *)
(* are skipped or nothing is uploaded, so that a test or an image finds no *)
(* package, or a local daemon is used, from which no index is uploaded.    *)
(* Whatever failed runs leave behind, the next one can succeed.            *)
FailsForAReason ==
    [][\/ ~failing /\ failing'
       \/ outcome = "running" /\ outcome' = "abort"
       => \/ faults' # faults
          \/ pc = "select" /\ args.mode = "none"
          \/ pc = "startCaddy" /\ abandoned
          \/ pc = "test" /\ args.skipRust
          \/ pc = "docker" /\ (args.skipRust \/ ~args.upload \/ args.mode = "local")]_vars

(* All runs together, with what fails in them and between them, are what   *)
(* Repository promises its users: nothing that was published is replaced   *)
(* by less or taken away, no image is called current before its package.   *)
Repo == INSTANCE Repository WITH apk <- bucket, image <- registry
ImplementsRepository == Repo!Spec

(* Once nothing fails any more, the scheduled runs publish every package   *)
(* that is not ignored, and it stays published.                            *)
Converges ==
    <>[](\A p \in Pkgs : (\E a \in ArgSet : p \in a.ignore) \/ bucket[p] = "good")
=============================================================================
