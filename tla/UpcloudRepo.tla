----------------------------- MODULE UpcloudRepo -----------------------------
(***************************************************************************)
(* The published repository file by file: what repo::download, the         *)
(* UpcloudServer's install and upload_repo_changes and the ssh transfers   *)
(* under them do to the bucket, when several jobs of the scheduled command *)
(* line (-u -p, a repodir restored before and stored after a successful    *)
(* run) overlap.  Runner has one file per package and one process at a     *)
(* time; here a package is an apk file and the apk files of its            *)
(* subpackages, and APKINDEX.tar.gz is an object like the others.          *)
(*                                                                         *)
(* The contents of a file are a number: 0 no file, b > 0 what build b      *)
(* wrote, b < 0 something torn (cut short, or the body of an error).  An   *)
(* ETag is the contents it is the hash of, 0 no or an empty .etag file.    *)
(***************************************************************************)
EXTENDS Integers, FiniteSets

CONSTANTS
    Jobs,       \* processes that may run at the same time
    Pkgs,       \* the packages, at the versions that are released
    Old,        \* those config.toml has from the beginning
    Files,      \* their apk files
    Owner,      \* [Files -> Pkgs], the package whose build writes the file
    Main,       \* [Pkgs -> Files], the file up_to_date looks for
    Index,      \* APKINDEX.tar.gz
    Rank,       \* the order in which the store lists its keys
    Faults,     \* which kinds of failure may happen, a subset of FaultKinds
    MaxFaults,  \* bound on the failures of a behaviour
    MaxBuilds   \* bound on the builds of a behaviour

Objects == Files \cup {Index}
NoPkg == "nopkg"
NoFile == "nofile"

(* error: a call returns Err.  kill: the process dies.  short: a transfer  *)
(* loses its end (`write` for `write_all`, a file that is not flushed) and *)
(* returns Ok.  rejected: the store answers with an error status, which is *)
(* Ok as well.  etag: an .etag file cannot be created or written, which is *)
(* only logged.                                                            *)
FaultKinds == {"error", "kill", "short", "rejected", "etag"}

ASSUME FileAssumption ==
    /\ Owner \in [Files -> Pkgs] /\ Main \in [Pkgs -> Files]
    /\ \A p \in Pkgs : Owner[Main[p]] = p
    /\ Old \subseteq Pkgs
    /\ Index \notin Files /\ NoFile \notin Objects /\ NoPkg \notin Pkgs
ASSUME RankAssumption ==
    /\ Rank \in [Objects -> Nat]
    /\ \A f, g \in Objects : Rank[f] = Rank[g] => f = g
ASSUME BoundAssumption == /\ Faults \subseteq FaultKinds
                          /\ MaxFaults \in Nat /\ MaxBuilds \in Nat

VARIABLES
    \* what the jobs share
    wanted,     \* the packages in config.toml
    bucket,     \* the published repository
    lists,      \* what the index written by a build lists: contents by file
    saved,      \* the stored repodir, and whether a clean run stored it
    rejected,   \* objects a request for which was ever rejected (history)
    \* one value for each job
    pc,         \* where it stands; "idle" between two runs
    outcome,    \* how its last run ended
    listing,    \* the ETags of the bucket's objects when they were listed
    local,      \* the files in its repodir
    etag,       \* the .etag files beside them
    machine,    \* the repository directory of its server
    todo,       \* what is left of pkg_updates
    cur,        \* the package of the current iteration
    left,       \* what is left of the loop over objs, over updated
    moving,     \* the file of the current iteration of upload_repo_changes
    failed,     \* `res` is an error
    written,    \* what its builds have written in this run (history)
    alone,      \* no other job has been running during this run (history)
    fresh,      \* the run started from what a clean run stored (history)
    \* the bounds
    builds, faults

shared == <<wanted, bucket, lists, saved, rejected>>
dirs == <<listing, local, etag, machine>>
loop == <<todo, cur, left, moving, failed>>
history == <<written, alone, fresh>>
vars == <<shared, pc, outcome, dirs, loop, history, builds, faults>>

Nothing == [f \in Objects |-> 0]
NothingListed == [f \in Files |-> 0]

TypeOK ==
    /\ wanted \subseteq Pkgs /\ bucket \in [Objects -> Int]
    /\ lists \in [1..MaxBuilds -> [Files -> Int]]
    /\ saved \in [file : [Objects -> Int], etag : [Objects -> Int], clean : BOOLEAN]
    /\ rejected \subseteq Objects
    /\ pc \in [Jobs -> {"idle", "download", "install", "next", "build",
                        "index", "fetch", "put", "mark"}]
    /\ outcome \in [Jobs -> {"never", "running", "uptodate", "done", "failed"}]
    /\ listing \in [Jobs -> [Objects -> Int]]
    /\ local \in [Jobs -> [Objects -> Int]]
    /\ etag \in [Jobs -> [Objects -> Int]]
    /\ machine \in [Jobs -> [Objects -> Int]]
    /\ todo \in [Jobs -> SUBSET Pkgs]
    /\ cur \in [Jobs -> Pkgs \cup {NoPkg}]
    /\ left \in [Jobs -> SUBSET Objects]
    /\ moving \in [Jobs -> Objects \cup {NoFile}]
    /\ failed \in [Jobs -> BOOLEAN]
    /\ written \in [Jobs -> SUBSET Objects]
    /\ alone \in [Jobs -> BOOLEAN] /\ fresh \in [Jobs -> BOOLEAN]
    /\ builds \in 0..MaxBuilds /\ faults \in 0..MaxFaults

Init ==
    /\ wanted = Old
    /\ bucket = Nothing /\ lists = [b \in 1..MaxBuilds |-> NothingListed]
    /\ saved = [file |-> Nothing, etag |-> Nothing, clean |-> TRUE]
    /\ rejected = {}
    /\ pc = [j \in Jobs |-> "idle"] /\ outcome = [j \in Jobs |-> "never"]
    /\ listing = [j \in Jobs |-> Nothing] /\ local = listing
    /\ etag = listing /\ machine = listing
    /\ todo = [j \in Jobs |-> {}] /\ cur = [j \in Jobs |-> NoPkg]
    /\ left = todo /\ moving = [j \in Jobs |-> NoFile]
    /\ failed = [j \in Jobs |-> FALSE]
    /\ written = todo /\ alone = failed /\ fresh = failed
    /\ builds = 0 /\ faults = 0

-----------------------------------------------------------------------------
Fault(k) == k \in Faults /\ faults < MaxFaults /\ faults' = faults + 1
NoFault == UNCHANGED faults
Torn == -(faults + 1)       \* unlike any other contents

Goto(j, l) == pc' = [pc EXCEPT ![j] = l] /\ UNCHANGED outcome
Clean(j) == alone[j] /\ fresh[j]

Forget(j) ==
    /\ listing' = [listing EXCEPT ![j] = Nothing]
    /\ local' = [local EXCEPT ![j] = Nothing]
    /\ etag' = [etag EXCEPT ![j] = Nothing]
    /\ machine' = [machine EXCEPT ![j] = Nothing]
    /\ todo' = [todo EXCEPT ![j] = {}] /\ cur' = [cur EXCEPT ![j] = NoPkg]
    /\ left' = [left EXCEPT ![j] = {}] /\ moving' = [moving EXCEPT ![j] = NoFile]
    /\ failed' = [failed EXCEPT ![j] = FALSE]
    /\ written' = [written EXCEPT ![j] = {}]
    /\ alone' = [alone EXCEPT ![j] = FALSE] /\ fresh' = [fresh EXCEPT ![j] = FALSE]

Repodir(j) == [file |-> local[j], etag |-> etag[j], clean |-> Clean(j)]

(* Seeded fault: the CI stores the repodir whatever the exit status. *)
EndStored(j, how) ==
    /\ pc' = [pc EXCEPT ![j] = "idle"] /\ outcome' = [outcome EXCEPT ![j] = how]
    /\ saved' = Repodir(j)
    /\ Forget(j)
    /\ UNCHANGED <<wanted, bucket, lists, rejected, builds>>

(* The process is gone, and with it its repodir and what it had in memory; *)
(* the CI stores the repodir of a run that exited with status 0.  The      *)
(* machine is destroyed or nobody knows it any more.                       *)
End(j, how) ==
    /\ pc' = [pc EXCEPT ![j] = "idle"] /\ outcome' = [outcome EXCEPT ![j] = how]
    /\ saved' = IF how = "failed" THEN saved ELSE Repodir(j)
    /\ Forget(j)
    /\ UNCHANGED <<wanted, bucket, lists, rejected, builds>>

(* The note of the ETag e beside the file f.  Where the .etag file cannot  *)
(* be created the old one stays beside the new file; where it cannot be    *)
(* written it is empty.                                                    *)
Note(j, f, e) == etag' = [etag EXCEPT ![j][f] = e]
NoteFails(j, f) == Note(j, f, etag[j][f]) \/ Note(j, f, 0)

-----------------------------------------------------------------------------
(* repo::download *)

(* The listed objects whose ETag is not the one noted beside the file. *)
Outdated(file, tag) == {f \in Objects : bucket[f] # 0 /\ tag[f] # bucket[f]}

(* config.toml is read before the bucket is listed. *)
Start(j) ==
    /\ pc[j] = "idle" /\ NoFault
    /\ pc' = [pc EXCEPT ![j] = "download"] /\ outcome' = [outcome EXCEPT ![j] = "running"]
    /\ todo' = [todo EXCEPT ![j] = wanted]
    /\ listing' = [listing EXCEPT ![j] = bucket]
    /\ local' = [local EXCEPT ![j] = saved.file]
    /\ etag' = [etag EXCEPT ![j] = saved.etag]
    /\ left' = [left EXCEPT ![j] = Outdated(saved.file, saved.etag)]
    /\ alone' = [k \in Jobs |-> k = j /\ \A i \in Jobs \ {j} : pc[i] = "idle"]
    /\ fresh' = [fresh EXCEPT ![j] = saved.clean]
    /\ UNCHANGED <<shared, machine, cur, moving, failed, written, builds>>

(* The file gets the contents of now and the ETag of the listing.  Of a    *)
(* rejected request it gets the body.                                      *)
Get(j, f) ==
    /\ pc[j] = "download" /\ f \in left[j]
    /\ \A g \in left[j] : Rank[f] <= Rank[g]
    /\ \/ /\ local' = [local EXCEPT ![j][f] = bucket[f]] /\ UNCHANGED rejected
          /\ \/ Note(j, f, listing[j][f]) /\ NoFault
             \/ NoteFails(j, f) /\ Fault("etag")
       \/ /\ local' = [local EXCEPT ![j][f] = Torn] /\ rejected' = rejected \cup {f}
          /\ Note(j, f, listing[j][f]) /\ Fault("rejected")
    /\ left' = [left EXCEPT ![j] = @ \ {f}]
    /\ UNCHANGED <<wanted, bucket, lists, saved, pc, outcome, listing, machine, todo, cur, moving,
                   failed, history, builds>>

-----------------------------------------------------------------------------
(* main, and UpcloudServer::install *)

Downloaded(j) == pc[j] = "download" /\ left[j] = {}
Missing(j) == {p \in todo[j] : local[j][Main[p]] = 0}

(* Seeded fault: a CHANNEL that is not in config.toml is queued as well. *)
SelectUnknown(j) ==
    /\ Downloaded(j) /\ Missing(j) # {}
    /\ todo' = [todo EXCEPT ![j] = Missing(j) \cup {NoPkg}]
    /\ Goto(j, "install") /\ NoFault
    /\ UNCHANGED <<shared, dirs, cur, left, moving, failed, history, builds>>

Select(j) ==
    /\ Downloaded(j) /\ Missing(j) # {}
    /\ todo' = [todo EXCEPT ![j] = Missing(j)]
    /\ Goto(j, "install") /\ NoFault
    /\ UNCHANGED <<shared, dirs, cur, left, moving, failed, history, builds>>

EverythingUpToDate(j) ==
    /\ Downloaded(j) /\ Missing(j) = {}
    /\ End(j, "uptodate") /\ NoFault

(* Seeded fault: the machine's repository directory stays empty. *)
InstallDockerOnly(j) ==
    /\ pc[j] = "install"
    /\ Goto(j, "next") /\ NoFault
    /\ UNCHANGED <<shared, dirs, loop, history, builds>>

(* Every file of the repodir goes to the machine. *)
Install(j) ==
    /\ pc[j] = "install"
    /\ \/ machine' = [machine EXCEPT ![j] = local[j]] /\ NoFault
       \/ \E f \in Objects :
            /\ local[j][f] # 0 /\ Fault("short")
            /\ machine' = [machine EXCEPT ![j] = [local[j] EXCEPT ![f] = Torn]]
    /\ Goto(j, "next")
    /\ UNCHANGED <<shared, listing, local, etag, loop, history, builds>>

(* The order of the packages is Runner's and BuildOrder's subject. *)
NextPackage(j, p) ==
    /\ pc[j] = "next" /\ p \in todo[j]
    /\ cur' = [cur EXCEPT ![j] = p] /\ todo' = [todo EXCEPT ![j] = @ \ {p}]
    /\ Goto(j, "build") /\ NoFault
    /\ UNCHANGED <<shared, dirs, left, moving, failed, history, builds>>

Finish(j) ==
    /\ pc[j] = "next" /\ todo[j] = {}
    /\ End(j, "done") /\ NoFault

(* abuild writes the apk files of the package and an index of the whole    *)
(* apk files that are there; the test of the package changes nothing.      *)
Output(j) == {f \in Files : Owner[f] = cur[j]} \cup {Index}
Whole(dir) == [f \in Files |-> IF dir[f] > 0 THEN dir[f] ELSE 0]
Build(j) ==
    /\ pc[j] = "build" /\ builds < MaxBuilds
    /\ builds' = builds + 1
    /\ machine' = [machine EXCEPT ![j] =
                     [f \in Objects |-> IF f \in Output(j) THEN builds + 1 ELSE @[f]]]
    /\ lists' = [lists EXCEPT ![builds + 1] = Whole(machine'[j])]
    /\ written' = [written EXCEPT ![j] = @ \cup Output(j)]
    /\ Goto(j, "index") /\ NoFault
    /\ UNCHANGED <<wanted, bucket, saved, rejected, listing, local, etag, loop, alone,
                   fresh>>

-----------------------------------------------------------------------------
(* UpcloudServer::upload_repo_changes *)

(* `updated` is every file on the machine: repo_index is never filled. *)
IndexMachine(j) ==
    /\ pc[j] = "index"
    /\ left' = [left EXCEPT ![j] = {f \in Objects : machine[j][f] # 0}]
    /\ failed' = [failed EXCEPT ![j] = FALSE]
    /\ Goto(j, "fetch") /\ NoFault
    /\ UNCHANGED <<shared, dirs, todo, cur, moving, history, builds>>

(* ssh::download: the last write may not have reached the file yet. *)
Fetch(j, f) ==
    /\ pc[j] = "fetch" /\ f \in left[j]
    /\ moving' = [moving EXCEPT ![j] = f] /\ left' = [left EXCEPT ![j] = @ \ {f}]
    /\ \/ local' = [local EXCEPT ![j][f] = machine[j][f]] /\ NoFault
       \/ local' = [local EXCEPT ![j][f] = Torn] /\ Fault("short")
    /\ Goto(j, "put")
    /\ UNCHANGED <<shared, listing, etag, machine, todo, cur, failed, history, builds>>

(* What a reader of the file that is being moved finds: what Fetch left    *)
(* there, or by now the rest of it as well.                                *)
Readable(j) == {local[j][moving[j]], machine[j][moving[j]]}

(* The object is what the file had become when it was read. *)
Store(j) == \E c \in Readable(j) : /\ bucket' = [bucket EXCEPT ![moving[j]] = c]
                                   /\ local' = [local EXCEPT ![j][moving[j]] = c]

(* repo::upload: put_object_stream.  A rejected request is Ok, too. *)
Put(j) ==
    /\ pc[j] = "put"
    /\ \/ Store(j) /\ NoFault /\ UNCHANGED rejected
       \/ /\ rejected' = rejected \cup {moving[j]}
          /\ Fault("rejected") /\ UNCHANGED <<bucket, local>>
    /\ Goto(j, "mark")
    /\ UNCHANGED <<wanted, lists, saved, listing, etag, machine, loop, history, builds>>

(* Seeded fault: an upload that fails is logged and forgotten. *)
PutFailsLogged(j) ==
    /\ pc[j] = "put" /\ Fault("error")
    /\ UNCHANGED <<bucket, local>> \/ Store(j)
    /\ Goto(j, "fetch")
    /\ UNCHANGED <<wanted, lists, saved, rejected, listing, etag, machine, loop, history, builds>>

(* An error is kept in `res` and the loop goes on with the next file; the  *)
(* object may have been stored all the same.                               *)
PutFails(j) ==
    /\ pc[j] = "put" /\ Fault("error")
    /\ UNCHANGED <<bucket, local>> \/ Store(j)
    /\ failed' = [failed EXCEPT ![j] = TRUE]
    /\ Goto(j, "fetch")
    /\ UNCHANGED <<wanted, lists, saved, rejected, listing, etag, machine, todo, cur, left,
                   moving, history, builds>>

(* The rest of repo::upload: the hash of the file becomes its etag. *)
Mark(j) ==
    /\ pc[j] = "mark"
    /\ \E c \in Readable(j) :
        /\ local' = [local EXCEPT ![j][moving[j]] = c]
        /\ \/ (\E h \in {local[j][moving[j]], c} : Note(j, moving[j], h)) /\ NoFault
           \/ NoteFails(j, moving[j]) /\ Fault("etag")
    /\ Goto(j, "fetch")
    /\ UNCHANGED <<shared, listing, machine, loop, history, builds>>

Uploaded(j) ==
    /\ pc[j] = "fetch" /\ left[j] = {} /\ ~failed[j]
    /\ Goto(j, "next") /\ NoFault
    /\ UNCHANGED <<shared, dirs, loop, history, builds>>

UploadFailed(j) ==
    /\ pc[j] = "fetch" /\ left[j] = {} /\ failed[j]
    /\ End(j, "failed") /\ NoFault

-----------------------------------------------------------------------------
(* A `?` ends the run: of repo::download, of ssh::connect after its ten    *)
(* attempts, of a command or a transfer over ssh, of the build or the test *)
(* (so does the bound on the builds).                                      *)
Fails(j) ==
    /\ \/ pc[j] \in {"download", "install", "build", "index"} /\ Fault("error")
       \/ pc[j] = "fetch" /\ left[j] # {} /\ Fault("error")
       \/ pc[j] = "build" /\ builds = MaxBuilds /\ NoFault
    /\ End(j, "failed")

Kill(j) == pc[j] # "idle" /\ Fault("kill") /\ End(j, "failed")

(* A new version gets into config.toml. *)
Release(p) ==
    /\ p \notin wanted /\ wanted' = wanted \cup {p}
    /\ NoFault
    /\ UNCHANGED <<bucket, lists, saved, rejected, pc, outcome, dirs, loop, history, builds>>

Step(j) ==
    \/ Start(j) \/ (\E f \in Objects : Get(j, f))
    \/ Select(j) \/ EverythingUpToDate(j) \/ Install(j)
    \/ (\E p \in Pkgs : NextPackage(j, p)) \/ Build(j) \/ Finish(j)
    \/ IndexMachine(j) \/ (\E f \in Objects : Fetch(j, f)) \/ Put(j) \/ PutFails(j)
    \/ Mark(j) \/ Uploaded(j) \/ UploadFailed(j) \/ Fails(j) \/ Kill(j)

Next == (\E j \in Jobs : Step(j)) \/ (\E p \in Pkgs : Release(p))

Spec == Init /\ [][Next]_vars

-----------------------------------------------------------------------------
(* Properties *)

(* The index of the bucket lists exactly the whole files of the bucket     *)
(* with their contents, but for objects whose upload was rejected or torn. *)
Closed ==
    \/ Index \in rejected
    \/ bucket[Index] < 0
    \/ /\ bucket[Index] > 0
       /\ \A f \in Files : \/ f \in rejected
                           \/ bucket[f] < 0
                           \/ lists[bucket[Index]][f] = bucket[f]

(* When an iteration of main's loop has come through upload_repo_changes   *)
(* the repository is consistent again, in whatever order the HashMap gave  *)
(* the files and whatever earlier runs left half done, provided no other   *)
(* job was running.                                                        *)
IndexClosed ==
    \A j \in Jobs : pc[j] = "next" /\ cur[j] # NoPkg /\ alone[j] => Closed

(* What the next download will skip is what is published.  An .etag file   *)
(* may be older than the file beside it, where the new one could not be    *)
(* created, but never so that the bucket has its contents and the stored   *)
(* repodir has others: as long as no stored repodir comes from a run that  *)
(* overlapped another, whatever overlaps or fails after it.                *)
SkippedIsPublished ==
    saved.clean => \A f \in Objects \ rejected :
                      bucket[f] > 0 /\ saved.etag[f] = bucket[f] => saved.file[f] = bucket[f]

(* A client finds the file in the index, and in the bucket as listed. *)
Installable(f) == /\ bucket[f] > 0 /\ bucket[Index] > 0
                  /\ lists[bucket[Index]][f] = bucket[f]

(* Every upload_repo_changes uploads the whole directory again, in the     *)
(* order of a HashMap and with a new index.  At no moment of a job that    *)
(* runs alone, from what such a job stored, does that take from a client a *)
(* file the job has not built, but by a copy that is torn or rejected.     *)
StaysInstallable ==
    [][\A j \in Jobs, f \in Files :
          /\ pc[j] = "put" /\ pc'[j] # "put" /\ Clean(j)
          /\ Installable(f) /\ f \notin written[j] \cup rejected
          /\ machine[j][f] >= 0 /\ bucket'[f] >= 0 /\ bucket'[Index] >= 0
          => Installable(f)']_vars

=============================================================================
