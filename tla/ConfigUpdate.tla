----------------------------- MODULE ConfigUpdate -----------------------------
(***************************************************************************)
(* config::update_config (-c) in the runs of the scheduled command line:   *)
(* from the release of a Rust version to its entry in config.toml and the  *)
(* build that uses the entry, with the cache directory the CI keeps from   *)
(* one run to the next and runs that overlap.                              *)
(*                                                                         *)
(* Of an archive only what a checksum and a patch tell apart is kept: a    *)
(* source archive never changes and is 1, the patches of a minor version   *)
(* are the revision of their branch, 0 is no archive, and -x is an archive *)
(* x that has lost its end.  A checksum is the contents it is of.          *)
(***************************************************************************)
EXTENDS Integers

CONSTANTS
    Jobs,         \* processes that may run at the same time
    NChannels,    \* the channels, in the order update_config takes them
    Ignored,      \* those --ignore keeps from being built
    Chan, Minor,  \* of each release: its channel and its minor version
    MaxRelease, MaxMinor, MaxRev,   \* bounds on what the rest of the world does
    Faults, MaxFaults               \* which failures may happen, and how many

Channels == 1..NChannels
Releases == 1..MaxRelease
Minors == 1..MaxMinor

(* error: a call returns Err, or the process dies.  torn: a download       *)
(* breaks off.  push: git push fails.  short: git reads config.toml before *)
(* the contents of the unflushed `write` are there.  missing: a channel's  *)
(* manifest lacks rust, rustfmt or clippy for the moment.                  *)
FaultKinds == {"error", "torn", "push", "short", "missing"}

ASSUME ReleaseAssumption ==
    /\ NChannels \in Nat \ {0} /\ MaxRelease \in Nat /\ MaxMinor \in Nat /\ MaxRev \in Nat \ {0}
    /\ Chan \in [Releases -> Channels] /\ Minor \in [Releases -> Minors]
    /\ Ignored \subseteq Channels
ASSUME FaultAssumption == Faults \subseteq FaultKinds /\ MaxFaults \in Nat

VARIABLES
    \* the rest of the world
    released,   \* how many releases there have been
    current,    \* the newest release of each channel, 0 for none
    needs,      \* the revision from which the patches apply to a release
    branch,     \* the revision of the branch patches/1.m, 0 for no branch
    remote,     \* config.toml in the repository: an entry for each channel
    readable,   \* it is not an empty file
    built,      \* the releases in the published package repository
    saved,      \* the cache directory the CI stored
    \* one value for each job
    pc, work,   \* where it stands; the entries of its own config.toml
    dir,        \* its cache directory
    at,         \* the channel of the current iteration
    seen, got,  \* the release and the checksums of this iteration
    updated,    \* an entry is new
    todo,       \* the channels it has still to build (pkg_updates)
    behind,     \* another job has pushed since it cloned (history)
    \* the bound
    faults

world == <<released, current, needs, branch>>
pushed == <<remote, readable>>
iteration == <<at, seen, got, updated>>
vars == <<world, pushed, built, saved, pc, work, dir, iteration, todo, behind, faults>>

Entry == [rel : 0..MaxRelease, src : Int, pat : Int]
Cache == [src : [Releases -> Int], pat : [Minors -> Int]]
NoEntry == [rel |-> 0, src |-> 0, pat |-> 0]
EmptyCache == [src |-> [r \in Releases |-> 0], pat |-> [m \in Minors |-> 0]]

TypeOK ==
    /\ released \in 0..MaxRelease /\ current \in [Channels -> 0..MaxRelease]
    /\ needs \in [Releases -> 1..MaxRev] /\ branch \in [Minors -> 0..MaxRev]
    /\ remote \in [Channels -> Entry] /\ readable \in BOOLEAN
    /\ built \subseteq Releases /\ saved \in Cache
    /\ pc \in [Jobs -> {"idle", "query", "check", "copy", "source", "patches", "test",
                        "write", "select", "build", "panic"}]
    /\ work \in [Jobs -> [Channels -> Entry]] /\ dir \in [Jobs -> Cache]
    /\ at \in [Jobs -> 1..NChannels + 1] /\ seen \in [Jobs -> 0..MaxRelease]
    /\ got \in [Jobs -> [src : Int, pat : Int]]
    /\ updated \in [Jobs -> BOOLEAN] /\ behind \in [Jobs -> BOOLEAN]
    /\ todo \in [Jobs -> SUBSET Channels]
    /\ faults \in 0..MaxFaults

Init ==
    /\ released = 0 /\ current = [c \in Channels |-> 0]
    /\ needs \in [Releases -> 1..MaxRev]
    /\ branch = [m \in Minors |-> IF m = 1 THEN 1 ELSE 0]
    /\ remote = [c \in Channels |-> NoEntry] /\ readable = TRUE
    /\ built = {} /\ saved = EmptyCache
    /\ pc = [j \in Jobs |-> "idle"]
    /\ work = [j \in Jobs |-> [c \in Channels |-> NoEntry]]
    /\ dir = [j \in Jobs |-> EmptyCache]
    /\ at = [j \in Jobs |-> 1] /\ seen = [j \in Jobs |-> 0]
    /\ got = [j \in Jobs |-> [src |-> 0, pat |-> 0]]
    /\ updated = [j \in Jobs |-> FALSE] /\ behind = updated
    /\ todo = [j \in Jobs |-> {}]
    /\ faults = 0

-----------------------------------------------------------------------------
Fault(k) == k \in Faults /\ faults < MaxFaults /\ faults' = faults + 1
NoFault == UNCHANGED faults
Goto(j, l) == pc' = [pc EXCEPT ![j] = l]
Line(j) == Minor[seen[j]]

(* The CI clones the repository and restores the cache directory.  An      *)
(* empty config.toml ends the run, at the latest when main reads it.       *)
Start(j) ==
    /\ pc[j] = "idle"
    /\ Goto(j, IF readable THEN "query" ELSE "panic") /\ NoFault
    /\ work' = [work EXCEPT ![j] = remote] /\ dir' = [dir EXCEPT ![j] = saved]
    /\ behind' = [behind EXCEPT ![j] = FALSE]
    /\ UNCHANGED <<world, pushed, built, todo, saved, iteration>>

(* A channel that lacks packages, for good or for the moment, or whose     *)
(* version and date are those of the entry, is passed over.                *)
NextChannel(j) ==
    /\ pc[j] = "query" /\ at[j] <= NChannels
    /\ \/ current[at[j]] \in {0, work[j][at[j]].rel} /\ NoFault
       \/ Fault("missing")
    /\ at' = [at EXCEPT ![j] = @ + 1]
    /\ UNCHANGED <<world, pushed, built, todo, saved, pc, work, dir, seen, got, updated, behind>>

NeedsUpdate(j) ==
    /\ pc[j] = "query" /\ at[j] <= NChannels
    /\ current[at[j]] \notin {0, work[j][at[j]].rel}
    /\ seen' = [seen EXCEPT ![j] = current[at[j]]]
    /\ Goto(j, "check") /\ NoFault
    /\ UNCHANGED <<world, pushed, built, todo, saved, work, dir, at, got, updated, behind>>

CheckPatchesExist(j) ==
    /\ pc[j] = "check"
    /\ Goto(j, IF branch[Line(j)] = 0 THEN "copy" ELSE "source") /\ NoFault
    /\ UNCHANGED <<world, pushed, built, todo, saved, work, dir, iteration, behind>>

(* Seeded fault: the copy is committed and not pushed. *)
CopyPatchesUnpushed(j) ==
    /\ pc[j] = "copy" /\ NoFault
    /\ Goto(j, "source")
    /\ UNCHANGED <<world, pushed, built, todo, saved, work, dir, iteration, behind>>

(* The patches of the minor version before are pushed under the new name,  *)
(* unless it has none or somebody else has pushed the branch by now.       *)
CopyPatches(j) ==
    /\ pc[j] = "copy" /\ NoFault
    /\ \/ /\ branch[Line(j)] = 0 /\ Line(j) > 1 /\ branch[Line(j) - 1] # 0
          /\ branch' = [branch EXCEPT ![Line(j)] = branch[Line(j) - 1]]
          /\ Goto(j, "source")
       \/ /\ branch[Line(j)] # 0 \/ Line(j) = 1 \/ branch[Line(j) - 1] = 0
          /\ Goto(j, "panic") /\ UNCHANGED branch
    /\ UNCHANGED <<released, current, needs, pushed, built, todo, saved, work, dir, iteration, behind>>

-----------------------------------------------------------------------------
(* get_hash_extract: from the cache whatever is there, else from the       *)
(* network and into the cache.  An archive without its end may unpack (the *)
(* padding is not read) or not.                                            *)
Use(j, c, l) == Goto(j, l) \/ (c < 0 /\ Goto(j, "panic"))
Found(cached, there) == IF cached # 0 THEN cached ELSE there

GetSource(j) ==
    /\ pc[j] = "source" /\ NoFault
    /\ LET c == Found(dir[j].src[seen[j]], 1)
       IN  /\ got' = [got EXCEPT ![j].src = c]
           /\ dir' = [dir EXCEPT ![j].src[seen[j]] = c]
           /\ Use(j, c, "patches")
    /\ UNCHANGED <<world, pushed, built, todo, saved, work, at, seen, updated, behind>>

GetPatches(j) ==
    /\ pc[j] = "patches" /\ NoFault
    /\ LET c == Found(dir[j].pat[Line(j)], branch[Line(j)])
       IN  /\ got' = [got EXCEPT ![j].pat = c]
           /\ dir' = [dir EXCEPT ![j].pat[Line(j)] = c]
           /\ Use(j, c, "test")
    /\ UNCHANGED <<world, pushed, built, todo, saved, work, at, seen, updated, behind>>

(* A chunk is an Err: what has come so far is in the cache. *)
BreaksOff(j) ==
    /\ \/ /\ pc[j] = "source" /\ dir[j].src[seen[j]] = 0
          /\ dir' = [dir EXCEPT ![j].src[seen[j]] = -1]
       \/ /\ pc[j] = "patches" /\ dir[j].pat[Line(j)] = 0
          /\ dir' = [dir EXCEPT ![j].pat[Line(j)] = -branch[Line(j)]]
    /\ Fault("torn") /\ Goto(j, "panic")
    /\ UNCHANGED <<world, pushed, built, todo, saved, work, iteration, behind>>

Applies(j) == got[j].pat >= needs[seen[j]] \/ -got[j].pat >= needs[seen[j]]

(* Seeded fault: the next channel is passed over. *)
TestPatchesTwice(j) ==
    /\ pc[j] = "test" /\ NoFault /\ Applies(j)
    /\ work' = [work EXCEPT ![j][at[j]] =
                     [rel |-> seen[j], src |-> got[j].src, pat |-> got[j].pat]]
    /\ updated' = [updated EXCEPT ![j] = TRUE]
    /\ at' = [at EXCEPT ![j] = @ + 2] /\ Goto(j, "query")
    /\ UNCHANGED <<world, pushed, built, todo, saved, dir, seen, got, behind>>

(* test_patches, and the new entry. *)
TestPatches(j) ==
    /\ pc[j] = "test" /\ NoFault
    /\ \/ /\ Applies(j)
          /\ work' = [work EXCEPT ![j][at[j]] =
                           [rel |-> seen[j], src |-> got[j].src, pat |-> got[j].pat]]
          /\ updated' = [updated EXCEPT ![j] = TRUE]
          /\ at' = [at EXCEPT ![j] = @ + 1] /\ Goto(j, "query")
       \/ ~Applies(j) /\ Goto(j, "panic") /\ UNCHANGED <<work, updated, at>>
    /\ UNCHANGED <<world, pushed, built, todo, saved, dir, seen, got, behind>>

-----------------------------------------------------------------------------
AllChannelsDone(j) ==
    /\ pc[j] = "query" /\ at[j] > NChannels
    /\ Goto(j, IF updated[j] THEN "write" ELSE "select") /\ NoFault
    /\ UNCHANGED <<world, pushed, built, todo, saved, work, dir, iteration, behind>>

(* Seeded fault: git push --force. *)
PublishForced(j) ==
    /\ pc[j] = "write" /\ NoFault
    /\ remote' = work[j]
    /\ behind' = [k \in Jobs |-> behind[k] \/ (k # j /\ pc[k] # "idle")]
    /\ Goto(j, "select")
    /\ UNCHANGED <<world, readable, built, todo, saved, work, dir, iteration>>

(* The file is written, committed and pushed.  The exit status of git is   *)
(* not looked at: a push that is refused, because it is not a fast         *)
(* forward, or that fails, changes nothing.                                *)
Publish(j) ==
    /\ pc[j] = "write"
    /\ \/ /\ ~behind[j] /\ remote' = work[j] /\ NoFault /\ UNCHANGED readable
          /\ behind' = [k \in Jobs |-> behind[k] \/ (k # j /\ pc[k] # "idle")]
       \/ /\ ~behind[j] /\ readable' = FALSE /\ Fault("short") /\ UNCHANGED remote
          /\ behind' = [k \in Jobs |-> behind[k] \/ (k # j /\ pc[k] # "idle")]
       \/ behind[j] /\ NoFault /\ UNCHANGED <<pushed, behind>>
       \/ Fault("push") /\ UNCHANGED <<pushed, behind>>
    /\ Goto(j, "select")
    /\ UNCHANGED <<world, built, todo, saved, work, dir, iteration>>

(* main goes on with the file on disk.  It downloads the repository and    *)
(* queues what is not there, once; what an overlapping run builds          *)
(* meanwhile it builds again.                                              *)
Select(j) ==
    /\ pc[j] = "select" /\ NoFault
    /\ todo' = [todo EXCEPT ![j] = {c \in Channels \ Ignored : work[j][c].rel \notin built \cup {0}}]
    /\ Goto(j, "build")
    /\ UNCHANGED <<world, pushed, built, saved, work, dir, iteration, behind>>

(* abuild gets the archives itself and compares them with the entry.       *)
Verified(e) == e.src = 1 /\ e.pat = branch[Minor[e.rel]]

Build(j, c) ==
    /\ pc[j] = "build" /\ c \in todo[j] /\ NoFault
    /\ \/ /\ Verified(work[j][c]) /\ built' = built \cup {work[j][c].rel}
          /\ todo' = [todo EXCEPT ![j] = @ \ {c}] /\ UNCHANGED pc
       \/ ~Verified(work[j][c]) /\ Goto(j, "panic") /\ UNCHANGED <<built, todo>>
    /\ UNCHANGED <<world, pushed, saved, work, dir, iteration, behind>>

Forget(j) ==
    /\ Goto(j, "idle")
    /\ work' = [work EXCEPT ![j] = [c \in Channels |-> NoEntry]]
    /\ dir' = [dir EXCEPT ![j] = EmptyCache]
    /\ at' = [at EXCEPT ![j] = 1] /\ seen' = [seen EXCEPT ![j] = 0]
    /\ got' = [got EXCEPT ![j] = [src |-> 0, pat |-> 0]]
    /\ updated' = [updated EXCEPT ![j] = FALSE] /\ behind' = [behind EXCEPT ![j] = FALSE]
    /\ todo' = [todo EXCEPT ![j] = {}]
    /\ UNCHANGED <<world, pushed, built>>

(* The CI stores the cache directory of a run that exited with status 0. *)
Finish(j) ==
    /\ pc[j] = "build" /\ todo[j] = {} /\ NoFault
    /\ saved' = dir[j]
    /\ Forget(j)

(* Seeded fault: the CI stores the cache directory of every run. *)
PanicKept(j) ==
    /\ pc[j] = "panic" /\ NoFault
    /\ saved' = dir[j]
    /\ Forget(j)

Panic(j) ==
    /\ pc[j] = "panic" /\ NoFault
    /\ UNCHANGED saved
    /\ Forget(j)

(* Any other `expect` or error of the run, and its death. *)
Fails(j) ==
    /\ pc[j] \notin {"idle", "panic"} /\ Fault("error") /\ Goto(j, "panic")
    /\ UNCHANGED <<world, pushed, built, todo, saved, work, dir, iteration, behind>>

-----------------------------------------------------------------------------
(* The Rust project releases a version.  A maintainer commits to a branch. *)
Release ==
    /\ released < MaxRelease /\ released' = released + 1
    /\ current' = [current EXCEPT ![Chan[released + 1]] = released + 1]
    /\ NoFault
    /\ UNCHANGED <<needs, branch, pushed, built, todo, saved, pc, work, dir, iteration, behind>>

Commit(m) ==
    /\ branch[m] \in 1..MaxRev - 1
    /\ branch' = [branch EXCEPT ![m] = @ + 1]
    /\ NoFault
    /\ UNCHANGED <<released, current, needs, pushed, built, todo, saved, pc, work, dir, iteration, behind>>

Step(j) ==
    \/ Start(j) \/ NextChannel(j) \/ NeedsUpdate(j) \/ CheckPatchesExist(j) \/ CopyPatches(j)
    \/ GetSource(j) \/ GetPatches(j) \/ BreaksOff(j) \/ TestPatches(j)
    \/ AllChannelsDone(j) \/ Publish(j) \/ Select(j) \/ (\E c \in Channels : Build(j, c))
    \/ Finish(j) \/ Panic(j) \/ Fails(j)

Next == (\E j \in Jobs : Step(j)) \/ Release \/ (\E m \in Minors : Commit(m))

Spec == Init /\ [][Next]_vars

(* The CI starts runs on a schedule, and a run that is started goes on. *)
FairSpec == Spec /\ \A j \in Jobs : WF_vars(Step(j))

-----------------------------------------------------------------------------
(* Properties *)

(* The checksums in the repository are those of whole archives, and the    *)
(* patches they name apply to the source they name.                        *)
SumsTested ==
    \A c \in Channels : remote[c].rel # 0 =>
        remote[c].src = 1 /\ remote[c].pat >= needs[remote[c].rel]

(* However runs overlap, no channel goes back to an earlier release. *)
NeverBack == [][\A c \in Channels : remote'[c].rel >= remote[c].rel]_vars

(* What can make a run panic though nothing fails in it: an empty          *)
(* config.toml, no patches to copy or a branch somebody else has pushed,   *)
(* patches that do not apply, and an archive of patches that was cached or *)
(* recorded before its branch moved on.                                    *)
Obstacle(j) ==
    \/ pc[j] = "idle" /\ ~readable
    \/ pc[j] = "copy" /\ (branch[Line(j)] # 0 \/ Line(j) = 1 \/ branch[Line(j) - 1] = 0)
    \/ pc[j] = "test" /\ (branch[Line(j)] < needs[seen[j]] \/ got[j].pat < branch[Line(j)])
    \/ pc[j] = "build" /\ \E c \in todo[j] : work[j][c].pat < branch[Minor[work[j][c].rel]]

(* Every run that panics has met a failure of its own or one of these: it  *)
(* never dies of what an earlier or an overlapping run has left half done, *)
(* a torn archive or a checksum nothing matches.                           *)
PanicsForAReason ==
    [][\A j \in Jobs : pc[j] # "panic" /\ pc'[j] = "panic" => faults' # faults \/ Obstacle(j)]_vars

AllBuilt == \A c \in Channels \ Ignored : current[c] \in built \cup {0}
PatchesFail(c) == /\ current[c] # 0
                  /\ branch[Minor[current[c]]] \in 1..needs[current[c]] - 1
Outdated(c) ==
    /\ current[c] # 0
    /\ LET m == Minor[current[c]]
       IN  \/ saved.pat[m] \notin {0, branch[m]}
           \/ /\ c \notin Ignored
              /\ remote[c].rel = current[c] /\ remote[c].pat # branch[m]

(* The newest releases get built, whatever runs fail and overlap, or else  *)
(* something stands in the way that no run removes: patches that do not    *)
(* apply (an ignored channel's will do), a stored or recorded archive of   *)
(* patches whose branch has moved on, an empty config.toml.                *)
NewestIsBuilt ==
    <>[](AllBuilt \/ ~readable \/ \E c \in Channels : PatchesFail(c) \/ Outdated(c))
=============================================================================
