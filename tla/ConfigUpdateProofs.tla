-------------------------- MODULE ConfigUpdateProofs --------------------------
(***************************************************************************)
(* Theorems about ConfigUpdate, for every number of jobs, channels,        *)
(* releases, revisions and failures.                                       *)
(***************************************************************************)
EXTENDS ConfigUpdate, TLAPS

(* Strengthenings of the invariants *)

Whole(cache) == /\ \A r \in Releases : cache.src[r] \in {0, 1}
                /\ \A m \in Minors : cache.pat[m] >= 0
Tested(e) == e.rel # 0 => e.src = 1 /\ e.pat >= needs[e.rel]
Older == \A c \in Channels : remote[c].rel <= current[c] /\ current[c] <= released
JobInv(j) ==
    /\ pc[j] # "panic" => Whole(dir[j])
    /\ pc[j] \in {"check", "copy", "source", "patches", "test"} =>
          /\ at[j] <= NChannels /\ seen[j] # 0
          /\ work[j][at[j]].rel <= seen[j] /\ seen[j] <= current[at[j]]
    /\ pc[j] \in {"patches", "test"} => got[j].src = 1
    /\ pc[j] = "test" => got[j].pat >= 0
    /\ pc[j] = "build" => \A c \in todo[j] : work[j][c].rel # 0
    /\ \A c \in Channels : /\ Tested(work[j][c]) /\ work[j][c].rel <= current[c]
                           /\ pc[j] # "idle" /\ ~behind[j] => remote[c].rel <= work[j][c].rel
ConfigInv == SumsTested /\ Older /\ Whole(saved) /\ \A j \in Jobs : JobInv(j)

(* Archives of patches, cached, downloaded or recorded, are no newer than  *)
(* the branch b they are of, torn ones included.                           *)
NoNewer(cache, b) == \A m \in Minors : cache.pat[m] <= b[m]
Follows(e, b) == e.rel # 0 => e.pat <= b[Minor[e.rel]]
JobFollows(j) == /\ NoNewer(dir[j], branch)
                 /\ \A c \in Channels : Follows(work[j][c], branch)
                 /\ pc[j] = "test" => got[j].pat <= branch[Line(j)]
BranchInv == /\ NoNewer(saved, branch) /\ \A c \in Channels : Follows(remote[c], branch)
             /\ \A j \in Jobs : JobFollows(j)

-----------------------------------------------------------------------------
LEMMA Constants ==
  /\ NChannels \in Nat /\ MaxRelease \in Nat /\ MaxMinor \in Nat /\ MaxRev \in Nat /\ MaxFaults \in Nat
  /\ 0 \in 0..MaxRelease /\ 0 \in 0..MaxRev /\ 1 \in 0..MaxRev /\ 1 \in 1..NChannels + 1
  /\ \A r \in 1..MaxRelease : Minor[r] \in Minors /\ Chan[r] \in Channels
  BY ReleaseAssumption, FaultAssumption DEF ReleaseAssumption, FaultAssumption, Releases

LEMMA FaultType == ASSUME TypeOK, NEW k, Fault(k) PROVE faults' \in 0..MaxFaults
  BY Constants DEF TypeOK, Fault

LEMMA EmptyTypes == EmptyCache \in Cache /\ NoEntry \in Entry
  BY Constants DEF EmptyCache, Cache, NoEntry, Entry

LEMMA InitTypeOK == Init => TypeOK
<1> SUFFICES ASSUME Init PROVE TypeOK
  OBVIOUS
<1>1. EmptyCache \in Cache /\ NoEntry \in Entry
  BY EmptyTypes
<1>2. branch \in [Minors -> 0..MaxRev]
  BY Constants DEF Init
<1>3. remote \in [Channels -> Entry] /\ work \in [Jobs -> [Channels -> Entry]]
  BY <1>1 DEF Init
<1>4. dir \in [Jobs -> Cache] /\ saved \in Cache
  BY <1>1 DEF Init
<1> QED
  BY Constants, <1>2, <1>3, <1>4 DEF Init, TypeOK

(* What a job may download, and where it puts it. *)
LEMMA CacheType ==
  ASSUME NEW d \in Cache, NEW c \in Int
  PROVE  /\ \A r \in Releases : [d EXCEPT !.src = [d.src EXCEPT ![r] = c]] \in Cache
         /\ \A m \in Minors : [d EXCEPT !.pat = [d.pat EXCEPT ![m] = c]] \in Cache
  BY DEF Cache

InIteration(j) == pc[j] \in {"check", "copy", "source", "patches", "test"}
SeenOK == \A j \in Jobs : /\ InIteration(j) => seen[j] # 0 /\ at[j] <= NChannels
                          /\ pc[j] = "build" => \A c \in todo[j] : work[j][c].rel # 0

LEMMA StepType == ASSUME TypeOK, SeenOK, NEW j \in Jobs, Step(j) PROVE TypeOK'
<1>1. CASE Start(j)
  <2>1. work' \in [Jobs -> [Channels -> Entry]] /\ dir' \in [Jobs -> Cache]
        /\ pc' \in [Jobs -> {"idle", "query", "check", "copy", "source", "patches", "test",
                             "write", "select", "build", "panic"}]
        /\ behind' \in [Jobs -> BOOLEAN]
    BY <1>1 DEF Start, Goto, TypeOK
  <2> QED
    BY <1>1, <2>1 DEF Start, NoFault, TypeOK, world, pushed, iteration
<1>2. CASE NextChannel(j)
  <2>1. at' \in [Jobs -> 1..NChannels + 1]
    BY <1>2, Constants DEF NextChannel, TypeOK
  <2>2. faults' \in 0..MaxFaults
    BY <1>2, FaultType DEF NextChannel, NoFault, TypeOK
  <2> QED
    BY <1>2, <2>1, <2>2 DEF NextChannel, TypeOK, world, pushed
<1>3. CASE NeedsUpdate(j)
  <2>1. at[j] \in Channels
    BY <1>3, Constants DEF NeedsUpdate, TypeOK, Channels
  <2>2. seen' \in [Jobs -> 0..MaxRelease]
    BY <1>3, <2>1 DEF NeedsUpdate, TypeOK
  <2> QED
    BY <1>3, <2>2 DEF NeedsUpdate, Goto, NoFault, TypeOK, world, pushed
<1>4. CASE CheckPatchesExist(j)
  BY <1>4 DEF CheckPatchesExist, Goto, NoFault, TypeOK, world, pushed, iteration
<1>5. CASE CopyPatches(j)
  <2>1. Line(j) \in Minors
    BY <1>5, Constants DEF CopyPatches, SeenOK, InIteration, Line, TypeOK, Releases
  <2>2. branch' \in [Minors -> 0..MaxRev]
    <3>1. Line(j) > 1 => Line(j) - 1 \in Minors
      BY <2>1, Constants DEF Minors
    <3>2. \/ branch' = branch
          \/ Line(j) > 1 /\ branch' = [branch EXCEPT ![Line(j)] = branch[Line(j) - 1]]
      BY <1>5 DEF CopyPatches
    <3> QED
      BY <2>1, <3>1, <3>2 DEF TypeOK
  <2>3. pc' \in [Jobs -> {"idle", "query", "check", "copy", "source", "patches", "test",
                          "write", "select", "build", "panic"}]
    BY <1>5 DEF CopyPatches, Goto, TypeOK
  <2> QED
    BY <1>5, <2>2, <2>3 DEF CopyPatches, NoFault, TypeOK, pushed, iteration
<1>6. CASE GetSource(j) \/ GetPatches(j)
  <2>1. seen[j] \in Releases /\ Line(j) \in Minors
    BY <1>6, Constants DEF GetSource, GetPatches, SeenOK, InIteration, Line, TypeOK, Releases
  <2>2. dir[j] \in Cache /\ branch[Line(j)] \in Int
    BY <2>1 DEF TypeOK
  <2>3. /\ Found(dir[j].src[seen[j]], 1) \in Int
        /\ Found(dir[j].pat[Line(j)], branch[Line(j)]) \in Int
    BY <2>1, <2>2 DEF Found, Cache
  <2>4. dir' \in [Jobs -> Cache]
    <3>1. dir'[j] \in Cache /\ dir' = [dir EXCEPT ![j] = dir'[j]]
      <4>1. CASE GetSource(j)
        <5>1. dir' = [dir EXCEPT ![j] = [dir[j] EXCEPT !.src =
                        [dir[j].src EXCEPT ![seen[j]] = Found(dir[j].src[seen[j]], 1)]]]
          BY <4>1 DEF GetSource
        <5> QED
          BY <2>1, <2>2, <2>3, <5>1, CacheType DEF TypeOK
      <4>2. CASE GetPatches(j)
        <5>1. dir' = [dir EXCEPT ![j] = [dir[j] EXCEPT !.pat =
                        [dir[j].pat EXCEPT ![Line(j)] =
                            Found(dir[j].pat[Line(j)], branch[Line(j)])]]]
          BY <4>2 DEF GetPatches
        <5> QED
          BY <2>1, <2>2, <2>3, <5>1, CacheType DEF TypeOK
      <4> QED
        BY <1>6, <4>1, <4>2
    <3> QED
      BY <3>1 DEF TypeOK
  <2>5. got' \in [Jobs -> [src : Int, pat : Int]]
    <3>1. \E c \in Int : \/ got' = [got EXCEPT ![j] = [got[j] EXCEPT !.src = c]]
                        \/ got' = [got EXCEPT ![j] = [got[j] EXCEPT !.pat = c]]
      BY <1>6, <2>3 DEF GetSource, GetPatches
    <3>2. got \in [Jobs -> [src : Int, pat : Int]]
      BY DEF TypeOK
    <3> QED
      BY <3>1, <3>2
  <2>6. pc' \in [Jobs -> {"idle", "query", "check", "copy", "source", "patches", "test",
                          "write", "select", "build", "panic"}]
    BY <1>6 DEF GetSource, GetPatches, Use, Goto, TypeOK
  <2> QED
    <3>1. UNCHANGED <<world, pushed, built, todo, saved, work, at, seen, updated, behind, faults>>
      BY <1>6 DEF GetSource, GetPatches, NoFault
    <3> QED
      BY <2>4, <2>5, <2>6, <3>1 DEF TypeOK, world, pushed
<1>7. CASE BreaksOff(j)
  <2>1. seen[j] \in Releases /\ Line(j) \in Minors
    BY <1>7, Constants DEF BreaksOff, SeenOK, InIteration, Line, TypeOK, Releases
  <2>2. dir[j] \in Cache /\ -branch[Line(j)] \in Int
    BY <2>1 DEF TypeOK
  <2>3. dir' \in [Jobs -> Cache]
    <3>1. \/ dir' = [dir EXCEPT ![j] = [dir[j] EXCEPT !.src =
                       [dir[j].src EXCEPT ![seen[j]] = -1]]]
          \/ dir' = [dir EXCEPT ![j] = [dir[j] EXCEPT !.pat =
                       [dir[j].pat EXCEPT ![Line(j)] = -branch[Line(j)]]]]
      BY <1>7 DEF BreaksOff
    <3>2. -1 \in Int
      OBVIOUS
    <3>3. /\ [dir[j] EXCEPT !.src = [dir[j].src EXCEPT ![seen[j]] = -1]] \in Cache
          /\ [dir[j] EXCEPT !.pat = [dir[j].pat EXCEPT ![Line(j)] = -branch[Line(j)]]] \in Cache
      BY <2>1, <2>2, <3>2, CacheType
    <3> QED
      BY <3>1, <3>3 DEF TypeOK
  <2>4. faults' \in 0..MaxFaults
    BY <1>7, FaultType DEF BreaksOff
  <2> QED
    BY <1>7, <2>3, <2>4 DEF BreaksOff, Goto, TypeOK, world, pushed, iteration
<1>8. CASE TestPatches(j)
  <2>1. at[j] \in Channels /\ at[j] + 1 \in 1..NChannels + 1
    BY <1>8, Constants DEF TestPatches, SeenOK, InIteration, TypeOK, Channels
  <2>2. work' \in [Jobs -> [Channels -> Entry]]
    <3>1. [rel |-> seen[j], src |-> got[j].src, pat |-> got[j].pat] \in Entry
      BY DEF TypeOK, Entry
    <3>2. \/ work' = [work EXCEPT ![j] = [work[j] EXCEPT ![at[j]] =
                        [rel |-> seen[j], src |-> got[j].src, pat |-> got[j].pat]]]
          \/ work' = work
      BY <1>8 DEF TestPatches
    <3>3. [work[j] EXCEPT ![at[j]] = [rel |-> seen[j], src |-> got[j].src, pat |-> got[j].pat]]
            \in [Channels -> Entry]
      BY <3>1 DEF TypeOK
    <3> QED
      BY <3>2, <3>3 DEF TypeOK
  <2>3. /\ at' \in [Jobs -> 1..NChannels + 1] /\ updated' \in [Jobs -> BOOLEAN]
        /\ pc' \in [Jobs -> {"idle", "query", "check", "copy", "source", "patches", "test",
                             "write", "select", "build", "panic"}]
    <3>1. at' = [at EXCEPT ![j] = at[j] + 1] \/ at' = at
      BY <1>8 DEF TestPatches
    <3>2. at' \in [Jobs -> 1..NChannels + 1]
      BY <2>1, <3>1 DEF TypeOK
    <3>3. updated' \in [Jobs -> BOOLEAN]
      BY <1>8 DEF TestPatches, TypeOK
    <3>4. pc' = [pc EXCEPT ![j] = "query"] \/ pc' = [pc EXCEPT ![j] = "panic"]
      BY <1>8 DEF TestPatches, Goto
    <3> QED
      BY <3>2, <3>3, <3>4 DEF TypeOK
  <2> QED
    BY <1>8, <2>2, <2>3 DEF TestPatches, NoFault, TypeOK, world, pushed
<1>9. CASE AllChannelsDone(j)
  BY <1>9 DEF AllChannelsDone, Goto, NoFault, TypeOK, world, pushed, iteration
<1>10. CASE Publish(j)
  <2>1. faults' \in 0..MaxFaults
    BY <1>10, FaultType DEF Publish, NoFault, TypeOK
  <2>2. remote' \in [Channels -> Entry] /\ readable' \in BOOLEAN /\ behind' \in [Jobs -> BOOLEAN]
    <3>1. remote' = remote \/ remote' = work[j]
      BY <1>10 DEF Publish, pushed
    <3>2. readable' = readable \/ readable' = FALSE
      BY <1>10 DEF Publish, pushed
    <3>3. \/ behind' = behind
          \/ behind' = [k \in Jobs |-> behind[k] \/ (k # j /\ pc[k] # "idle")]
      BY <1>10 DEF Publish
    <3>4. \A k \in Jobs : (behind[k] \/ (k # j /\ pc[k] # "idle")) \in BOOLEAN
      OBVIOUS
    <3>5. behind' \in [Jobs -> BOOLEAN]
      BY <3>3, <3>4, Zenon DEF TypeOK
    <3>6. remote' \in [Channels -> Entry]
      BY <3>1 DEF TypeOK
    <3>7. readable' \in BOOLEAN
      BY <3>2 DEF TypeOK
    <3> QED
      BY <3>5, <3>6, <3>7
  <2> QED
    BY <1>10, <2>1, <2>2 DEF Publish, Goto, TypeOK, world, iteration
<1>11. ASSUME NEW c \in Channels, Build(j, c) PROVE TypeOK'
  <2>1. built' \subseteq Releases
    <3>1. work[j][c].rel \in 0..MaxRelease
      BY <1>11 DEF TypeOK, Entry
    <3>2. built' = built \/ built' = built \cup {work[j][c].rel}
      BY <1>11 DEF Build
    <3>3. work[j][c].rel # 0
      BY <1>11 DEF Build, SeenOK
    <3>4. work[j][c].rel \in Releases
      BY <3>1, <3>3, Constants DEF Releases
    <3> QED
      BY <3>2, <3>4 DEF TypeOK
  <2>2. pc' \in [Jobs -> {"idle", "query", "check", "copy", "source", "patches", "test",
                          "write", "select", "build", "panic"}]
    BY <1>11 DEF Build, Goto, TypeOK
  <2>3. todo' \in [Jobs -> SUBSET Channels]
    <3>1. todo' = todo \/ todo' = [todo EXCEPT ![j] = todo[j] \ {c}]
      BY <1>11 DEF Build
    <3>2. todo \in [Jobs -> SUBSET Channels]
      BY DEF TypeOK
    <3>3. todo[j] \ {c} \in SUBSET Channels
      BY <3>2
    <3> QED
      BY <3>1, <3>2, <3>3
  <2> QED
    <3>1. UNCHANGED <<released, current, needs, branch, remote, readable, saved, work, dir, at,
                      seen, got, updated, behind, faults>>
      BY <1>11 DEF Build, NoFault, world, pushed, iteration
    <3> QED
      BY <2>1, <2>2, <2>3, <3>1 DEF TypeOK
<1>12. CASE Finish(j) \/ Panic(j)
  <2>1. saved' \in Cache /\ faults' = faults /\ Forget(j)
    BY <1>12 DEF Finish, Panic, NoFault, TypeOK
  <2>2. /\ work' \in [Jobs -> [Channels -> Entry]] /\ dir' \in [Jobs -> Cache]
    BY <2>1, EmptyTypes DEF Forget, TypeOK
  <2>3. /\ pc' = [pc EXCEPT ![j] = "idle"] /\ at' \in [Jobs -> 1..NChannels + 1]
        /\ seen' \in [Jobs -> 0..MaxRelease] /\ got' \in [Jobs -> [src : Int, pat : Int]]
        /\ updated' \in [Jobs -> BOOLEAN] /\ behind' \in [Jobs -> BOOLEAN]
        /\ todo' \in [Jobs -> SUBSET Channels]
        /\ UNCHANGED <<released, current, needs, branch, remote, readable, built>>
    BY <2>1, Constants DEF Forget, Goto, TypeOK, world, pushed
  <2> QED
    BY <2>1, <2>2, <2>3 DEF TypeOK
<1>13. CASE Fails(j)
  BY <1>13, FaultType DEF Fails, Goto, TypeOK, world, pushed, iteration
<1>14. CASE Select(j)
  BY <1>14 DEF Select, Goto, NoFault, TypeOK, world, pushed, iteration
<1> QED
  BY <1>1, <1>2, <1>3, <1>4, <1>5, <1>6, <1>7, <1>8, <1>9, <1>10, <1>11, <1>12, <1>13, <1>14 DEF Step

-----------------------------------------------------------------------------
(* The invariant *)

LEMMA InitInv == Init => ConfigInv
<1> SUFFICES ASSUME Init PROVE ConfigInv
  OBVIOUS
<1>1. Whole(EmptyCache)
  BY DEF Whole, EmptyCache
<1>2. Older
  BY DEF Init, Older, NoEntry
<1>3. ASSUME NEW j \in Jobs PROVE JobInv(j)
  BY <1>1 DEF Init, JobInv, Tested, NoEntry
<1> QED
  BY <1>1, <1>2, <1>3 DEF Init, ConfigInv, SumsTested, NoEntry

(* A step of one job leaves the variables of the others alone. *)
LEMMA OthersUnchanged ==
  ASSUME TypeOK, NEW j \in Jobs, Step(j), NEW k \in Jobs, k # j
  PROVE  /\ pc'[k] = pc[k] /\ work'[k] = work[k] /\ dir'[k] = dir[k]
         /\ at'[k] = at[k] /\ seen'[k] = seen[k] /\ got'[k] = got[k] /\ todo'[k] = todo[k]
         /\ UNCHANGED <<current, needs>>
<1>1. CASE Finish(j) \/ Panic(j)
  BY <1>1 DEF Finish, Panic, Forget, Goto, TypeOK, world
<1>2. CASE GetSource(j) \/ GetPatches(j) \/ BreaksOff(j)
  <2>1. dir'[k] = dir[k] /\ got'[k] = got[k]
    <3>1. CASE GetSource(j)
      BY <3>1 DEF GetSource, TypeOK
    <3>2. CASE GetPatches(j)
      BY <3>2 DEF GetPatches, TypeOK
    <3>3. CASE BreaksOff(j)
      BY <3>3 DEF BreaksOff, TypeOK, iteration
    <3> QED
      BY <1>2, <3>1, <3>2, <3>3
  <2>2. pc'[k] = pc[k]
    BY <1>2 DEF GetSource, GetPatches, BreaksOff, Use, Goto, TypeOK
  <2> QED
    BY <1>2, <2>1, <2>2 DEF GetSource, GetPatches, BreaksOff, world, iteration
<1>3. CASE TestPatches(j)
  BY <1>3 DEF TestPatches, Goto, TypeOK, world
<1> QED
  BY <1>1, <1>2, <1>3 DEF Step, Start, NextChannel, NeedsUpdate, CheckPatchesExist, CopyPatches,
    AllChannelsDone, Publish, Select, Build, Fails, Goto, TypeOK, world, iteration

LEMMA OthersInv ==
  ASSUME TypeOK, ConfigInv, NEW j \in Jobs, Step(j), NEW k \in Jobs, k # j
  PROVE  JobInv(k)'
<1>1. /\ pc'[k] = pc[k] /\ work'[k] = work[k] /\ dir'[k] = dir[k]
      /\ at'[k] = at[k] /\ seen'[k] = seen[k] /\ got'[k] = got[k] /\ todo'[k] = todo[k]
      /\ UNCHANGED <<current, needs>>
  BY OthersUnchanged
<1>2. JobInv(k)
  BY DEF ConfigInv
<1>3. \/ remote' = remote /\ behind'[k] = behind[k]
      \/ pc[k] = "idle" \/ behind'[k]
  <2>1. CASE Publish(j)
    BY <2>1 DEF Publish, TypeOK, pushed
  <2>2. CASE ~Publish(j)
    BY <2>2 DEF Step, Start, NextChannel, NeedsUpdate, CheckPatchesExist, CopyPatches, GetSource,
      GetPatches, BreaksOff, TestPatches, AllChannelsDone, Select, Build, Finish, Panic, Forget, Fails,
      TypeOK, pushed
  <2> QED
    BY <2>1, <2>2
<1> QED
  BY <1>1, <1>2, <1>3 DEF JobInv, Whole, Tested

LEMMA StartInv ==
  ASSUME TypeOK, ConfigInv, NEW j \in Jobs, Start(j)
  PROVE  JobInv(j)'
<1>1. /\ pc'[j] \in {"query", "panic"} /\ work'[j] = remote /\ dir'[j] = saved
      /\ UNCHANGED <<current, needs, remote>>
  BY DEF Start, Goto, TypeOK, world, pushed
<1>2. \A c \in Channels : remote[c].rel \in Int
  BY Constants DEF TypeOK, Entry
<1> QED
  BY <1>1, <1>2 DEF ConfigInv, SumsTested, Older, JobInv, Whole, Tested

LEMMA QueryInv ==
  ASSUME TypeOK, ConfigInv, NEW j \in Jobs,
         NextChannel(j) \/ NeedsUpdate(j) \/ CheckPatchesExist(j) \/ CopyPatches(j)
         \/ AllChannelsDone(j) \/ Select(j) \/ (\E c \in Channels : Build(j, c)) \/ Fails(j)
         \/ BreaksOff(j)
  PROVE  JobInv(j)'
<1>1. JobInv(j)
  BY DEF ConfigInv
<1>2. UNCHANGED <<current, needs, remote, work, got, behind>>
  BY DEF NextChannel, NeedsUpdate, CheckPatchesExist, CopyPatches, AllChannelsDone, Select, Build, Fails,
    BreaksOff, world, pushed, iteration
<1>3. CASE NeedsUpdate(j)
  <2>1. /\ pc'[j] = "check" /\ pc[j] = "query" /\ at[j] \in Channels /\ UNCHANGED <<at, dir>>
        /\ seen'[j] = current[at[j]] /\ current[at[j]] # 0
    BY <1>3, Constants DEF NeedsUpdate, Goto, TypeOK, Channels
  <2>2. at[j] <= NChannels /\ current[at[j]] \in Int
    BY <1>3, <2>1, Constants DEF NeedsUpdate, TypeOK
  <2> QED
    BY <1>1, <1>2, <2>1, <2>2 DEF JobInv, Whole, Tested
<1>4. CASE CheckPatchesExist(j) \/ CopyPatches(j)
  <2>1. /\ pc[j] \in {"check", "copy"} /\ pc'[j] \in {"copy", "source", "panic"}
        /\ UNCHANGED <<dir, at, seen>>
    BY <1>4 DEF CheckPatchesExist, CopyPatches, Goto, TypeOK, iteration
  <2> QED
    BY <1>1, <1>2, <2>1 DEF JobInv, Whole, Tested
<1>5. CASE NextChannel(j) \/ AllChannelsDone(j) \/ Select(j) \/ (\E c \in Channels : Build(j, c))
  <2>1. /\ pc[j] \in {"query", "select", "build"} /\ UNCHANGED dir
        /\ pc'[j] \in {"query", "write", "select", "build", "panic"}
        /\ pc'[j] = "build" => \A c \in todo'[j] : work[j][c].rel # 0
    BY <1>1, <1>5 DEF JobInv, NextChannel, AllChannelsDone, Select, Build, Goto, TypeOK, iteration
  <2> QED
    BY <1>1, <1>2, <2>1 DEF JobInv, Whole, Tested
<1>6. CASE Fails(j) \/ BreaksOff(j)
  <2>1. pc'[j] = "panic" /\ pc[j] # "idle"
    BY <1>6 DEF Fails, BreaksOff, Goto, TypeOK
  <2> QED
    BY <1>1, <1>2, <2>1 DEF JobInv, Tested
<1> QED
  BY <1>3, <1>4, <1>5, <1>6

LEMMA GetInv ==
  ASSUME TypeOK, ConfigInv, NEW j \in Jobs, GetSource(j) \/ GetPatches(j)
  PROVE  JobInv(j)'
<1>1. JobInv(j)
  BY DEF ConfigInv
<1>2. /\ UNCHANGED <<current, needs, remote, work, behind, at, seen>>
      /\ pc[j] \in {"source", "patches"}
  BY DEF GetSource, GetPatches, world, pushed
<1>3. /\ seen[j] \in Releases /\ Line(j) \in Minors
      /\ dir[j] \in Cache /\ Whole(dir[j]) /\ branch[Line(j)] \in Nat
  BY <1>1, <1>2, Constants DEF JobInv, TypeOK, Line, Releases
<1>4. CASE GetSource(j)
  <2>1. Found(dir[j].src[seen[j]], 1) = 1
    BY <1>3 DEF Found, Whole
  <2>2. dir' = [dir EXCEPT ![j] = [dir[j] EXCEPT !.src = [dir[j].src EXCEPT ![seen[j]] = 1]]]
    BY <1>4, <2>1 DEF GetSource
  <2>3. dir'[j].src = [dir[j].src EXCEPT ![seen[j]] = 1] /\ dir'[j].pat = dir[j].pat
    BY <1>3, <2>2 DEF TypeOK, Cache
  <2>4. Whole(dir'[j])
    BY <1>3, <2>3 DEF Whole, Cache
  <2>5. got'[j].src = 1 /\ pc'[j] = "patches" /\ pc[j] = "source"
    BY <1>4, <2>1 DEF GetSource, Use, Goto, TypeOK
  <2> QED
    BY <1>1, <1>2, <2>4, <2>5 DEF JobInv, Whole, Tested
<1>5. CASE GetPatches(j)
  <2> DEFINE c == Found(dir[j].pat[Line(j)], branch[Line(j)])
  <2>1. c \in Int /\ c >= 0
    BY <1>3 DEF Found, Whole, Cache
  <2>2. dir' = [dir EXCEPT ![j] = [dir[j] EXCEPT !.pat = [dir[j].pat EXCEPT ![Line(j)] = c]]]
    BY <1>5 DEF GetPatches
  <2>3. dir'[j].pat = [dir[j].pat EXCEPT ![Line(j)] = c] /\ dir'[j].src = dir[j].src
    BY <1>3, <2>2 DEF TypeOK, Cache
  <2>4. Whole(dir'[j])
    BY <1>3, <2>1, <2>3 DEF Whole, Cache
  <2>5. got'[j].pat = c /\ got'[j].src = got[j].src /\ pc[j] = "patches"
    BY <1>5 DEF GetPatches, TypeOK
  <2>6. pc'[j] = "test"
    BY <1>5, <2>1 DEF GetPatches, Use, Goto, TypeOK
  <2> QED
    BY <1>1, <1>2, <2>1, <2>4, <2>5, <2>6 DEF JobInv, Whole, Tested
<1> QED
  BY <1>4, <1>5

LEMMA TestInv ==
  ASSUME TypeOK, ConfigInv, NEW j \in Jobs, TestPatches(j)
  PROVE  JobInv(j)'
<1>1. JobInv(j)
  BY DEF ConfigInv
<1>2. UNCHANGED <<current, needs, remote, dir, seen, got, behind>> /\ pc[j] = "test"
  BY DEF TestPatches, world, pushed
<1>3. CASE ~Applies(j)
  BY <1>1, <1>2, <1>3 DEF TestPatches, Goto, TypeOK, JobInv, Whole, Tested
<1>4. CASE Applies(j)
  <2> DEFINE e == [rel |-> seen[j], src |-> got[j].src, pat |-> got[j].pat]
  <2>1. pc'[j] = "query" /\ work'[j] = [work[j] EXCEPT ![at[j]] = e]
    BY <1>4 DEF TestPatches, Goto, TypeOK
  <2>2. /\ at[j] \in Channels /\ seen[j] \in Releases /\ got[j].pat \in Int
        /\ needs[seen[j]] \in Int /\ needs[seen[j]] > 0
    <3>1. at[j] <= NChannels /\ seen[j] # 0
      BY <1>1, <1>2 DEF JobInv
    <3>2. at[j] \in Channels /\ seen[j] \in Releases
      BY <3>1, Constants DEF TypeOK, Channels, Releases
    <3>3. needs[seen[j]] \in 1..MaxRev
      BY <3>2 DEF TypeOK
    <3>4. got[j].pat \in Int
      BY DEF TypeOK
    <3> QED
      BY <3>2, <3>3, <3>4, Constants
  <2>3. got[j].src = 1 /\ got[j].pat >= needs[seen[j]]
    BY <1>1, <1>2, <1>4, <2>2 DEF JobInv, Applies
  <2>4. Tested(e)
    BY <2>3 DEF Tested
  <2>5. \A c \in Channels : work'[j][c] = IF c = at[j] THEN e ELSE work[j][c]
    BY <2>1 DEF TypeOK
  <2>6. /\ \A c \in Channels : /\ remote[c].rel \in Int /\ work[j][c].rel \in Int
                               /\ current[c] \in Int
        /\ seen[j] \in Int
    BY Constants DEF TypeOK, Entry
  <2>7. \A c \in Channels : Tested(work'[j][c])
    BY <1>1, <2>4, <2>5 DEF JobInv
  <2>8. \A c \in Channels : /\ work'[j][c].rel <= current[c]
                            /\ ~behind[j] => remote[c].rel <= work'[j][c].rel
    BY <1>1, <1>2, <2>2, <2>5, <2>6 DEF JobInv
  <2> QED
    BY <1>1, <1>2, <2>1, <2>7, <2>8 DEF JobInv, Whole, Tested
<1> QED
  BY <1>3, <1>4

LEMMA PublishInv ==
  ASSUME TypeOK, ConfigInv, NEW j \in Jobs, Publish(j)
  PROVE  JobInv(j)' /\ SumsTested' /\ Older'
<1>1. JobInv(j)
  BY DEF ConfigInv
<1>2. /\ pc[j] = "write" /\ pc'[j] = "select" /\ UNCHANGED <<released, current, needs, work, dir>>
      /\ \/ remote' = work[j]
         \/ remote' = remote
      /\ behind'[j] = behind[j]
  BY DEF Publish, Goto, TypeOK, world, pushed
<1>3. \A c \in Channels : work[j][c].rel \in Int
  BY Constants DEF TypeOK, Entry
<1>4. JobInv(j)'
  BY <1>1, <1>2, <1>3 DEF JobInv, Whole, Tested
<1>5. SumsTested'
  BY <1>1, <1>2 DEF JobInv, ConfigInv, SumsTested, Tested
<1>6. Older'
  BY <1>1, <1>2 DEF JobInv, ConfigInv, Older
<1> QED
  BY <1>4, <1>5, <1>6

LEMMA EndInv ==
  ASSUME TypeOK, ConfigInv, NEW j \in Jobs, Finish(j) \/ Panic(j)
  PROVE  JobInv(j)' /\ Whole(saved)'
<1>1. JobInv(j) /\ Whole(saved)
  BY DEF ConfigInv
<1>2. /\ pc'[j] = "idle" /\ dir'[j] = EmptyCache /\ work'[j] = [c \in Channels |-> NoEntry]
      /\ UNCHANGED <<current, needs>>
  BY DEF Finish, Panic, Forget, Goto, TypeOK, world
<1>3. \A c \in Channels : current[c] >= 0
  BY Constants DEF TypeOK
<1>4. JobInv(j)'
  BY <1>2, <1>3 DEF JobInv, Whole, EmptyCache, Tested, NoEntry
<1>5. Whole(saved)'
  BY <1>1 DEF Finish, Panic, JobInv, Whole
<1> QED
  BY <1>4, <1>5

LEMMA StepInv == ASSUME TypeOK, ConfigInv, NEW j \in Jobs, Step(j) PROVE ConfigInv'
<1>1. JobInv(j)'
  BY StartInv, QueryInv, GetInv, TestInv, PublishInv, EndInv DEF Step
<1>2. \A k \in Jobs : JobInv(k)'
  BY <1>1, OthersInv
<1>3. SumsTested' /\ Older' /\ Whole(saved)'
  <2>1. CASE Publish(j)
    BY <2>1, PublishInv DEF Publish, ConfigInv, Whole
  <2>2. CASE Finish(j) \/ Panic(j)
    BY <2>2, EndInv DEF Finish, Panic, Forget, world, pushed, ConfigInv, SumsTested, Older
  <2>3. CASE UNCHANGED <<released, current, needs, remote, saved>>
    BY <2>3 DEF ConfigInv, SumsTested, Older, Whole
  <2> QED
    BY <2>1, <2>2, <2>3 DEF Step, Start, NextChannel, NeedsUpdate, CheckPatchesExist, CopyPatches,
      GetSource, GetPatches, BreaksOff, TestPatches, AllChannelsDone, Select, Build, Fails, world, pushed
<1>4. ConfigInv' = (SumsTested' /\ Older' /\ Whole(saved)' /\ \A k \in Jobs : JobInv(k)')
  BY DEF ConfigInv
<1> QED
  BY <1>2, <1>3, <1>4

(* What the rest of the world does, and a step that changes nothing. *)
LEMMA WorldInv ==
  ASSUME TypeOK, ConfigInv, Release \/ (\E m \in Minors : Commit(m)) \/ UNCHANGED vars
  PROVE  TypeOK' /\ ConfigInv'
<1>1. /\ UNCHANGED <<needs, remote, readable, built, saved, pc, work, dir, at, seen, got, updated,
                     todo, behind, faults>>
  BY DEF Release, Commit, NoFault, vars, world, pushed, iteration
<1>2. /\ released' \in 0..MaxRelease /\ current' \in [Channels -> 0..MaxRelease]
      /\ \A c \in Channels : current[c] <= current'[c] /\ current'[c] <= released'
  <2>1. CASE Release
    <3>1. released + 1 \in 1..MaxRelease /\ Chan[released + 1] \in Channels
      BY <2>1, Constants DEF Release, TypeOK
    <3>2. \A c \in Channels : current[c] <= released /\ current[c] \in Int /\ released \in Int
      BY Constants DEF ConfigInv, Older, TypeOK
    <3>3. current' = [current EXCEPT ![Chan[released + 1]] = released + 1]
          /\ released' = released + 1 /\ released + 1 \in 0..MaxRelease
      BY <2>1, <3>1, Constants DEF Release
    <3>4. \A c \in Channels : current'[c] = IF c = Chan[released + 1] THEN released + 1 ELSE current[c]
      BY <3>3 DEF TypeOK
    <3>5. current' \in [Channels -> 0..MaxRelease]
      BY <3>3 DEF TypeOK
    <3> QED
      BY <3>2, <3>3, <3>4, <3>5
  <2>2. CASE UNCHANGED <<released, current>>
    BY <2>2, Constants DEF TypeOK, ConfigInv, Older
  <2> QED
    BY <2>1, <2>2 DEF Commit, vars, world
<1>3. branch' \in [Minors -> 0..MaxRev]
  <2>1. CASE branch' = branch
    BY <2>1 DEF TypeOK
  <2>2. ASSUME NEW m \in Minors, Commit(m) PROVE branch' \in [Minors -> 0..MaxRev]
    <3>1. branch' = [branch EXCEPT ![m] = branch[m] + 1] /\ branch[m] + 1 \in 0..MaxRev
      BY <2>2, Constants DEF Commit, TypeOK
    <3> QED
      BY <3>1 DEF TypeOK
  <2> QED
    BY <2>1, <2>2 DEF Release, vars, world
<1>4. TypeOK'
  BY <1>1, <1>2, <1>3 DEF TypeOK
<1>5. \A c \in Channels : /\ current[c] \in Int /\ current'[c] \in Int /\ remote[c].rel \in Int
  BY <1>2, Constants DEF TypeOK, Entry
<1>6. ASSUME NEW j \in Jobs PROVE JobInv(j)'
  <2>1. JobInv(j)
    BY DEF ConfigInv
  <2>2. at[j] <= NChannels => at[j] \in Channels
    BY Constants DEF TypeOK, Channels
  <2>3. seen[j] \in Int /\ \A c \in Channels : work[j][c].rel \in Int
    BY Constants DEF TypeOK, Entry
  <2> QED
    BY <1>1, <1>2, <1>5, <2>1, <2>2, <2>3 DEF JobInv, Whole, Tested
<1>7. SumsTested' /\ Older' /\ Whole(saved)'
  BY <1>1, <1>2, <1>5 DEF ConfigInv, SumsTested, Older, Whole
<1>8. ConfigInv' = (SumsTested' /\ Older' /\ Whole(saved)' /\ \A k \in Jobs : JobInv(k)')
  BY DEF ConfigInv
<1> QED
  BY <1>4, <1>6, <1>7, <1>8

LEMMA Inductive == TypeOK /\ ConfigInv /\ [Next]_vars => (TypeOK /\ ConfigInv)'
<1> SUFFICES ASSUME TypeOK, ConfigInv, [Next]_vars PROVE TypeOK' /\ ConfigInv'
  OBVIOUS
<1>1. SeenOK
  BY DEF SeenOK, InIteration, ConfigInv, JobInv
<1> QED
  BY <1>1, StepType, StepInv, WorldInv DEF Next

LEMMA Invariant == Spec => [](TypeOK /\ ConfigInv)
<1>1. Init => TypeOK /\ ConfigInv
  BY InitTypeOK, InitInv
<1> QED
  BY <1>1, Inductive, PTL DEF Spec

-----------------------------------------------------------------------------
(* The branches with the patches *)

LEMMA BranchGrows ==
  ASSUME TypeOK, TypeOK', ConfigInv, [Next]_vars
  PROVE  \A m \in Minors : branch[m] \in Nat /\ branch'[m] \in Nat /\ branch[m] <= branch'[m]
<1>1. \A m \in Minors : branch[m] \in Nat /\ branch'[m] \in Nat
  BY Constants DEF TypeOK
<1>2. CASE branch' = branch
  BY <1>1, <1>2
<1>3. ASSUME NEW m \in Minors, branch[m] = 0 \/ branch'[m] > branch[m],
             branch' = [branch EXCEPT ![m] = branch'[m]]
      PROVE  \A n \in Minors : branch[n] <= branch'[n]
  <2>1. \A n \in Minors : n # m => branch'[n] = branch[n]
    BY <1>3 DEF TypeOK
  <2> QED
    BY <1>1, <1>3, <2>1
<1>4. ASSUME NEW m \in Minors, Commit(m) PROVE \A n \in Minors : branch[n] <= branch'[n]
  <2>1. branch' = [branch EXCEPT ![m] = branch[m] + 1]
    BY <1>4 DEF Commit
  <2>2. branch'[m] = branch[m] + 1
    BY <2>1 DEF TypeOK
  <2> QED
    BY <1>1, <1>3, <2>1, <2>2
<1>5. ASSUME NEW j \in Jobs, CopyPatches(j), branch' # branch
      PROVE  \A n \in Minors : branch[n] <= branch'[n]
  <2>1. Line(j) \in Minors
    BY <1>5, Constants DEF CopyPatches, ConfigInv, JobInv, Line, TypeOK, Releases
  <2>2. branch[Line(j)] = 0 /\ branch' = [branch EXCEPT ![Line(j)] = branch[Line(j) - 1]]
    BY <1>5 DEF CopyPatches
  <2>3. branch' = [branch EXCEPT ![Line(j)] = branch'[Line(j)]]
    BY <2>1, <2>2 DEF TypeOK
  <2> QED
    BY <1>3, <2>1, <2>2, <2>3
<1>6. \/ branch' = branch
      \/ \E m \in Minors : Commit(m)
      \/ \E j \in Jobs : CopyPatches(j)
  BY DEF Next, Step, Start, NextChannel, NeedsUpdate, CheckPatchesExist, GetSource, GetPatches,
    BreaksOff, TestPatches, AllChannelsDone, Publish, Select, Build, Finish, Panic, Forget, Fails, Release,
    vars, world
<1> QED
  BY <1>1, <1>2, <1>4, <1>5, <1>6

(* What was no newer than the branches is no newer than what they become. *)
LEMMA StillFollows ==
  ASSUME TypeOK, \A m \in Minors : branch[m] \in Nat /\ branch'[m] \in Nat /\ branch[m] <= branch'[m]
  PROVE  /\ \A cache \in Cache : NoNewer(cache, branch) => NoNewer(cache, branch')
         /\ \A e \in Entry : Follows(e, branch) => Follows(e, branch')
<1>1. ASSUME NEW cache \in Cache, NoNewer(cache, branch) PROVE NoNewer(cache, branch')
  <2> SUFFICES ASSUME NEW m \in Minors PROVE cache.pat[m] <= branch'[m]
    BY DEF NoNewer
  <2>1. cache.pat[m] \in Int /\ cache.pat[m] <= branch[m]
    BY <1>1 DEF NoNewer, Cache
  <2> QED
    BY <2>1
<1>2. ASSUME NEW e \in Entry, Follows(e, branch), e.rel # 0 PROVE e.pat <= branch'[Minor[e.rel]]
  <2>1. e.rel \in 1..MaxRelease /\ e.pat \in Int
    BY <1>2, Constants DEF Entry
  <2>2. Minor[e.rel] \in Minors /\ e.pat <= branch[Minor[e.rel]]
    BY <1>2, <2>1, Constants DEF Follows
  <2> QED
    BY <2>1, <2>2
<1> QED
  BY <1>1, <1>2 DEF Follows
LEMMA GetFollows ==
  ASSUME TypeOK, ConfigInv, NEW j \in Jobs, JobFollows(j),
         GetSource(j) \/ GetPatches(j) \/ BreaksOff(j)
  PROVE  JobFollows(j)'
<1>1. branch' = branch /\ work' = work /\ seen' = seen
  BY DEF GetSource, GetPatches, BreaksOff, world, iteration
<1>2. /\ seen[j] \in Releases /\ Line(j) \in Minors /\ dir[j] \in Cache
      /\ branch[Line(j)] \in Nat
  BY Constants DEF GetSource, GetPatches, BreaksOff, ConfigInv, JobInv, Line, TypeOK, Releases
<1>3. CASE dir'[j].pat = dir[j].pat /\ pc'[j] # "test"
  BY <1>1, <1>3 DEF JobFollows, NoNewer
<1>4. ASSUME NEW c \in Int, c <= branch[Line(j)], dir'[j].pat = [dir[j].pat EXCEPT ![Line(j)] = c],
             pc'[j] = "test" => got'[j].pat = c
      PROVE  JobFollows(j)'
  <2>1. NoNewer(dir'[j], branch)
    BY <1>2, <1>4 DEF JobFollows, NoNewer, Cache
  <2>2. Line(j)' = Line(j)
    BY <1>1 DEF Line
  <2> QED
    BY <1>1, <1>4, <2>1, <2>2 DEF JobFollows
<1>5. CASE GetSource(j)
  <2> DEFINE c == Found(dir[j].src[seen[j]], 1)
  <2>1. dir' = [dir EXCEPT ![j] = [dir[j] EXCEPT !.src = [dir[j].src EXCEPT ![seen[j]] = c]]]
    BY <1>5 DEF GetSource
  <2>2. dir'[j].pat = dir[j].pat
    BY <1>2, <2>1 DEF TypeOK, Cache
  <2>3. pc'[j] # "test"
    BY <1>5 DEF GetSource, Use, Goto, TypeOK
  <2> QED
    BY <1>3, <2>2, <2>3
<1>6. CASE GetPatches(j)
  <2> DEFINE c == Found(dir[j].pat[Line(j)], branch[Line(j)])
  <2>1. c \in Int /\ c <= branch[Line(j)]
    BY <1>2 DEF Found, JobFollows, NoNewer, Cache
  <2>2. dir' = [dir EXCEPT ![j] = [dir[j] EXCEPT !.pat = [dir[j].pat EXCEPT ![Line(j)] = c]]]
    BY <1>6 DEF GetPatches
  <2>3. dir'[j].pat = [dir[j].pat EXCEPT ![Line(j)] = c]
    BY <1>2, <2>2 DEF TypeOK, Cache
  <2>4. got'[j].pat = c
    BY <1>6 DEF GetPatches, TypeOK
  <2> QED
    BY <1>4, <2>1, <2>3, <2>4
<1>7. CASE BreaksOff(j)
  <2>1. pc'[j] = "panic"
    BY <1>7 DEF BreaksOff, Goto, TypeOK
  <2>2. \/ dir' = [dir EXCEPT ![j] = [dir[j] EXCEPT !.src = [dir[j].src EXCEPT ![seen[j]] = -1]]]
        \/ dir' = [dir EXCEPT ![j] = [dir[j] EXCEPT !.pat =
                     [dir[j].pat EXCEPT ![Line(j)] = -branch[Line(j)]]]]
    BY <1>7 DEF BreaksOff
  <2>3. \/ dir'[j].pat = dir[j].pat
        \/ dir'[j].pat = [dir[j].pat EXCEPT ![Line(j)] = -branch[Line(j)]]
    <3>1. ASSUME NEW d, dir' = [dir EXCEPT ![j] = d] PROVE dir'[j] = d
      BY <3>1 DEF TypeOK
    <3>2. /\ [dir[j] EXCEPT !.src = [dir[j].src EXCEPT ![seen[j]] = -1]].pat = dir[j].pat
          /\ [dir[j] EXCEPT !.pat = [dir[j].pat EXCEPT ![Line(j)] = -branch[Line(j)]]].pat
               = [dir[j].pat EXCEPT ![Line(j)] = -branch[Line(j)]]
      BY <1>2 DEF Cache
    <3> QED
      BY <2>2, <3>1, <3>2
  <2>4. -branch[Line(j)] \in Int /\ -branch[Line(j)] <= branch[Line(j)]
    BY <1>2
  <2> QED
    BY <1>3, <1>4, <2>1, <2>3, <2>4
<1> QED
  BY <1>5, <1>6, <1>7

LEMMA TestFollows ==
  ASSUME TypeOK, ConfigInv, NEW j \in Jobs, JobFollows(j), TestPatches(j)
  PROVE  JobFollows(j)'
<1>1. UNCHANGED <<branch, dir>> /\ pc'[j] # "test"
  BY DEF TestPatches, Goto, TypeOK, world
<1>2. CASE work' = work
  BY <1>1, <1>2 DEF JobFollows
<1>3. CASE work' # work
  <2> DEFINE e == [rel |-> seen[j], src |-> got[j].src, pat |-> got[j].pat]
  <2>1. work' = [work EXCEPT ![j] = [work[j] EXCEPT ![at[j]] = e]] /\ pc[j] = "test"
    BY <1>3 DEF TestPatches
  <2>2. \A c \in Channels : work'[j][c] \in {e, work[j][c]}
    BY <2>1 DEF TypeOK
  <2>3. Follows(e, branch)
    BY <2>1 DEF Follows, JobFollows, Line
  <2>4. \A c \in Channels : Follows(work'[j][c], branch)
    BY <2>2, <2>3 DEF JobFollows
  <2> QED
    BY <1>1, <2>4 DEF JobFollows
<1> QED
  BY <1>2, <1>3

LEMMA JobFollowsStep ==
  ASSUME TypeOK, TypeOK', ConfigInv, BranchInv, NEW j \in Jobs, Step(j) PROVE JobFollows(j)'
<1>1. \A m \in Minors : branch[m] \in Nat /\ branch'[m] \in Nat /\ branch[m] <= branch'[m]
  BY BranchGrows DEF Next
<1>2. JobFollows(j) /\ NoNewer(saved, branch) /\ \A c \in Channels : Follows(remote[c], branch)
  BY DEF BranchInv
<1>3. /\ saved \in Cache /\ dir[j] \in Cache
      /\ \A c \in Channels : remote[c] \in Entry /\ work[j][c] \in Entry
  BY DEF TypeOK
<1>4. /\ NoNewer(saved, branch') /\ NoNewer(dir[j], branch')
      /\ \A c \in Channels : Follows(remote[c], branch') /\ Follows(work[j][c], branch')
  BY <1>1, <1>2, <1>3, StillFollows DEF JobFollows
<1>5. CASE Start(j)
  <2>1. dir'[j] = saved /\ work'[j] = remote /\ pc'[j] # "test"
    BY <1>5 DEF Start, Goto, TypeOK
  <2> QED
    BY <1>4, <2>1 DEF JobFollows
<1>6. CASE GetSource(j) \/ GetPatches(j) \/ BreaksOff(j) \/ TestPatches(j)
  BY <1>2, <1>6, GetFollows, TestFollows
<1>7. CASE Finish(j) \/ Panic(j)
  <2>1. /\ dir'[j] = EmptyCache /\ pc'[j] = "idle"
        /\ \A c \in Channels : work'[j][c] = NoEntry
    BY <1>7 DEF Finish, Panic, Forget, Goto, TypeOK
  <2>2. NoNewer(EmptyCache, branch') /\ Follows(NoEntry, branch')
    BY <1>1 DEF NoNewer, EmptyCache, Follows, NoEntry
  <2> QED
    BY <2>1, <2>2 DEF JobFollows
<1>8. CASE UNCHANGED <<work, dir>> /\ pc'[j] # "test"
  BY <1>4, <1>8 DEF JobFollows
<1> QED
  BY <1>5, <1>6, <1>7, <1>8 DEF Step, NextChannel, NeedsUpdate, CheckPatchesExist, CopyPatches,
    AllChannelsDone, Publish, Select, Build, Fails, Goto, TypeOK, iteration

LEMMA BranchStep ==
  TypeOK /\ ConfigInv /\ BranchInv /\ [Next]_vars => BranchInv'
<1> SUFFICES ASSUME TypeOK, ConfigInv, BranchInv, [Next]_vars PROVE BranchInv'
  OBVIOUS
<1>1. TypeOK'
  BY Inductive
<1>2. \A m \in Minors : branch[m] \in Nat /\ branch'[m] \in Nat /\ branch[m] <= branch'[m]
  BY <1>1, BranchGrows
<1>3. /\ saved \in Cache /\ NoNewer(saved, branch)
      /\ \A c \in Channels : remote[c] \in Entry /\ Follows(remote[c], branch)
  BY DEF TypeOK, BranchInv
<1>4. NoNewer(saved, branch') /\ \A c \in Channels : Follows(remote[c], branch')
  BY <1>2, <1>3, StillFollows
<1>5. ASSUME NEW k \in Jobs,
             UNCHANGED <<pc[k], work[k], dir[k], seen[k], got[k]>>
      PROVE  JobFollows(k)'
  <2>1. JobFollows(k) /\ dir[k] \in Cache /\ \A c \in Channels : work[k][c] \in Entry
    BY DEF TypeOK, BranchInv
  <2>2. NoNewer(dir[k], branch') /\ \A c \in Channels : Follows(work[k][c], branch')
    BY <1>2, <2>1, StillFollows DEF JobFollows
  <2>3. ASSUME pc[k] = "test" PROVE got[k].pat <= branch'[Line(k)]
    <3>1. Line(k) \in Minors /\ got[k].pat \in Int
      BY <2>3, Constants DEF ConfigInv, JobInv, Line, TypeOK, Releases
    <3> QED
      BY <1>2, <2>1, <2>3, <3>1 DEF JobFollows
  <2>4. Line(k)' = Line(k)
    BY <1>5 DEF Line
  <2> QED
    BY <1>5, <2>2, <2>3, <2>4 DEF JobFollows
<1>6. ASSUME NEW j \in Jobs, Step(j) PROVE BranchInv'
  <2>1. \A k \in Jobs : JobFollows(k)'
    BY <1>1, <1>5, <1>6, OthersUnchanged, JobFollowsStep
  <2>2. NoNewer(saved', branch')
    <3>1. saved' = saved \/ (saved' = dir[j] /\ branch' = branch)
      BY <1>6 DEF Step, Start, NextChannel, NeedsUpdate, CheckPatchesExist, CopyPatches, GetSource,
        GetPatches, BreaksOff, TestPatches, AllChannelsDone, Publish, Select, Build, Finish, Panic, Forget,
        Fails, world
    <3> QED
      BY <1>4, <3>1 DEF BranchInv, JobFollows
  <2>3. \A c \in Channels : Follows(remote'[c], branch')
    <3>1. remote' = remote \/ (remote' = work[j] /\ branch' = branch)
      BY <1>6 DEF Step, Start, NextChannel, NeedsUpdate, CheckPatchesExist, CopyPatches, GetSource,
        GetPatches, BreaksOff, TestPatches, AllChannelsDone, Publish, Select, Build, Finish, Panic, Forget,
        Fails, world, pushed
    <3> QED
      BY <1>4, <3>1 DEF BranchInv, JobFollows
  <2> QED
    BY <2>1, <2>2, <2>3 DEF BranchInv
<1>7. CASE Release \/ (\E m \in Minors : Commit(m)) \/ UNCHANGED vars
  <2>1. UNCHANGED <<remote, saved, pc, work, dir, seen, got>>
    BY <1>7 DEF Release, Commit, vars, pushed, iteration
  <2>2. \A k \in Jobs : JobFollows(k)'
    BY <1>5, <2>1
  <2> QED
    BY <1>4, <2>1, <2>2 DEF BranchInv
<1> QED
  BY <1>6, <1>7 DEF Next

LEMMA BranchInvariant == Spec => []BranchInv
<1>1. Init => BranchInv
  <2> SUFFICES ASSUME Init PROVE BranchInv
    OBVIOUS
  <2>1. NoNewer(EmptyCache, branch)
    BY Constants DEF Init, NoNewer, EmptyCache
  <2>2. Follows(NoEntry, branch)
    BY DEF Follows, NoEntry
  <2> QED
    BY <2>1, <2>2 DEF Init, BranchInv, JobFollows
<1> QED
  BY <1>1, BranchStep, Invariant, PTL DEF Spec

-----------------------------------------------------------------------------
(* Theorems *)

(* Everything update_config handles keeps its type. *)
THEOREM TypeCorrect == Spec => []TypeOK
  BY Invariant, PTL

(* The checksums update_config pushes (config.rs 320-390, 393-423) are     *)
(* those of whole archives whose patches apply to the source.              *)
THEOREM SumsAreTested == Spec => []SumsTested
<1>1. ConfigInv => SumsTested
  BY DEF ConfigInv
<1> QED
  BY <1>1, Invariant, PTL

(* No push takes a channel of config.toml back to an earlier release, with *)
(* any number of runs that overlap (config.rs 401-423).                    *)
THEOREM ChannelsAdvance == Spec => NeverBack
<1> DEFINE Advance == \A c \in Channels : remote'[c].rel >= remote[c].rel
<1>1. TypeOK /\ ConfigInv /\ [Next]_vars => [Advance]_vars
  <2> SUFFICES ASSUME TypeOK, ConfigInv, Next, NEW c \in Channels
               PROVE  remote'[c].rel >= remote[c].rel
    OBVIOUS
  <2>1. remote[c].rel \in Int
    BY Constants DEF TypeOK, Entry
  <2>2. CASE remote' = remote
    BY <2>1, <2>2
  <2>3. ASSUME NEW j \in Jobs, Publish(j), remote' = work[j], ~behind[j]
        PROVE  remote'[c].rel >= remote[c].rel
    <3>1. remote[c].rel <= work[j][c].rel /\ work[j][c].rel \in Int
      <4>1. JobInv(j) /\ pc[j] = "write"
        BY <2>3 DEF ConfigInv, Publish
      <4> QED
        BY <2>3, <4>1, Constants DEF JobInv, TypeOK, Entry
    <3> QED
      BY <2>1, <2>3, <3>1
  <2>4. remote' = remote \/ \E j \in Jobs : Publish(j) /\ remote' = work[j] /\ ~behind[j]
    BY DEF Next, Step, Start, NextChannel, NeedsUpdate, CheckPatchesExist, CopyPatches, GetSource,
      GetPatches, BreaksOff, TestPatches, AllChannelsDone, Publish, Select, Build, Finish, Panic, Forget,
      Fails, Release, Commit, pushed
  <2> QED
    BY <2>2, <2>3, <2>4
<1> QED
  BY <1>1, Invariant, PTL DEF Spec, NeverBack

(* A run of update_config and of the builds behind it panics only when     *)
(* something failed in it, or for one of the named reasons (config.rs 162, *)
(* 312-348, 395): however runs overlap and wherever earlier ones broke     *)
(* off, it is never a torn archive or a checksum that nothing matches.     *)
THEOREM PanicHasReason == Spec => PanicsForAReason
<1>1. ASSUME TypeOK, ConfigInv, BranchInv, Next, NEW j \in Jobs,
             pc[j] # "panic", pc'[j] = "panic", faults' = faults
      PROVE  Obstacle(j)
  <2>1. Step(j)
    <3>1. ASSUME NEW k \in Jobs, Step(k), k # j PROVE FALSE
      BY <1>1, <3>1, OthersUnchanged
    <3> QED
      BY <1>1, <3>1 DEF Next, Release, Commit
  <2>2. JobInv(j) /\ JobFollows(j)
    BY <1>1 DEF ConfigInv, BranchInv
  <2>3. CASE Start(j)
    BY <1>1, <2>3 DEF Start, Goto, TypeOK, Obstacle
  <2>4. CASE CopyPatches(j)
    BY <1>1, <2>4 DEF CopyPatches, Goto, TypeOK, Obstacle
  <2>5. CASE GetSource(j)
    <3>1. seen[j] \in Releases /\ dir[j].src[seen[j]] \in {0, 1}
      BY <1>1, <2>2, <2>5, Constants DEF GetSource, JobInv, Whole, TypeOK, Releases
    <3>2. Found(dir[j].src[seen[j]], 1) = 1
      BY <3>1 DEF Found
    <3> QED
      BY <1>1, <2>5, <3>2 DEF GetSource, Use, Goto, TypeOK
  <2>6. CASE GetPatches(j)
    <3>1. Line(j) \in Minors /\ dir[j].pat[Line(j)] \in Int /\ dir[j].pat[Line(j)] >= 0
      BY <1>1, <2>2, <2>6, Constants DEF GetPatches, JobInv, Whole, TypeOK, Releases, Line, Cache
    <3>2. branch[Line(j)] \in Nat
      BY <1>1, <3>1, Constants DEF TypeOK
    <3>3. ~(Found(dir[j].pat[Line(j)], branch[Line(j)]) < 0)
      BY <3>1, <3>2 DEF Found
    <3> QED
      BY <1>1, <2>6, <3>3 DEF GetPatches, Use, Goto, TypeOK
  <2>7. CASE TestPatches(j)
    <3>1. pc[j] = "test" /\ ~Applies(j)
      BY <1>1, <2>7 DEF TestPatches, Goto, TypeOK
    <3>2. seen[j] \in Releases /\ Line(j) \in Minors
      BY <1>1, <2>2, <3>1, Constants DEF JobInv, TypeOK, Releases, Line
    <3>3. got[j].pat \in Int /\ needs[seen[j]] \in Int /\ branch[Line(j)] \in Int
      BY <1>1, <3>2, Constants DEF TypeOK
    <3>4. got[j].pat < needs[seen[j]] /\ got[j].pat <= branch[Line(j)]
      BY <2>2, <3>1, <3>3 DEF Applies, JobFollows
    <3> QED
      BY <3>1, <3>3, <3>4 DEF Obstacle
  <2>8. ASSUME NEW c \in Channels, Build(j, c) PROVE Obstacle(j)
    <3>1. pc[j] = "build" /\ c \in todo[j] /\ ~Verified(work[j][c])
      BY <1>1, <2>8 DEF Build
    <3>2. work[j][c].rel # 0
      BY <2>2, <3>1 DEF JobInv
    <3>3. work[j][c].src = 1 /\ work[j][c].pat <= branch[Minor[work[j][c].rel]]
      BY <2>2, <3>2 DEF JobInv, Tested, JobFollows, Follows
    <3>4. work[j][c].pat \in Int /\ branch[Minor[work[j][c].rel]] \in Int
      <4>1. work[j][c] \in Entry
        BY <1>1 DEF TypeOK
      <4>2. work[j][c].rel \in 1..MaxRelease /\ work[j][c].pat \in Int
        BY <3>2, <4>1, Constants DEF Entry
      <4> QED
        BY <1>1, <4>2, Constants DEF TypeOK
    <3>5. work[j][c].pat < branch[Minor[work[j][c].rel]]
      BY <3>1, <3>3, <3>4 DEF Verified
    <3> QED
      BY <3>1, <3>5 DEF Obstacle
  <2>9. CASE BreaksOff(j) \/ Fails(j)
    BY <1>1, <2>9 DEF BreaksOff, Fails, Fault, TypeOK
  <2> QED
    BY <1>1, <2>1, <2>3, <2>4, <2>5, <2>6, <2>7, <2>8, <2>9 DEF Step, NextChannel, NeedsUpdate,
      CheckPatchesExist, AllChannelsDone, Publish, Select, Finish, Panic, Forget, Goto, TypeOK
<1> DEFINE Reasoned == \A j \in Jobs : pc[j] # "panic" /\ pc'[j] = "panic" => faults' # faults \/ Obstacle(j)
<1>2. TypeOK /\ ConfigInv /\ BranchInv /\ [Next]_vars => [Reasoned]_vars
  BY <1>1
<1> QED
  BY <1>2, Invariant, BranchInvariant, PTL DEF Spec, PanicsForAReason
=============================================================================
