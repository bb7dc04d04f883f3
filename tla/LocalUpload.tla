----------------------------- MODULE LocalUpload -----------------------------
(***************************************************************************)
(* LocalServer of src/server/local.rs: inotify watches the directory that  *)
(* the build containers write to, and upload_repo_changes uploads the      *)
(* files it reports.  repo::upload writes a hidden etag file into the same *)
(* directory, so that the loop feeds its own queue.                        *)
(***************************************************************************)
EXTENDS Naturals, Sequences, SequencesExt, FiniteSets

CONSTANTS Files,      \* the names in the directory, hidden ones left out
          Batch,      \* how many events fit into the buffer of read_events
          QueueMax,   \* how many events the kernel queues
          MaxWrites,  \* bound on what builds do to the directory
          MaxFaults   \* bound on the failed uploads

ASSUME BoundAssumption == /\ Batch \in Nat \ {0} /\ QueueMax \in Nat \ {0}
                          /\ MaxWrites \in Nat /\ MaxFaults \in Nat

(* An event carries the name of a file, `hidden` for one that starts with  *)
(* a dot, or no name at all when the queue overflowed.                     *)
Hidden == "hidden"
Overflow == "overflow"
Names == Files \cup {Hidden, Overflow}
ASSUME NameAssumption == Files \cap {Hidden, Overflow} = {}

VARIABLES
    pc,        \* "build": a package is built; "read", "event": in the loop of
               \* upload_repo_changes; "returned": it returned Ok; "failed": Err
    dir,       \* the version of each file, 0 when there is none
    moved,     \* files whose version came by a rename
    queue,     \* the events the kernel holds
    buf,       \* the events read and not yet handled
    dropped,   \* the queue has overflowed
    bucket,    \* the version of each file in the bucket
    res,       \* the result collected so far
    writes, faults

vars == <<pc, dir, moved, queue, buf, dropped, bucket, res, writes, faults>>
files == <<dir, moved, bucket, writes>>

TypeOK ==
    /\ pc \in {"build", "read", "event", "returned", "failed"}
    /\ dir \in [Files -> 0..MaxWrites] /\ bucket \in [Files -> 0..MaxWrites]
    /\ moved \subseteq Files
    /\ queue \in Seq(Names) /\ buf \in Seq(Names)
    /\ dropped \in BOOLEAN /\ res \in {"ok", "err"}
    /\ writes \in 0..MaxWrites /\ faults \in 0..MaxFaults

Init ==
    /\ pc = "build" /\ res = "ok"
    /\ dir = [f \in Files |-> 0] /\ bucket = [f \in Files |-> 0]
    /\ moved = {} /\ queue = <<>> /\ buf = <<>> /\ dropped = FALSE
    /\ writes = 0 /\ faults = 0

-----------------------------------------------------------------------------
(* The directory and its watch (CREATE and MODIFY) *)

(* Seeded fault: an event carries the path of its file. *)
QueuedPath(q, n) == Append(q, <<n>>)

(* The kernel merges an event with an equal one at the end of the queue,   *)
(* and when the queue is full it queues one event without a name instead.  *)
Queued(q, n) ==
    IF q # <<>> /\ Last(q) = n THEN q
    ELSE IF Len(q) < QueueMax THEN Append(q, n)
    ELSE IF Last(q) = Overflow THEN q ELSE Append(q, Overflow)
Lost(q, n) == Len(q) >= QueueMax /\ Last(q) # n

Builds == /\ pc \in {"build", "returned"} /\ pc' = "build"
          /\ writes < MaxWrites /\ writes' = writes + 1

(* A build creates a file or writes to it. *)
Write(f) ==
    /\ Builds
    /\ dir' = [dir EXCEPT ![f] = writes + 1]
    /\ moved' = moved \ {f}
    /\ queue' = Queued(queue, f) /\ dropped' = (dropped \/ Lost(queue, f))
    /\ UNCHANGED <<buf, bucket, res, faults>>

(* A build renames a file it has finished over another one, as abuild does *)
(* with the index: nothing is reported of the new name.                    *)
Rename(f, g) ==
    /\ Builds /\ f # g /\ dir[f] # 0
    /\ dir' = [dir EXCEPT ![f] = 0, ![g] = writes + 1]
    /\ moved' = (moved \ {f}) \cup {g}
    /\ UNCHANGED <<queue, buf, dropped, bucket, res, faults>>

-----------------------------------------------------------------------------
(* upload_repo_changes *)

(* Once per package, one of an update that was skipped included. *)
Call ==
    /\ pc \in {"build", "returned"}
    /\ pc' = "read" /\ res' = "ok"
    /\ UNCHANGED <<files, queue, buf, dropped, faults>>

(* Seeded fault: one buffer of events is handled, not all of them. *)
ReadOnce ==
    /\ pc = "read" /\ queue # <<>>
    /\ buf' = SubSeq(queue, 1, IF Len(queue) < Batch THEN Len(queue) ELSE Batch)
    /\ queue' = <<>>
    /\ pc' = "event"
    /\ UNCHANGED <<files, dropped, res, faults>>

ReadEvents ==
    /\ pc = "read" /\ queue # <<>>
    /\ LET n == IF Len(queue) < Batch THEN Len(queue) ELSE Batch
       IN buf' = SubSeq(queue, 1, n) /\ queue' = SubSeq(queue, n + 1, Len(queue))
    /\ pc' = "event"
    /\ UNCHANGED <<files, dropped, res, faults>>

(* No event is left: the collected result is returned. *)
NoEvents ==
    /\ pc = "read" /\ queue = <<>>
    /\ pc' = IF res = "ok" THEN "returned" ELSE "failed"
    /\ UNCHANGED <<files, queue, buf, dropped, res, faults>>

ReadFails ==
    /\ pc = "read" /\ faults < MaxFaults /\ faults' = faults + 1
    /\ pc' = "failed" /\ res' = "err"
    /\ UNCHANGED <<files, queue, buf, dropped>>

Advance == buf' = Tail(buf) /\ pc' = IF Len(buf) = 1 THEN "read" ELSE "event"

(* Seeded fault: hidden files are uploaded like the others. *)
UploadHidden ==
    /\ pc = "event"
    /\ IF Head(buf) = Hidden THEN queue' = Queued(queue, Hidden) ELSE UNCHANGED queue
    /\ Head(buf) \in Files => dir[Head(buf)] = 0
    /\ Advance
    /\ UNCHANGED <<files, dropped, res, faults>>

(* A hidden file, an event without a name, a file that is gone by now. *)
Skip ==
    /\ pc = "event"
    /\ Head(buf) \in Files => dir[Head(buf)] = 0
    /\ Advance
    /\ UNCHANGED <<files, queue, dropped, res, faults>>

(* repo::upload publishes the file and then writes its etag file. *)
Upload ==
    /\ pc = "event" /\ Head(buf) \in Files /\ dir[Head(buf)] # 0
    /\ bucket' = [bucket EXCEPT ![Head(buf)] = dir[Head(buf)]]
    /\ queue' = Queued(queue, Hidden) /\ dropped' = (dropped \/ Lost(queue, Hidden))
    /\ Advance
    /\ UNCHANGED <<dir, moved, writes, res, faults>>

(* Seeded fault: an upload that fails is only logged. *)
UploadFailsLogged ==
    /\ pc = "event" /\ Head(buf) \in Files /\ dir[Head(buf)] # 0
    /\ faults < MaxFaults /\ faults' = faults + 1
    /\ Advance
    /\ UNCHANGED <<files, queue, dropped, res>>

(* The put fails, or reading the file again for its hash, with the object  *)
(* published already; the loop goes on with the other files.               *)
UploadFails ==
    /\ pc = "event" /\ Head(buf) \in Files /\ dir[Head(buf)] # 0
    /\ faults < MaxFaults /\ faults' = faults + 1
    /\ \/ UNCHANGED bucket
       \/ bucket' = [bucket EXCEPT ![Head(buf)] = dir[Head(buf)]]
    /\ res' = "err"
    /\ Advance
    /\ UNCHANGED <<dir, moved, writes, queue, dropped>>

-----------------------------------------------------------------------------
UploadRepoChanges == ReadEvents \/ NoEvents \/ ReadFails \/ Skip \/ Upload \/ UploadFails

Next == \/ \E f \in Files : Write(f)
        \/ \E f, g \in Files : Rename(f, g)
        \/ Call \/ UploadRepoChanges

Spec == Init /\ [][Next]_vars

(* upload_repo_changes runs until it returns; builds may do nothing more.  *)
FairSpec == Spec /\ WF_vars(UploadRepoChanges)

-----------------------------------------------------------------------------
(* Properties *)

(* When upload_repo_changes has returned Ok, every file that was written   *)
(* in place is published as it is in the directory, however the events     *)
(* were batched, unless the queue overflowed.                              *)
WritesArePublished ==
    pc = "returned" /\ ~dropped => \A f \in Files \ moved : dir[f] # 0 => bucket[f] = dir[f]

(* The same of every file: "Upload any changes made to the repodir."       *)
ChangesArePublished ==
    pc = "returned" /\ ~dropped => \A f \in Files : dir[f] # 0 => bucket[f] = dir[f]

(* Why the loop ends: reading moves events, and handling one brings the    *)
(* last event that names a file nearer; behind it uploads leave nothing    *)
(* but events that are skipped, and once only those are left they get      *)
(* fewer.                                                                  *)
Pending == buf \o queue
FilesWithin(n) == \A i \in 1..Len(Pending) : Pending[i] \in Files => i <= n
Shrinks ==
    /\ pc = "read" => Pending' = Pending
    /\ pc = "event" => /\ \A n \in 1..Len(Pending) : FilesWithin(n) => FilesWithin(n - 1)'
                       /\ FilesWithin(0) => FilesWithin(0)' /\ Len(Pending') < Len(Pending)
LoopShrinks == [][Shrinks]_vars

(* The loop ends, although every upload adds an event to its queue.        *)
Terminates == [](pc = "read" => <>(pc \in {"returned", "failed"}))
=============================================================================
