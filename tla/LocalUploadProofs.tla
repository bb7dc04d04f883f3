-------------------------- MODULE LocalUploadProofs --------------------------
(***************************************************************************)
(* What holds of LocalUpload for any files, buffers and queues.            *)
(***************************************************************************)
EXTENDS LocalUpload, SequenceTheorems, TLAPS

(* Strengthenings of the invariants *)

In(q, n) == \E i \in 1..Len(q) : q[i] = n

(* A file whose last write is not published is named by an event that is   *)
(* still to come, or the error is on its way to main.                      *)
EventInv ==
    /\ buf # <<>> <=> pc = "event"
    /\ pc = "returned" => queue = <<>> /\ res = "ok"
    /\ ~dropped => \A f \in Files \ moved : dir[f] # 0 =>
          \/ bucket[f] = dir[f] \/ In(queue, f) \/ In(buf, f)
          \/ res = "err" /\ pc \in {"read", "event", "failed"}

-----------------------------------------------------------------------------
(* What the queue does with an event. *)
LEMMA QueuedType == ASSUME NEW q \in Seq(Names), NEW n \in Names PROVE Queued(q, n) \in Seq(Names)
  BY DEF Queued, Names

LEMMA QueuedKeeps ==
  ASSUME NEW q \in Seq(Names), NEW n, NEW m, In(q, m)
  PROVE  In(Queued(q, n), m)
<1>1. PICK i \in 1..Len(q) : q[i] = m
  BY DEF In
<1>2. i \in 1..Len(Queued(q, n)) /\ Queued(q, n)[i] = m
  BY <1>1 DEF Queued
<1> QED
  BY <1>2 DEF In

LEMMA QueuedAdds ==
  ASSUME NEW q \in Seq(Names), NEW n \in Names, ~Lost(q, n)
  PROVE  In(Queued(q, n), n)
<1>1. CASE q # <<>> /\ Last(q) = n
  <2>1. Len(q) \in 1..Len(q) /\ q[Len(q)] = n
    BY <1>1 DEF Last
  <2> QED
    BY <1>1, <2>1 DEF Queued, In
<1>2. CASE ~(q # <<>> /\ Last(q) = n)
  <2>1. Len(q) < QueueMax
    <3>1. CASE q = <<>>
      BY <3>1, BoundAssumption DEF BoundAssumption
    <3>2. CASE q # <<>>
      BY <1>2, <3>2, BoundAssumption DEF Lost, BoundAssumption
    <3> QED
      BY <3>1, <3>2
  <2>2. Queued(q, n) = Append(q, n)
    BY <1>2, <2>1 DEF Queued
  <2>3. Len(q) + 1 \in 1..Len(Append(q, n)) /\ Append(q, n)[Len(q) + 1] = n
    OBVIOUS
  <2> QED
    BY <2>2, <2>3 DEF In
<1> QED
  BY <1>1, <1>2

(* A buffer of events and the events behind it. *)
LEMMA Split ==
  ASSUME NEW q \in Seq(Names), NEW n \in 1..Len(q), NEW m, In(q, m)
  PROVE  In(SubSeq(q, 1, n), m) \/ In(SubSeq(q, n + 1, Len(q)), m)
<1>1. PICK i \in 1..Len(q) : q[i] = m
  BY DEF In
<1>2. CASE i <= n
  <2>1. i \in 1..Len(SubSeq(q, 1, n)) /\ SubSeq(q, 1, n)[i] = m
    BY <1>1, <1>2
  <2> QED
    BY <2>1 DEF In
<1>3. CASE i > n
  <2>1. i - n \in 1..Len(SubSeq(q, n + 1, Len(q))) /\ SubSeq(q, n + 1, Len(q))[i - n] = m
    BY <1>1, <1>3
  <2> QED
    BY <2>1 DEF In
<1> QED
  BY <1>2, <1>3

LEMMA Behead ==
  ASSUME NEW q \in Seq(Names), q # <<>>, NEW m, In(q, m), m # Head(q)
  PROVE  In(Tail(q), m)
<1>1. PICK i \in 1..Len(q) : q[i] = m
  BY DEF In
<1>2. i - 1 \in 1..Len(Tail(q)) /\ Tail(q)[i - 1] = m
  BY <1>1
<1> QED
  BY <1>2 DEF In

-----------------------------------------------------------------------------
LEMMA InitTypeOK == Init => TypeOK
<1> SUFFICES ASSUME Init PROVE TypeOK
  OBVIOUS
<1>1. 0 \in 0..MaxWrites /\ 0 \in 0..MaxFaults
  BY BoundAssumption DEF BoundAssumption
<1>2. queue \in Seq(Names) /\ buf \in Seq(Names)
  BY DEF Init
<1> QED
  BY <1>1, <1>2 DEF Init, TypeOK

LEMMA TypeStep == TypeOK /\ EventInv /\ [Next]_vars => TypeOK'
<1> SUFFICES ASSUME TypeOK, EventInv, [Next]_vars PROVE TypeOK'
  OBVIOUS
<1> USE BoundAssumption DEF BoundAssumption, TypeOK
<1>0. Files \subseteq Names /\ Hidden \in Names
  BY DEF Names
<1>1. ASSUME NEW f \in Files, Write(f) PROVE TypeOK'
  <2>1. queue' \in Seq(Names)
    BY <1>0, <1>1, QueuedType DEF Write
  <2> QED
    BY <1>1, <2>1 DEF Write, Builds
<1>2. ASSUME NEW f \in Files, NEW g \in Files, Rename(f, g) PROVE TypeOK'
  <2>1. writes' \in 0..MaxWrites /\ writes' = writes + 1 /\ 0 \in 0..MaxWrites
    BY <1>2 DEF Rename, Builds
  <2>2. dir' \in [Files -> 0..MaxWrites] /\ moved' \subseteq Files
    BY <1>2, <2>1 DEF Rename
  <2> QED
    BY <1>2, <2>1, <2>2 DEF Rename, Builds
<1>3. CASE Call
  BY <1>3 DEF Call, files
<1>4. CASE ReadEvents
  <2>1. buf' \in Seq(Names) /\ queue' \in Seq(Names)
    BY <1>4 DEF ReadEvents
  <2> QED
    BY <1>4, <2>1 DEF ReadEvents, files
<1>5. CASE NoEvents \/ ReadFails
  BY <1>5 DEF NoEvents, ReadFails, files
<1>6. CASE Skip
  BY <1>6 DEF Skip, Advance, files, EventInv
<1>7. CASE Upload
  <2>1. queue' \in Seq(Names)
    BY <1>0, <1>7, QueuedType DEF Upload
  <2> QED
    BY <1>7, <2>1 DEF Upload, Advance, EventInv
<1>8. CASE UploadFails
  BY <1>8 DEF UploadFails, Advance, EventInv
<1>9. CASE UNCHANGED vars
  BY <1>9 DEF vars
<1> QED
  BY <1>1, <1>2, <1>3, <1>4, <1>5, <1>6, <1>7, <1>8, <1>9 DEF Next, UploadRepoChanges

LEMMA EventStep == TypeOK /\ EventInv /\ [Next]_vars => EventInv'
<1> SUFFICES ASSUME TypeOK, EventInv, [Next]_vars PROVE EventInv'
  OBVIOUS
<1>0. Files \subseteq Names /\ Hidden \in Names
  BY DEF Names
<1>1. ASSUME NEW f \in Files, Write(f) PROVE EventInv'
  <2>1. ~dropped' => In(queue', f)
    BY <1>0, <1>1, QueuedAdds DEF Write, TypeOK
  <2>2. \A g \in Files : In(queue, g) => In(queue', g)
    BY <1>1, QueuedKeeps DEF Write, TypeOK
  <2> QED
    <3>1. /\ pc' = "build" /\ buf' = <<>> /\ (~dropped' => ~dropped)
          /\ pc # "failed" /\ pc # "read" /\ pc # "event"
      BY <1>1 DEF Write, Builds, EventInv
    <3>2. \A g \in Files \ {f} : dir'[g] = dir[g] /\ bucket'[g] = bucket[g] /\ (g \in moved <=> g \in moved')
      BY <1>1 DEF Write, TypeOK
    <3>3. \A g \in Files : ~In(buf, g)
      BY <1>1 DEF Write, Builds, EventInv, In
    <3> QED
      BY <2>1, <2>2, <3>1, <3>2, <3>3 DEF EventInv
<1>2. ASSUME NEW f \in Files, NEW g \in Files, Rename(f, g) PROVE EventInv'
  <2>1. /\ pc' = "build" /\ UNCHANGED <<buf, queue, dropped, bucket>> /\ buf = <<>>
        /\ pc # "failed" /\ pc # "read" /\ pc # "event"
    BY <1>2 DEF Rename, Builds, EventInv
  <2>2. \A h \in Files \ moved' : (h = f /\ dir'[h] = 0) \/ (h \notin moved /\ dir'[h] = dir[h])
    <3>1. moved' = (moved \ {f}) \cup {g} /\ f # g
      BY <1>2 DEF Rename
    <3>2. dir' = [dir EXCEPT ![f] = 0, ![g] = writes + 1] /\ dir \in [Files -> 0..MaxWrites]
      BY <1>2 DEF Rename, TypeOK
    <3>3. dir'[f] = 0
      BY <3>1, <3>2
    <3>4. \A h \in Files \ {f, g} : dir'[h] = dir[h]
      BY <3>2
    <3> QED
      BY <3>1, <3>3, <3>4
  <2> QED
    BY <2>1, <2>2 DEF EventInv
<1>3. CASE Call
  BY <1>3 DEF Call, files, EventInv
<1>4. CASE ReadEvents
  <2>1. PICK n \in 1..Len(queue) : buf' = SubSeq(queue, 1, n) /\ queue' = SubSeq(queue, n + 1, Len(queue))
    <3> DEFINE n == IF Len(queue) < Batch THEN Len(queue) ELSE Batch
    <3>1. queue \in Seq(Names) /\ queue # <<>>
      BY <1>4 DEF ReadEvents, TypeOK
    <3>2. Len(queue) \in Nat /\ Len(queue) # 0
      BY <3>1
    <3>3. n \in 1..Len(queue)
      BY <3>2, BoundAssumption DEF BoundAssumption
    <3>4. buf' = SubSeq(queue, 1, n) /\ queue' = SubSeq(queue, n + 1, Len(queue))
      BY <1>4 DEF ReadEvents
    <3> QED
      BY <3>3, <3>4
  <2>2. \A g \in Files : In(queue, g) => In(buf', g) \/ In(queue', g)
    BY <2>1, Split DEF TypeOK
  <2>3. buf' # <<>>
    <3>1. queue \in Seq(Names)
      BY DEF TypeOK
    <3>2. Len(buf') = n
      BY <2>1, <3>1
    <3> QED
      BY <3>2
  <2>4. \A g \in Files : ~In(buf, g)
    BY <1>4 DEF ReadEvents, EventInv, In
  <2> QED
    BY <1>4, <2>2, <2>3, <2>4 DEF ReadEvents, files, EventInv
<1>5. CASE NoEvents \/ ReadFails
  BY <1>5 DEF NoEvents, ReadFails, files, EventInv, In
<1>6. ASSUME Advance, pc = "event"
      PROVE  /\ buf' # <<>> <=> pc' = "event"
             /\ pc' \in {"read", "event"}
             /\ \A g \in Files : In(buf, g) /\ g # Head(buf) => In(buf', g)
  <2>1. buf \in Seq(Names) /\ buf # <<>> /\ buf' = Tail(buf)
    BY <1>6 DEF Advance, EventInv, TypeOK
  <2>2. Len(buf') = Len(buf) - 1 /\ buf' \in Seq(Names) /\ Len(buf) \in Nat
    BY <2>1
  <2>3. buf' # <<>> <=> Len(buf) # 1
    BY <2>2
  <2>4. \A g \in Files : In(buf, g) /\ g # Head(buf) => In(buf', g)
    BY <2>1, Behead
  <2> QED
    BY <1>6, <2>3, <2>4 DEF Advance
<1>7. CASE Skip
  BY <1>6, <1>7 DEF Skip, files, EventInv
<1>8. CASE Upload
  <2>1. \A g \in Files : In(queue, g) => In(queue', g)
    BY <1>8, QueuedKeeps DEF Upload, TypeOK
  <2> QED
    BY <1>6, <1>8, <2>1 DEF Upload, EventInv, TypeOK
<1>9. CASE UploadFails
  BY <1>6, <1>9 DEF UploadFails, EventInv
<1>10. CASE UNCHANGED vars
  BY <1>10 DEF vars, EventInv
<1> QED
  BY <1>1, <1>2, <1>3, <1>4, <1>5, <1>7, <1>8, <1>9, <1>10 DEF Next, UploadRepoChanges

LEMMA EventInvariant == Spec => [](TypeOK /\ EventInv)
<1>1. Init => EventInv
  BY DEF Init, EventInv
<1>2. TypeOK /\ EventInv /\ [Next]_vars => TypeOK' /\ EventInv'
  BY TypeStep, EventStep
<1> QED
  BY <1>1, <1>2, InitTypeOK, PTL DEF Spec

(* Whatever builds write, however the kernel merges events and the buffer  *)
(* cuts them up, and although every upload adds an event of its own: when  *)
(* upload_repo_changes returns Ok, what was written in place is published. *)
THEOREM LocalWritesPublished == Spec => []WritesArePublished
<1>1. EventInv => WritesArePublished
  BY DEF EventInv, WritesArePublished, In
<1> QED
  BY <1>1, EventInvariant, PTL

(* Every variable keeps its type, for every number of files and events.    *)
THEOREM TypeCorrect == Spec => []TypeOK
  BY EventInvariant, PTL

-----------------------------------------------------------------------------
(* The loop that feeds itself ends *)

(* A buffer and the rest of the queue are the queue. *)
LEMMA CutAndJoin ==
  ASSUME NEW q \in Seq(Names), NEW n \in 0..Len(q)
  PROVE  SubSeq(q, 1, n) \o SubSeq(q, n + 1, Len(q)) = q
<1>1. Len(q) \in Nat /\ 1 \in 1..Len(q) + 1 /\ n \in 1 - 1..Len(q) /\ Len(q) \in n..Len(q)
  OBVIOUS
<1>2. SubSeq(q, 1, n) \o SubSeq(q, n + 1, Len(q)) = SubSeq(q, 1, Len(q))
  BY <1>1, ConcatAdjacentSubSeq
<1> QED
  BY <1>2, SubSeqFull

(* The events that are waiting, when the first is done and e was queued.   *)
LEMMA HandledEvents ==
  ASSUME NEW b \in Seq(Names), NEW q \in Seq(Names), b # <<>>
  PROVE  /\ Len(Tail(b) \o q) = Len(b \o q) - 1
         /\ \A i \in 1..Len(Tail(b) \o q) : (Tail(b) \o q)[i] = (b \o q)[i + 1]
  OBVIOUS

LEMMA QueuedBehind ==
  ASSUME NEW b \in Seq(Names), NEW q \in Seq(Names), NEW e \in Names, b # <<>>
  PROVE  \A i \in 1..Len(Tail(b) \o Append(q, e)) :
            \/ i + 1 \in 1..Len(b \o q) /\ (Tail(b) \o Append(q, e))[i] = (b \o q)[i + 1]
            \/ (Tail(b) \o Append(q, e))[i] = e
  OBVIOUS

(* An upload queues the event of its etag file, or loses it. *)
LEMMA HiddenQueued ==
  ASSUME NEW q \in Seq(Names)
  PROVE  Queued(q, Hidden) \in {q, Append(q, Hidden), Append(q, Overflow)}
  BY DEF Queued

(* Handling one event moves the last one of a file to the front, whatever  *)
(* is queued behind it.                                                    *)
LEMMA HandlingAdvances ==
  ASSUME TypeOK, buf # <<>>, Advance,
         queue' \in {queue, Append(queue, Hidden), Append(queue, Overflow)},
         NEW n \in Nat, FilesWithin(n)
  PROVE  \A i \in 1..Len(Pending') : Pending'[i] \in Files => i <= n - 1
<1>1. Hidden \in Names /\ Overflow \in Names /\ Hidden \notin Files /\ Overflow \notin Files
  BY NameAssumption DEF NameAssumption, Names
<1>2. /\ buf \in Seq(Names) /\ queue \in Seq(Names) /\ buf' = Tail(buf)
      /\ \A k \in 1..Len(buf \o queue) : (buf \o queue)[k] \in Files => k <= n
  BY DEF TypeOK, Advance, FilesWithin, Pending
<1> SUFFICES ASSUME NEW i \in 1..Len(buf' \o queue'), (buf' \o queue')[i] \in Files
             PROVE  i <= n - 1
  BY DEF Pending
<1>3. i + 1 \in 1..Len(buf \o queue) /\ (buf \o queue)[i + 1] = (buf' \o queue')[i]
  <2>1. CASE queue' = queue
    BY <1>2, <2>1, HandledEvents
  <2>2. ASSUME NEW e \in {Hidden, Overflow}, queue' = Append(queue, e)
        PROVE  i + 1 \in 1..Len(buf \o queue) /\ (buf \o queue)[i + 1] = (buf' \o queue')[i]
    <3>1. e \in Names /\ e \notin Files
      BY <1>1
    <3>2. i \in 1..Len(Tail(buf) \o Append(queue, e))
          /\ (buf' \o queue')[i] = (Tail(buf) \o Append(queue, e))[i]
      BY <1>2, <2>2
    <3>3. \/ /\ i + 1 \in 1..Len(buf \o queue)
             /\ (Tail(buf) \o Append(queue, e))[i] = (buf \o queue)[i + 1]
          \/ (Tail(buf) \o Append(queue, e))[i] = e
      BY <1>2, <3>1, <3>2, QueuedBehind
    <3> QED
      BY <3>1, <3>2, <3>3
  <2> QED
    BY <2>1, <2>2
<1>4. i + 1 <= n
  BY <1>2, <1>3
<1> QED
  BY <1>2, <1>4

LEMMA ShrinkStep == TypeOK /\ EventInv /\ [Next]_vars => [Shrinks]_vars
<1> SUFFICES ASSUME TypeOK, EventInv, Next PROVE Shrinks
  BY DEF Shrinks
<1>1. CASE ReadEvents
  <2>1. PICK n \in 0..Len(queue) : /\ buf' = SubSeq(queue, 1, n)
                                   /\ queue' = SubSeq(queue, n + 1, Len(queue))
    <3> DEFINE k == IF Len(queue) < Batch THEN Len(queue) ELSE Batch
    <3>1. k \in 0..Len(queue)
      BY BoundAssumption DEF BoundAssumption, TypeOK
    <3>2. buf' = SubSeq(queue, 1, k) /\ queue' = SubSeq(queue, k + 1, Len(queue))
      BY <1>1 DEF ReadEvents
    <3> HIDE DEF k
    <3> QED
      BY <3>1, <3>2
  <2>2. buf = <<>> /\ pc = "read"
    BY <1>1 DEF ReadEvents, EventInv
  <2>3. Pending' = Pending
    <3>1. queue \in Seq(Names)
      BY DEF TypeOK
    <3>2. buf' \o queue' = queue
      BY <2>1, <3>1, CutAndJoin
    <3>3. buf \o queue = queue
      BY <2>2, <3>1
    <3> QED
      BY <3>2, <3>3 DEF Pending
  <2> QED
    BY <2>2, <2>3 DEF Shrinks
<1>2. CASE NoEvents \/ ReadFails
  BY <1>2 DEF NoEvents, ReadFails, Shrinks, Pending
<1>3. CASE Skip \/ Upload \/ UploadFails
  <2>1. pc = "event" /\ buf # <<>> /\ Advance
    BY <1>3 DEF Skip, Upload, UploadFails, EventInv
  <2>2. queue' \in {queue, Append(queue, Hidden), Append(queue, Overflow)}
    BY <1>3, HiddenQueued DEF Skip, Upload, UploadFails, TypeOK
  <2>3. ASSUME NEW n \in Nat, FilesWithin(n)
        PROVE  \A i \in 1..Len(Pending') : Pending'[i] \in Files => i <= n - 1
    BY <2>1, <2>2, <2>3, HandlingAdvances
  <2>4. \A n \in 1..Len(Pending) : FilesWithin(n) => FilesWithin(n - 1)'
    BY <2>3 DEF FilesWithin
  <2>5. ASSUME FilesWithin(0) PROVE FilesWithin(0)' /\ Len(Pending') < Len(Pending)
    <3>1. FilesWithin(0)'
      BY <2>3, <2>5 DEF FilesWithin
    <3>2. Head(buf) \notin Files
      <4>1. Pending[1] = Head(buf) /\ 1 \in 1..Len(Pending)
        BY <2>1 DEF Pending, TypeOK
      <4> QED
        BY <2>5, <4>1 DEF FilesWithin
    <3>3. queue' = queue
      BY <1>3, <3>2 DEF Skip, Upload, UploadFails
    <3>4. Len(Pending') = Len(Pending) - 1 /\ Len(Pending) \in Nat
      BY <2>1, <3>3, HandledEvents DEF Pending, TypeOK, Advance
    <3> QED
      BY <3>1, <3>4
  <2> QED
    BY <2>1, <2>4, <2>5 DEF Shrinks
<1>4. CASE Call \/ (\E f \in Files : Write(f)) \/ (\E f, g \in Files : Rename(f, g))
  BY <1>4 DEF Call, Write, Rename, Builds, Shrinks
<1> QED
  BY <1>1, <1>2, <1>3, <1>4 DEF Next, UploadRepoChanges

(* For every buffer, queue and number of files, every event that           *)
(* upload_repo_changes handles (server/local.rs 56-89) brings it nearer to *)
(* the end of its events, although its uploads add new ones: this is the   *)
(* argument why the loop ends.                                             *)
THEOREM UploadLoopShrinks == Spec => LoopShrinks
<1>1. TypeOK /\ EventInv /\ [Next]_vars => [Shrinks]_vars
  BY ShrinkStep
<1> QED
  BY <1>1, EventInvariant, PTL DEF Spec, LoopShrinks
=============================================================================
