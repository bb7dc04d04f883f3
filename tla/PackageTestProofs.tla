-------------------------- MODULE PackageTestProofs --------------------------
(***************************************************************************)
(* What holds of PackageTest for any number of tests and any failures.     *)
(***************************************************************************)
EXTENDS PackageTest, TLAPS

(* Strengthenings of the invariants *)

(* The loop has seen the tasks it has awaited and remembers their errors;  *)
(* a task that succeeded leaves an ended container behind.                 *)
TaskInv ==
    /\ awaited > 0 => spawned = N
    /\ \A t \in Tests : task[t] # "none" => t <= spawned
    /\ \A t \in Tests : task[t] = "ok" => container[t] = "exited" /\ t \in sound \cup unknown
    /\ failed = 0 /\ returned # "err" => \A t \in 1..awaited : task[t] = "ok"
    /\ returned = "ok" => awaited = N /\ failed = 0

(* Every error has a reason, and a test whose task is over has not left    *)
(* its container running unless docker failed under it.                    *)
ReasonInv ==
    /\ \A t \in Tests : /\ task[t] \in {"none", "create"} => container[t] = "none"
                        /\ task[t] = "panicked" => t \in broken
                        /\ task[t] = "err" => t \in broken \/ container[t] = "exited"
                        /\ task[t] = "err" => t \in broken \/ t \notin sound
                        /\ t \in unknown => task[t] = "ok"
    /\ \A t \in 1..awaited : task[t] \in Over
    /\ failed > 0 => \E t \in Tests : task[t] = "err"
    /\ returned # "no" => \/ spawned = 0
                          \/ awaited = N
                          \/ \E t \in Tests : task[t] = "panicked"
    /\ returned = "err" => \/ spawned = 0
                           \/ failed > 0
                           \/ \E t \in Tests : task[t] = "panicked"

-----------------------------------------------------------------------------
LEMMA InitTypeOK == Init => TypeOK
  BY CountAssumption, FaultAssumption
  DEF Init, TypeOK, Over, CountAssumption, FaultAssumption

LEMMA FaultType == ASSUME TypeOK, NEW k, Fault(k) PROVE faults' \in 0..MaxFaults
  BY FaultAssumption DEF TypeOK, Fault, FaultAssumption

(* No more tests can have failed than were awaited. *)
CountInv == failed <= awaited

LEMMA TypeStep == TypeOK /\ CountInv /\ [Next]_vars => TypeOK' /\ CountInv'
<1> SUFFICES ASSUME TypeOK, CountInv, [Next]_vars PROVE TypeOK' /\ CountInv'
  OBVIOUS
<1> USE CountAssumption DEF CountAssumption, TypeOK, CountInv, Over, Tests
<1>1. CASE ImageFails
  BY <1>1, FaultType DEF ImageFails
<1>2. CASE Spawn
  BY <1>2 DEF Spawn
<1>3. CASE Await
  BY <1>3 DEF Await
<1>4. CASE JoinError
  BY <1>4 DEF JoinError
<1>5. CASE Return
  BY <1>5 DEF Return
<1>6. ASSUME NEW t \in Tests, CreateContainer(t) \/ StartContainer(t) \/ Exit(t)
      PROVE TypeOK' /\ CountInv'
  BY <1>6 DEF CreateContainer, StartContainer, Exit, main
<1>7. ASSUME NEW t \in Tests, LogsEnd(t) PROVE TypeOK' /\ CountInv'
  BY <1>7, FaultType DEF LogsEnd, main
<1>8. ASSUME NEW t \in Tests, Inspect(t) PROVE TypeOK' /\ CountInv'
  BY <1>8, FaultType DEF Inspect, main
<1>9. ASSUME NEW t \in Tests, DockerError(t) \/ Panic(t) PROVE TypeOK' /\ CountInv'
  BY <1>9, FaultType DEF DockerError, Panic, main
<1>10. CASE UNCHANGED vars
  BY <1>10 DEF vars
<1> QED
  BY <1>1, <1>2, <1>3, <1>4, <1>5, <1>6, <1>7, <1>8, <1>9, <1>10 DEF Next, Main, Test

LEMMA TypeInvariant == Spec => [](TypeOK /\ CountInv)
<1>1. Init => CountInv
  BY DEF Init, CountInv
<1> QED
  BY <1>1, InitTypeOK, TypeStep, PTL DEF Spec

(* Every variable keeps its type; no task is spawned or awaited beyond N.  *)
THEOREM TypeCorrect == Spec => []TypeOK
  BY TypeInvariant, PTL

-----------------------------------------------------------------------------
(* The verdict *)

LEMMA TaskStep == TypeOK /\ CountInv /\ TaskInv /\ [Next]_vars => TaskInv'
<1> SUFFICES ASSUME TypeOK, CountInv, TaskInv, [Next]_vars PROVE TaskInv'
  OBVIOUS
<1> USE CountAssumption DEF CountAssumption, TypeOK, TaskInv, CountInv, Tests
<1>1. CASE ImageFails
  BY <1>1 DEF ImageFails
<1>2. CASE Spawn
  BY <1>2 DEF Spawn
<1>3. CASE Await
  BY <1>3 DEF Await
<1>4. CASE JoinError
  BY <1>4 DEF JoinError
<1>5. CASE Return
  BY <1>5 DEF Return
<1>6. ASSUME NEW t \in Tests, Test(t) PROVE TaskInv'
  <2>1. /\ UNCHANGED <<sound, main>>
        /\ \A u \in Tests \ {t} : task'[u] = task[u] /\ container'[u] = container[u]
        /\ unknown \subseteq unknown'
    BY <1>6
    DEF Test, CreateContainer, StartContainer, Exit, LogsEnd, Inspect, DockerError, Panic
  <2>2. task[t] = "ok" => task'[t] = "ok" /\ container'[t] = container[t]
    BY <1>6
    DEF Test, CreateContainer, StartContainer, Exit, LogsEnd, Inspect, DockerError, Panic
  <2>3. task'[t] = "ok" /\ task[t] # "ok" => container'[t] = "exited" /\ t \in sound \cup unknown'
    BY <1>6
    DEF Test, CreateContainer, StartContainer, Exit, LogsEnd, Inspect, DockerError, Panic
  <2>4. task[t] = "none" => task'[t] = "none"
    BY <1>6
    DEF Test, CreateContainer, StartContainer, Exit, LogsEnd, Inspect, DockerError, Panic
  <2> QED
    BY <2>1, <2>2, <2>3, <2>4 DEF main
<1>7. CASE UNCHANGED vars
  BY <1>7 DEF vars
<1> QED
  BY <1>1, <1>2, <1>3, <1>4, <1>5, <1>6, <1>7 DEF Next, Main

LEMMA TaskInvariant == Spec => [](TypeOK /\ CountInv /\ TaskInv)
<1>1. Init => TaskInv
  BY CountAssumption DEF CountAssumption, Init, TaskInv, Tests
<1> QED
  BY <1>1, TaskStep, TypeInvariant, PTL DEF Spec

(* However many tests run concurrently and however their tasks and docker  *)
(* fail, test_package returns Ok only when each of them ran to its end and *)
(* passed (or docker did not know its exit code).                          *)
THEOREM AcceptedHasPassed == Spec => []AcceptedMeansPassed
<1>1. TypeOK /\ TaskInv => AcceptedMeansPassed
  BY CountAssumption DEF CountAssumption, TypeOK, TaskInv, AcceptedMeansPassed, Tests
<1> QED
  BY <1>1, TaskInvariant, PTL

-----------------------------------------------------------------------------
(* Reasons *)

LEMMA ReasonStep ==
  TypeOK /\ CountInv /\ TaskInv /\ ReasonInv /\ [Next]_vars => ReasonInv'
<1> SUFFICES ASSUME TypeOK, CountInv, TaskInv, ReasonInv, [Next]_vars PROVE ReasonInv'
  OBVIOUS
<1> USE CountAssumption DEF CountAssumption, TypeOK, ReasonInv, Tests, Over
<1>1. CASE ImageFails
  BY <1>1 DEF ImageFails
<1>2. CASE Spawn
  <2>1. /\ UNCHANGED <<sound, container, awaited, failed, returned, unknown, broken>>
        /\ spawned + 1 \in Tests /\ task[spawned + 1] = "none" /\ awaited = 0 /\ returned = "no"
    BY <1>2 DEF Spawn, TaskInv
  <2>2. /\ task'[spawned + 1] = "create"
        /\ \A t \in Tests \ {spawned + 1} : task'[t] = task[t]
    BY <1>2, <2>1 DEF Spawn
  <2> QED
    BY <2>1, <2>2
<1>3. CASE Await
  <2>1. /\ UNCHANGED <<sound, spawned, task, container, returned, unknown, broken>>
        /\ awaited' = awaited + 1 /\ awaited + 1 \in Tests /\ returned = "no"
        /\ task[awaited + 1] \in Over
        /\ failed' = IF task[awaited + 1] = "err" THEN failed + 1 ELSE failed
    BY <1>3 DEF Await
  <2>2. failed' > 0 => \E t \in Tests : task[t] = "err"
    BY <2>1
  <2>3. \A t \in 1..awaited' : t \in 1..awaited \/ t = awaited + 1
    BY <2>1
  <2> QED
    BY <2>1, <2>2, <2>3
<1>4. CASE JoinError
  <2>1. /\ UNCHANGED <<sound, spawned, task, container, failed, unknown, broken>>
        /\ awaited' = awaited + 1 /\ awaited + 1 \in Tests
        /\ task[awaited + 1] = "panicked"
    BY <1>4 DEF JoinError
  <2>2. \A t \in 1..awaited' : t \in 1..awaited \/ t = awaited + 1
    BY <2>1
  <2> QED
    BY <2>1, <2>2
<1>5. CASE Return
  BY <1>5 DEF Return
<1>6. ASSUME NEW t \in Tests, Test(t) PROVE ReasonInv'
  <2>1. /\ UNCHANGED <<sound, main>>
        /\ \A u \in Tests \ {t} : task'[u] = task[u] /\ container'[u] = container[u]
        /\ broken \subseteq broken'
        /\ \A u \in Tests \ {t} : u \in unknown' <=> u \in unknown
    BY <1>6
    DEF Test, CreateContainer, StartContainer, Exit, LogsEnd, Inspect, DockerError, Panic
  <2>2. task[t] \in Over => task'[t] = task[t]
    BY <1>6
    DEF Test, CreateContainer, StartContainer, Exit, LogsEnd, Inspect, DockerError, Panic
  <2>3. /\ task'[t] \in {"none", "create"} => container'[t] = "none"
        /\ task'[t] = "panicked" => t \in broken'
    BY <1>6
    DEF Test, CreateContainer, StartContainer, Exit, LogsEnd, Inspect, DockerError, Panic
  <2>4. /\ task'[t] = "err" => t \in broken' \/ container'[t] = "exited"
        /\ task'[t] = "err" => t \in broken' \/ t \notin sound
    BY <1>6
    DEF Test, CreateContainer, StartContainer, Exit, LogsEnd, Inspect, DockerError, Panic
  <2>5. t \in unknown' => task'[t] = "ok"
    BY <1>6
    DEF Test, CreateContainer, StartContainer, Exit, LogsEnd, Inspect, DockerError, Panic
  <2>6. /\ \A u \in Tests : /\ task'[u] \in {"none", "create"} => container'[u] = "none"
                            /\ task'[u] = "panicked" => u \in broken'
                            /\ task'[u] = "err" => u \in broken' \/ container'[u] = "exited"
                            /\ task'[u] = "err" => u \in broken' \/ u \notin sound'
                            /\ u \in unknown' => task'[u] = "ok"
    BY <2>1, <2>3, <2>4, <2>5
  <2>7. \A u \in Tests : task[u] \in Over => task'[u] = task[u]
    BY <2>1, <2>2
  <2>8. awaited' = awaited /\ failed' = failed /\ returned' = returned /\ spawned' = spawned
    BY <2>1 DEF main
  <2> QED
    BY <2>6, <2>7, <2>8
<1>7. CASE UNCHANGED vars
  BY <1>7 DEF vars
<1> QED
  BY <1>1, <1>2, <1>3, <1>4, <1>5, <1>6, <1>7 DEF Next, Main

LEMMA ReasonInvariant == Spec => [](TypeOK /\ TaskInv /\ ReasonInv)
<1>1. Init => ReasonInv
  BY CountAssumption DEF CountAssumption, Init, ReasonInv, Tests, Over
<1> QED
  BY <1>1, ReasonStep, TaskInvariant, PTL DEF Spec

(* test_package rejects a package only when docker failed or one of the    *)
(* tests did (test_package, build/rust.rs 186; docker_run_test, 122).      *)
THEOREM RejectionHasReason == Spec => []RejectedForAReason
<1>1. TypeOK /\ TaskInv /\ ReasonInv => RejectedForAReason
  BY CountAssumption
  DEF CountAssumption, TypeOK, TaskInv, ReasonInv, RejectedForAReason, Tests
<1> QED
  BY <1>1, ReasonInvariant, PTL

(* When main goes on and no task has panicked, no test container is still  *)
(* running, but those docker failed to watch.                              *)
THEOREM NothingLeftRunning == Spec => []NothingRunsOn
<1>1. TypeOK /\ TaskInv /\ ReasonInv => NothingRunsOn
  <2> SUFFICES ASSUME TypeOK, TaskInv, ReasonInv, returned # "no",
                      \A t \in Tests : task[t] # "panicked",
                      NEW t \in Tests, container[t] = "running"
               PROVE  t \in broken
    BY DEF NothingRunsOn
  <2>1. task[t] # "none"
    BY DEF ReasonInv
  <2>2. spawned # 0
    BY <2>1, CountAssumption DEF CountAssumption, TypeOK, TaskInv, Tests
  <2>3. awaited = N
    BY <2>2 DEF ReasonInv
  <2>4. task[t] \in {"ok", "err"}
    BY <2>3 DEF ReasonInv, Tests, Over
  <2> QED
    BY <2>4 DEF TaskInv, ReasonInv
<1> QED
  BY <1>1, ReasonInvariant, PTL

-----------------------------------------------------------------------------
(* Refinement *)

LEMMA VerdictInit == Init => Verdict!Init
  BY DEF Init, Verdict!Init, Tests

LEMMA VerdictStep ==
  TypeOK /\ CountInv /\ TaskInv /\ [Next]_vars => [Verdict!Next]_(Verdict!vars)
<1> DEFINE res == [t \in Tests |-> CASE task[t] = "ok" -> "passed"
                                     [] task[t] \in {"err", "panicked"} -> "failed"
                                     [] OTHER -> "pending"]
           ver == IF returned = "no" THEN "none" ELSE returned
<1> SUFFICES ASSUME TypeOK, CountInv, TaskInv, [Next]_vars
             PROVE  Verdict!Next \/ UNCHANGED <<res, ver>>
  BY DEF Verdict!vars
<1>1. CASE ImageFails
  BY <1>1 DEF ImageFails, Verdict!Next, Verdict!Reject
<1>2. CASE Spawn
  <2>1. task[spawned + 1] = "none"
    BY <1>2, CountAssumption DEF CountAssumption, Spawn, TypeOK, TaskInv, Tests
  <2>2. res' = res
    BY <1>2, <2>1 DEF Spawn, TypeOK
  <2> QED
    BY <1>2, <2>2 DEF Spawn
<1>3. CASE Await
  BY <1>3 DEF Await
<1>4. CASE JoinError
  BY <1>4 DEF JoinError, Verdict!Next, Verdict!Reject
<1>5. CASE Return
  <2>1. CASE failed = 0
    <3>1. \A t \in Tests : task[t] = "ok"
      BY <1>5, <2>1 DEF Return, TaskInv, Tests
    <3>2. Verdict!Accept
      BY <1>5, <2>1, <3>1 DEF Return, Verdict!Accept
    <3> QED
      BY <3>2 DEF Verdict!Next
  <2>2. CASE failed # 0
    BY <1>5, <2>2 DEF Return, Verdict!Next, Verdict!Reject
  <2> QED
    BY <2>1, <2>2
<1>6. ASSUME NEW t \in Tests, CreateContainer(t) \/ StartContainer(t) \/ Exit(t) \/ LogsEnd(t)
      PROVE UNCHANGED <<res, ver>>
  <2>1. \A u \in Tests : res'[u] = res[u]
    BY <1>6 DEF CreateContainer, StartContainer, Exit, LogsEnd, TypeOK
  <2>2. returned' = returned
    BY <1>6 DEF CreateContainer, StartContainer, Exit, LogsEnd, main
  <2> QED
    BY <2>1, <2>2
<1>7. ASSUME NEW t \in Tests, Inspect(t) \/ DockerError(t) \/ Panic(t)
      PROVE Verdict!Next
  <2>1. /\ res[t] = "pending" /\ res'[t] \in {"passed", "failed"}
        /\ \A u \in Tests \ {t} : res'[u] = res[u]
    BY <1>7 DEF Inspect, DockerError, Panic, TypeOK
  <2>2. returned' = returned
    BY <1>7 DEF Inspect, DockerError, Panic, main
  <2>3. res' = [res EXCEPT ![t] = res'[t]]
    BY <2>1
  <2>4. Verdict!Resolve(t)
    BY <2>1, <2>2, <2>3 DEF Verdict!Resolve
  <2> QED
    BY <2>4 DEF Verdict!Next
<1>8. CASE UNCHANGED vars
  BY <1>8 DEF vars
<1> QED
  BY <1>1, <1>2, <1>3, <1>4, <1>5, <1>6, <1>7, <1>8 DEF Next, Main, Test

(* Spawning, awaiting and watching containers concurrently amounts to what *)
(* main relies on: every test comes to one result, and only all of them    *)
(* passing lets the package through.                                       *)
THEOREM TestsImplementVerdict == Spec => ImplementsVerdict
<1> QED
  BY VerdictInit, VerdictStep, TaskInvariant, PTL DEF Spec, ImplementsVerdict, Verdict!Spec
=============================================================================
