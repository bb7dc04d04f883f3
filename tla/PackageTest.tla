----------------------------- MODULE PackageTest -----------------------------
(***************************************************************************)
(* build::rust::test_package of src/build/rust.rs: an image is built, one  *)
(* task per test is spawned, each runs a container of its own to its end,  *)
(* and the tasks are awaited in the order they were spawned while all of   *)
(* them go on concurrently.  A task is docker_run_test, most of it         *)
(* docker::run_container_to_completion.                                    *)
(***************************************************************************)
EXTENDS Naturals, FiniteSets

CONSTANTS N,            \* the number of tests (14 packages, all of them, a program)
          Faults,       \* the failures that may happen, a subset of FaultKinds
          MaxFaults     \* bound on the failures of a behaviour

(* error: a docker call returns Err.  early: the log stream ends although  *)
(* the container runs on.  nocode: docker does not know the exit code.     *)
(* panic: the task panics.                                                 *)
FaultKinds == {"error", "early", "nocode", "panic"}

ASSUME CountAssumption == N \in Nat \ {0}
ASSUME FaultAssumption == Faults \subseteq FaultKinds /\ MaxFaults \in Nat

Tests == 1..N

VARIABLES
    sound,      \* the tests the package under test can pass
    spawned,    \* how many tasks were spawned
    task,       \* where docker_run_test stands
    container,  \* the containers of the docker daemon
    awaited,    \* how many tasks were awaited: tests_total
    failed,     \* tests_failed
    returned,   \* what test_package returned
    unknown,    \* tests whose exit code docker did not know
    broken,     \* tests that a docker call failed under
    faults

vars == <<sound, spawned, task, container, awaited, failed, returned, unknown, broken, faults>>
main == <<spawned, awaited, failed, returned>>

Over == {"ok", "err", "panicked"}

TypeOK ==
    /\ sound \subseteq Tests
    /\ spawned \in 0..N /\ awaited \in 0..N /\ failed \in 0..N
    /\ task \in [Tests -> {"none", "create", "start", "logs", "inspect"} \cup Over]
    /\ container \in [Tests -> {"none", "created", "running", "exited"}]
    /\ returned \in {"no", "ok", "err"}
    /\ unknown \subseteq Tests /\ broken \subseteq Tests
    /\ faults \in 0..MaxFaults

Init ==
    /\ sound \in SUBSET Tests
    /\ spawned = 0 /\ awaited = 0 /\ failed = 0
    /\ task = [t \in Tests |-> "none"]
    /\ container = [t \in Tests |-> "none"]
    /\ returned = "no" /\ unknown = {} /\ broken = {} /\ faults = 0

Fault(k) == k \in Faults /\ faults < MaxFaults /\ faults' = faults + 1

-----------------------------------------------------------------------------
(* test_package *)

(* Building the image fails before the first task is spawned. *)
ImageFails ==
    /\ spawned = 0 /\ returned = "no" /\ Fault("error")
    /\ returned' = "err"
    /\ UNCHANGED <<sound, spawned, task, container, awaited, failed, unknown, broken>>

(* Seeded faults: one task less is spawned than is awaited, one task more. *)
SpawnOneLess ==
    /\ spawned < N - 1 /\ returned = "no"
    /\ spawned' = spawned + 1
    /\ task' = [task EXCEPT ![spawned + 1] = "create"]
    /\ UNCHANGED <<sound, container, awaited, failed, returned, unknown, broken, faults>>

SpawnOneMore ==
    /\ spawned <= N /\ returned = "no"
    /\ spawned' = spawned + 1
    /\ task' = [task EXCEPT ![spawned + 1] = "create"]
    /\ UNCHANGED <<sound, container, awaited, failed, returned, unknown, broken, faults>>

Spawn ==
    /\ spawned < N /\ returned = "no"
    /\ spawned' = spawned + 1
    /\ task' = [task EXCEPT ![spawned + 1] = "create"]
    /\ UNCHANGED <<sound, container, awaited, failed, returned, unknown, broken, faults>>

(* Seeded fault: tests_failed counts every test. *)
AwaitCountsAll ==
    /\ spawned = N /\ awaited < N /\ returned = "no"
    /\ task[awaited + 1] \in {"ok", "err"}
    /\ awaited' = awaited + 1 /\ failed' = failed + 1
    /\ UNCHANGED <<sound, spawned, task, container, returned, unknown, broken, faults>>

(* test.await? in the order of the spawns. *)
Await ==
    /\ spawned = N /\ awaited < N /\ returned = "no"
    /\ task[awaited + 1] \in {"ok", "err"}
    /\ awaited' = awaited + 1
    /\ failed' = IF task[awaited + 1] = "err" THEN failed + 1 ELSE failed
    /\ UNCHANGED <<sound, spawned, task, container, returned, unknown, broken, faults>>

(* Seeded fault: a task that panicked is passed over. *)
JoinErrorIgnored ==
    /\ spawned = N /\ awaited < N /\ returned = "no"
    /\ task[awaited + 1] = "panicked"
    /\ awaited' = awaited + 1
    /\ UNCHANGED <<sound, spawned, task, container, failed, returned, unknown, broken, faults>>

(* The `?` on a JoinError: the tasks behind it are left to themselves. *)
JoinError ==
    /\ spawned = N /\ awaited < N /\ returned = "no"
    /\ task[awaited + 1] = "panicked"
    /\ awaited' = awaited + 1 /\ returned' = "err"
    /\ UNCHANGED <<sound, spawned, task, container, failed, unknown, broken, faults>>

(* Seeded fault: the result of the last awaited test is what is returned. *)
ReturnLast ==
    /\ awaited = N /\ returned = "no"
    /\ returned' = IF task[N] = "ok" THEN "ok" ELSE "err"
    /\ UNCHANGED <<sound, spawned, task, container, awaited, failed, unknown, broken, faults>>

Return ==
    /\ awaited = N /\ returned = "no"
    /\ returned' = IF failed = 0 THEN "ok" ELSE "err"
    /\ UNCHANGED <<sound, spawned, task, container, awaited, failed, unknown, broken, faults>>

-----------------------------------------------------------------------------
(* docker_run_test and run_container_to_completion *)

CreateContainer(t) ==
    /\ task[t] = "create"
    /\ task' = [task EXCEPT ![t] = "start"]
    /\ container' = [container EXCEPT ![t] = "created"]
    /\ UNCHANGED <<sound, main, unknown, broken, faults>>

StartContainer(t) ==
    /\ task[t] = "start"
    /\ task' = [task EXCEPT ![t] = "logs"]
    /\ container' = [container EXCEPT ![t] = "running"]
    /\ UNCHANGED <<sound, main, unknown, broken, faults>>

(* The command in the container ends by itself. *)
Exit(t) ==
    /\ container[t] = "running"
    /\ container' = [container EXCEPT ![t] = "exited"]
    /\ UNCHANGED <<sound, main, task, unknown, broken, faults>>

LogsEnd(t) ==
    /\ task[t] = "logs"
    /\ \/ container[t] = "exited" /\ UNCHANGED faults
       \/ container[t] = "running" /\ Fault("early")
    /\ task' = [task EXCEPT ![t] = "inspect"]
    /\ UNCHANGED <<sound, main, container, unknown, broken>>

(* Seeded fault: the end of the log is taken for the end of the container. *)
InspectOnce(t) ==
    /\ task[t] = "inspect"
    /\ task' = [task EXCEPT ![t] =
                  IF container[t] = "exited" /\ t \notin sound THEN "err" ELSE "ok"]
    /\ UNCHANGED <<sound, main, container, unknown, broken, faults>>

(* get_exit_code asks again every two seconds while the container runs or  *)
(* docker has no state to tell, and takes a missing exit code for 0.       *)
Inspect(t) ==
    /\ task[t] = "inspect" /\ container[t] = "exited"
    /\ \/ /\ task' = [task EXCEPT ![t] = IF t \in sound THEN "ok" ELSE "err"]
          /\ UNCHANGED <<unknown, faults>>
       \/ /\ task' = [task EXCEPT ![t] = "ok"]
          /\ unknown' = unknown \cup {t} /\ Fault("nocode")
    /\ UNCHANGED <<sound, main, container, broken>>

(* Any of the docker calls fails; what runs is not stopped. *)
DockerError(t) ==
    /\ task[t] \in {"create", "start", "logs", "inspect"} /\ Fault("error")
    /\ task' = [task EXCEPT ![t] = "err"]
    /\ broken' = broken \cup {t}
    /\ UNCHANGED <<sound, main, container, unknown>>

Panic(t) ==
    /\ task[t] \in {"create", "start", "logs", "inspect"} /\ Fault("panic")
    /\ task' = [task EXCEPT ![t] = "panicked"]
    /\ broken' = broken \cup {t}
    /\ UNCHANGED <<sound, main, container, unknown>>

-----------------------------------------------------------------------------
Test(t) == \/ CreateContainer(t) \/ StartContainer(t) \/ Exit(t) \/ LogsEnd(t)
           \/ Inspect(t) \/ DockerError(t) \/ Panic(t)

Main == ImageFails \/ Spawn \/ Await \/ JoinError \/ Return

Next == Main \/ \E t \in Tests : Test(t)

Spec == Init /\ [][Next]_vars

(* main and the spawned tasks run on the threaded runtime, each until its  *)
(* next await; a command in a container ends by itself; docker answers.    *)
FairSpec == Spec /\ WF_vars(Main) /\ \A t \in Tests : WF_vars(Test(t))

-----------------------------------------------------------------------------
(* Properties *)

(* A package is accepted only if all of its tests ran to their end and     *)
(* passed, but for those docker has no exit code of: no result gets lost   *)
(* between a container, its task and the loop that awaits the tasks.       *)
AcceptedMeansPassed ==
    returned = "ok" => \A t \in Tests : container[t] = "exited" /\ t \in sound \cup unknown

(* A package that could pass is rejected only when docker failed.          *)
RejectedForAReason ==
    returned = "err" => broken # {} \/ spawned = 0 \/ \E t \in Tests : t \notin sound \cup unknown

(* Unless a task panicked, no test container is still running on the       *)
(* server when main goes on, but those docker failed to watch.             *)
NothingRunsOn ==
    returned # "no" /\ (\A t \in Tests : task[t] # "panicked")
        => \A t \in Tests : container[t] = "running" => t \in broken

(* Whatever fails, test_package returns.                                   *)
Returns == <>(returned # "no")

(* The concurrent tests implement TestVerdict.                             *)
Verdict == INSTANCE TestVerdict WITH
    result <- [t \in Tests |-> CASE task[t] = "ok" -> "passed"
                                 [] task[t] \in {"err", "panicked"} -> "failed"
                                 [] OTHER -> "pending"],
    verdict <- IF returned = "no" THEN "none" ELSE returned
ImplementsVerdict == Verdict!Spec
=============================================================================
