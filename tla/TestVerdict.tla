----------------------------- MODULE TestVerdict -----------------------------
(***************************************************************************)
(* What main asks of build::rust::test_package: every test of a rust       *)
(* package comes to a result of its own, in any order, and the package may *)
(* be published only when all of them have passed.                         *)
(***************************************************************************)
CONSTANT Tests

VARIABLES result, verdict
vars == <<result, verdict>>

TypeOK == /\ result \in [Tests -> {"pending", "passed", "failed"}]
          /\ verdict \in {"none", "ok", "err"}

Init == result = [t \in Tests |-> "pending"] /\ verdict = "none"

Resolve(t) ==
    /\ result[t] = "pending"
    /\ \E r \in {"passed", "failed"} : result' = [result EXCEPT ![t] = r]
    /\ UNCHANGED verdict

Accept == /\ verdict = "none" /\ \A t \in Tests : result[t] = "passed"
          /\ verdict' = "ok" /\ UNCHANGED result

(* For a failed test, or because the tests could not be run. *)
Reject == verdict = "none" /\ verdict' = "err" /\ UNCHANGED result

Next == (\E t \in Tests : Resolve(t)) \/ Accept \/ Reject

Spec == Init /\ [][Next]_vars
=============================================================================
