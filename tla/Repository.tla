------------------------------ MODULE Repository ------------------------------
(***************************************************************************)
(* What the users of the published repository and of the docker images may *)
(* rely on, however many runs fail behind it: a package appears whole and  *)
(* tested, stays until a newer version is asked for, and an image is       *)
(* pushed as the current one only when its package can be installed.       *)
(***************************************************************************)
CONSTANT Pkgs

VARIABLES apk,      \* each package at its current version
          image     \* its docker images
vars == <<apk, image>>

TypeOK == /\ apk \in [Pkgs -> {"absent", "good"}]
          /\ image \in [Pkgs -> {"old", "current"}]

Init == apk = [p \in Pkgs |-> "absent"] /\ image = [p \in Pkgs |-> "old"]

(* config.toml asks for newer versions of the packages B. *)
NewVersions(B) ==
    /\ apk' = [p \in Pkgs |-> IF p \in B THEN "absent" ELSE apk[p]]
    /\ image' = [p \in Pkgs |-> IF p \in B THEN "old" ELSE image[p]]

Publish(S) == /\ apk' = [p \in Pkgs |-> IF p \in S THEN "good" ELSE apk[p]]
              /\ UNCHANGED image

PushImages(p) == /\ apk[p] = "good" /\ image' = [image EXCEPT ![p] = "current"]
                 /\ UNCHANGED apk

Next == \/ \E B \in SUBSET Pkgs : NewVersions(B) \/ Publish(B)
        \/ \E p \in Pkgs : PushImages(p)

Spec == Init /\ [][Next]_vars
=============================================================================
