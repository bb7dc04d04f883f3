---------------------------- MODULE MCUpcloudRepo ----------------------------
(***************************************************************************)
(* UpcloudRepo on two packages: stable, with or without a subpackage, and  *)
(* readme, which comes later.                                              *)
(***************************************************************************)
EXTENDS UpcloudRepo, TLC

CONSTANTS stable, readme, rust, cargo, crate

MCPkgs == {stable, readme}
MCOld == {stable}
MCIndex == "APKINDEX"

(* One file for each package, or a subpackage besides. *)
TwoFiles == {rust, crate}
ThreeFiles == {rust, cargo, crate}
MCOwner == [f \in Files |-> IF f = crate THEN readme ELSE stable]
MCMain == [p \in MCPkgs |-> IF p = stable THEN rust ELSE crate]
MCRank == [f \in Objects |->
             CASE f = MCIndex -> 0 [] f = cargo -> 1 [] f = crate -> 2 [] f = rust -> 3]

Symmetry == Permutations(Jobs)
=============================================================================
