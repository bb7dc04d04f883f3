------------------------------ MODULE MCRunner ------------------------------
(***************************************************************************)
(* Runner on three packages, one of each kind: llvm first, the rust        *)
(* channel next, the crate last (Packagelike's order).                     *)
(***************************************************************************)
EXTENDS Runner

CONSTANTS llvm11, stable, readme

MCPkgs == {llvm11, stable, readme}
MCKind == [p \in MCPkgs |->
             CASE p = llvm11 -> "llvm" [] p = stable -> "rust" [] p = readme -> "crate"]
MCRank == [p \in MCPkgs |-> CASE p = llvm11 -> 0 [] p = stable -> 1 [] p = readme -> 2]

(* .drone.yml: -c -u -d -m -p -r cache/repo --ignore ... *)
CI == [mode |-> "upcloud", upload |-> TRUE, push |-> TRUE, skipRust |-> FALSE,
       skipDocker |-> FALSE, update |-> TRUE, channels |-> {}, ignore |-> {}]

(* The scheduled job, and the job that ignores a package. *)
CIArgs == {CI, [CI EXCEPT !.ignore = {readme}]}
DroneArgs == {CI}
ImageArgs == {[CI EXCEPT !.update = FALSE]}

(* An operator on a local daemon: publishing everything, one package by    *)
(* name, rust packages or images left out, no daemon at all.               *)
Local == [CI EXCEPT !.mode = "local", !.update = FALSE]
LocalArgs == {Local,
              [Local EXCEPT !.channels = {stable}, !.skipRust = TRUE],
              [Local EXCEPT !.channels = {stable, readme}, !.ignore = {readme}],
              [Local EXCEPT !.skipDocker = TRUE, !.push = FALSE],
              [Local EXCEPT !.mode = "none"]}
LocalOnly == {Local}
=============================================================================
