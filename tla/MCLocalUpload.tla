---------------------------- MODULE MCLocalUpload ----------------------------
(***************************************************************************)
(* LocalUpload on two package files and an index.                          *)
(***************************************************************************)
EXTENDS LocalUpload

CONSTANTS llvm, rust, index

MCFiles == {llvm, rust, index}
=============================================================================
