---------------------------- MODULE MCConfigUpdate ----------------------------
(***************************************************************************)
(* ConfigUpdate with two releases of one minor version: the beta, and then *)
(* the stable one.  The minor version before has patches already.          *)
(***************************************************************************)
EXTENDS ConfigUpdate

MCChan == <<2, 1>>
MCMinor == <<2, 2>>
=============================================================================
