---------------------------- MODULE MCBuildOrder ----------------------------
(***************************************************************************)
(* BuildOrder from 1.48 on, with stable at 1.49 and two or three releases; *)
(* the job of .drone.yml ignores beta.                                     *)
(***************************************************************************)
EXTENDS BuildOrder

MCBootSys == {48}
MCIgnoreBeta == {beta}
MCIgnoreNothing == {}
=============================================================================
