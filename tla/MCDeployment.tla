---------------------------- MODULE MCDeployment ----------------------------
(* Instances of Deployment for TLC.                                         *)
EXTENDS Deployment

CONSTANTS r1, p1
=============================================================================
