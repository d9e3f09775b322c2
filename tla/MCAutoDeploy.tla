---------------------------- MODULE MCAutoDeploy ----------------------------
(* Small instances of AutoDeploy: the bounds are numbers of the .cfg. *)
EXTENDS AutoDeploy
=============================================================================
