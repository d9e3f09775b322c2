---------------------------- MODULE MCModelUsage ----------------------------
(* Small instances of ModelUsage. *)
EXTENDS ModelUsage

CONSTANTS r1, r2, m1, m2
MCReplicas == {r1, r2}
MCModels == {m1, m2}
MCOneModel == {m1}
=============================================================================
