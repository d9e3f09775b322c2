------------------------ MODULE MCModelPublication ------------------------
(* Small instances of ModelPublication. *)
EXTENDS ModelPublication

CONSTANTS r1, r2, j1, j2
MCReplicas == {r1, r2}
MCJobs == {j1, j2}
=============================================================================
