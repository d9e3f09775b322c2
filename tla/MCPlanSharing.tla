---------------------------- MODULE MCPlanSharing ----------------------------
(***************************************************************************)
(* Small instances of PlanSharing for TLC.                                 *)
(***************************************************************************)
EXTENDS PlanSharing, TLC

CONSTANTS u1, u2, u3, h1, h2, h3, i1, i2, s1, s2, w1, w2

Symmetry ==
    Permutations(Users) \cup Permutations(Histories) \cup Permutations(Invitations)
        \cup Permutations(Sessions) \cup Permutations(Workers)
=============================================================================
