------------------------------ MODULE MCBilling ------------------------------
(***************************************************************************)
(* Small instances of Billing for TLC.                                     *)
(***************************************************************************)
EXTENDS Billing, TLC

CONSTANTS p1, p2, o1, k1, t1, t2, h1, h2, r1, r2, x1, x2

Symmetry ==
    Permutations(Payments) \cup Permutations(Transfers) \cup Permutations(Webhooks)
        \cup Permutations(Requests) \cup Permutations(Expirers)
=============================================================================
