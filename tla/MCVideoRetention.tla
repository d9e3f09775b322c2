--------------------------- MODULE MCVideoRetention ---------------------------
(***************************************************************************)
(* Small instances of VideoRetention for TLC.                              *)
(***************************************************************************)
EXTENDS VideoRetention, TLC

CONSTANTS s1, s2, w1, w2
=============================================================================
