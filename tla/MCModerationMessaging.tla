------------------------ MODULE MCModerationMessaging ------------------------
(***************************************************************************)
(* Small instances of ModerationMessaging for TLC.                         *)
(***************************************************************************)
EXTENDS ModerationMessaging

CONSTANTS e1, e2, i1, i2, w1, w2
=============================================================================
