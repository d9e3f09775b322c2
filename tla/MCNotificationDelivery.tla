----------------------- MODULE MCNotificationDelivery -----------------------
(***************************************************************************)
(* Small instances of NotificationDelivery for TLC.                        *)
(***************************************************************************)
EXTENDS NotificationDelivery, TLC

CONSTANTS d1, d2, w1, w2, token1, token2

Symmetry == Permutations(Deliveries) \cup Permutations(Workers)
=============================================================================
