--------------------------- MODULE MCNotificationHub ---------------------------
(* Instances of NotificationHub for TLC: no symmetry, which its liveness check *)
(* does not allow.                                                             *)
EXTENDS NotificationHub
=============================================================================
