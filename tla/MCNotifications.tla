--------------------------- MODULE MCNotifications ---------------------------
(* An instance of Notifications for TLC. *)
EXTENDS Notifications
==============================================================================
