-------------------------- MODULE MCNotifications --------------------------
(* TLC's instances of Notifications: the handlers of the cfg are the       *)
(* WhatsApp handler and one that may never return.                         *)
EXTENDS Notifications, TLC
=============================================================================
