--------------------------- MODULE MCNotifications ---------------------------
(* Instances of Notifications for TLC. *)
EXTENDS Notifications, TLC

CONSTANT SharedId

(* Two processes that both keep the default NOTIFICATION_WORKER_ID.        *)
SameId == [w \in Workers |-> SharedId]
==============================================================================
