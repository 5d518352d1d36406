-------------------------- MODULE MCNotificationPipeline --------------------------
(* One notification with two recipients, on two nodes; a second notification,  *)
(* with one recipient, can be added to Notifications in the configuration.     *)
EXTENDS NotificationPipeline, TLC

CONSTANTS m1, m2, x1, x2, x3, n1, n2

MCAudience == [m \in Notifications |-> IF m = m1 THEN {x1, x2} ELSE {x3}]
===================================================================================
