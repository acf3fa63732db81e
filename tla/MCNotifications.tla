--------------------------- MODULE MCNotifications --------------------------
(* Instances of Notifications for TLC: connections of device "1", which may  *)
(* reconnect, so that two of them are interchangeable.                       *)
EXTENDS Notifications, TLC

MCDeviceOf == [c \in Conn |-> "1"]
MCOrigin == [m \in Message |-> IF m = 2 THEN "2" ELSE "1"]

Symmetry == Permutations(Conn)
=============================================================================
