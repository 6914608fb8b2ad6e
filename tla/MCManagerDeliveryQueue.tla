----------------------- MODULE MCManagerDeliveryQueue -----------------------
(* Instances of ManagerDeliveryQueue for TLC. *)
EXTENDS ManagerDeliveryQueue, TLC
=============================================================================
