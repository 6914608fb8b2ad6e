-------------------------- MODULE MCRouterDelivery --------------------------
(* Instances of RouterDelivery for TLC. *)
EXTENDS RouterDelivery
=============================================================================
