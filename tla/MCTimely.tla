------------------------------ MODULE MCTimely ------------------------------
(* Instances of QueueShopTimely for TLC. *)
EXTENDS QueueShopTimely

MCForms == { << "walkIn", None >> }
=============================================================================
