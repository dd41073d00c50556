------------------------------- MODULE MCApi -------------------------------
(* Instances of QueueApi and OpenApi for TLC. *)
EXTENDS OpenApi, TLC

Symmetry == Permutations(TicketIds) \cup Permutations(Handles)

MCForms == {<< "walkIn", None >>} \cup {<< "reservation", slotInstantOf(s) >> : s \in Slots}
=============================================================================
