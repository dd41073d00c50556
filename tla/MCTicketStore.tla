--------------------------- MODULE MCTicketStore ---------------------------
(* Instances of TicketStore for TLC. *)
EXTENDS TicketStore, TLC

Symmetry == Permutations(TicketIds) \cup Permutations(Handles) \cup Permutations(Writers)

MCReservations == { << "reservation", 1 >> }
=============================================================================
