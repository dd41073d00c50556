---------------------------- MODULE MCQueueShop ----------------------------
(* Instances of QueueShop for TLC. *)
EXTENDS QueueShop, TLC

\* Ids, customers and endpoints are interchangeable: ULIDs are never ordered,
\* and every tie the code breaks is broken by display number.
Symmetry == Permutations(TicketIds) \cup Permutations(Handles) \cup Permutations(Endpoints)

MCIssueForms == { << "walkIn", None >>, << "reservation", 2 >> }
MCTargets == {4}

\* A reservation without an instant, which the issue endpoint accepts.
MCUndatedForms == { << "reservation", None >> }
=============================================================================
