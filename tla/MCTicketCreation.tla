-------------------------- MODULE MCTicketCreation --------------------------
(* Instances of TicketCreation for TLC. *)
EXTENDS TicketRefinement, TLC

RequestSymmetry == Permutations(Requests)
=============================================================================
