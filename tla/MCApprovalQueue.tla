--------------------------- MODULE MCApprovalQueue ---------------------------
(* Instances of ApprovalQueue and its refinement for TLC. *)
EXTENDS QueueRefinement, TLC

QueueSymmetry == Permutations(Calls) \cup Permutations(Users)
=============================================================================
