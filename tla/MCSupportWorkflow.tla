-------------------------- MODULE MCSupportWorkflow --------------------------
(* Instances of SupportWorkflow for TLC. *)
EXTENDS WorkflowRefinement

CONSTANTS plain, refund

\* A text without a keyword, which still names a large amount, and a refund.
MCContent == [x \in Texts |->
    IF x = plain THEN [keywords |-> {}, amounts |-> {50001}]
                 ELSE [keywords |-> {"refund"}, amounts |-> {50000, 50001}]]
=============================================================================
