-------------------------- MODULE WorkflowRefinement --------------------------
(* The support workflow as an implementation of WorkflowContract. *)
EXTENDS SupportWorkflow

\* From Generate on it is settled whether a human must see the draft, although the
\* policy finds out only later; a ticket whose item is committed is done with, even
\* if its process dies right after.
StageOf(t) ==
    IF pc[t] = "idle" THEN "waiting"
    ELSE IF t \in queue \cup warned \/ pc[t] = "completed" THEN "done"
    ELSE IF pc[t] \in {"raised", "lost"} THEN "failed"
    ELSE IF pc[t] \in Undecided THEN "drafting"
    ELSE IF NeedsHuman(t) THEN "review" ELSE "clear"

Contract == INSTANCE WorkflowContract WITH stage <- [t \in Tickets |-> StageOf(t)]

\* Every workflow keeps the promise: it gets on with its ticket until it ends, and
\* no draft that a human must see gets past the policy and the queue unnoticed.
ImplementsWorkflowContract == Contract!Spec

\* What a step may do, without the promise to get on.
KeepsWorkflowContract == Contract!SafeSpec
=============================================================================
