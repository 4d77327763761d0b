--------------------------- MODULE WorkflowContract ---------------------------
(***************************************************************************)
(* What the support workflow promises about each ticket: a reply is        *)
(* drafted, and a draft that a human must see is put into the supervisor   *)
(* queue, or the failure to do so is logged; it is never dropped.  A       *)
(* process may die, and with it what it was working on.                    *)
(***************************************************************************)
CONSTANT Tickets

VARIABLES
    stage,   \* where the promise about each ticket stands
    queue,   \* tickets in the supervisor queue
    warned   \* tickets that could not be put there, perhaps only by the look of it

vars == <<stage, queue, warned>>

Init ==
    /\ stage = [t \in Tickets |-> "waiting"]
    /\ queue = {} /\ warned = {}

Moves(t, from, to) == stage[t] = from /\ stage' = [stage EXCEPT ![t] = to]

Accept(t) == Moves(t, "waiting", "drafting") /\ UNCHANGED <<queue, warned>>

\* The draft needs a review, or it does not.
Draft(t) ==
    /\ \E verdict \in {"review", "clear"} : Moves(t, "drafting", verdict)
    /\ UNCHANGED <<queue, warned>>

HandOver(t) ==
    /\ Moves(t, "review", "done")
    /\ \/ queue' = queue \cup {t} /\ UNCHANGED warned
       \/ warned' = warned \cup {t} /\ queue' \in {queue, queue \cup {t}}

Finish(t) == Moves(t, "clear", "done") /\ UNCHANGED <<queue, warned>>

\* An exception, or the end of a process and all it was working on.
Fail(failed) ==
    /\ \A t \in failed : stage[t] \in {"drafting", "review", "clear"}
    /\ stage' = [t \in Tickets |-> IF t \in failed THEN "failed" ELSE stage[t]]
    /\ UNCHANGED <<queue, warned>>

Progress(t) == Draft(t) \/ HandOver(t) \/ Finish(t)

Next ==
    \/ \E t \in Tickets : Accept(t) \/ Progress(t)
    \/ \E failed \in SUBSET Tickets : Fail(failed)

SafeSpec == Init /\ [][Next]_vars

Spec == SafeSpec /\ \A t \in Tickets : WF_vars(Progress(t))
=============================================================================
