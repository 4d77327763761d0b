-------------------------- MODULE TicketRefinement --------------------------
(***************************************************************************)
(* create_ticket implements AtMostOnce, however many Redis commands fail   *)
(* or come late and however often the process crashes.  The effect of a    *)
(* key is its Ticket row; the lapses are the claims that expire or that    *)
(* Redis loses, and the executions that fail after their commit.           *)
(***************************************************************************)
EXTENDS TicketCreation

StatusOf(r) ==
    IF Succeeded(r) THEN "ok"
    ELSE IF pc[r] \in {"done", "lost"} THEN "failed" ELSE "pending"

Promise == INSTANCE AtMostOnce WITH
    key    <- reqKey,
    effect <- [k \in Keys |-> TicketsOf(k)],
    status <- [r \in Requests |-> StatusOf(r)],
    result <- body,
    lapses <- keyLosses + lateFailures

\* A key has at most one effect more than there were lapses, and every
\* successful answer reports an effect of its key: the specification of
\* AtMostOnce under the mapping above.
ImplementsAtMostOnce == Promise!Spec
=============================================================================
