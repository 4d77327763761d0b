----------------------------- MODULE SupportOps -----------------------------
(***************************************************************************)
(* POST /tickets from end to end: TicketCreation and SupportWorkflow put   *)
(* together.  _execute hands the committed ticket to                       *)
(* asyncio.to_thread(get_graph().invoke, ...) and waits for it, so what    *)
(* TicketCreation has as one step, the workflow returns or raises, is here *)
(* the run of SupportWorkflow for that ticket.  The workflow's thread and  *)
(* the request's handler live in one process and die with it.              *)
(***************************************************************************)
EXTENDS TicketCreation

CONSTANTS Texts, Content, NoText, Categories, Unset, Unavailable

VARIABLES wpc, text, category, agent, context, draft, unresolved, rules,
          classCache, knowCache, checkpoint, queue, warned, apiKeySet, verdicts

\* A ticket's workflow is named after its row, and so after its request.
Workflow == INSTANCE SupportWorkflow WITH Tickets <- Requests, pc <- wpc

ASSUME WorkflowValues ==
    /\ Categories \subseteq {"billing", "technical", "account", "general"}
    /\ "general" \in Categories
    /\ Content \in [Texts -> Workflow!PolicyTexts]
    /\ Unset \notin Categories /\ Unavailable \notin Categories /\ NoText \notin Texts

workflowVars ==
    <<wpc, text, category, agent, context, draft, unresolved, rules,
      classCache, knowCache, checkpoint, queue, warned, apiKeySet, verdicts>>
systemVars == <<vars, workflowVars>>

SystemInit == Init /\ Workflow!Init

\* invoke: the ticket is committed, and _execute waits for the thread.
StartWorkflow(r) ==
    /\ pc[r] = "workflow"
    /\ Workflow!Start(r)
    /\ UNCHANGED vars

WorkflowNode(r) == Workflow!Node(r) /\ UNCHANGED vars

\* Mutant of WorkflowReturns: the answer does not wait for the workflow.
WorkflowOverlooked(r) == RunWorkflow(r) /\ UNCHANGED workflowVars

\* The thread has ended with a final state, which becomes the response.
WorkflowReturns(r) ==
    /\ wpc[r] = "completed"
    /\ RunWorkflow(r)
    /\ UNCHANGED workflowVars

\* Mutant of ExecutionFails: the workflow raises after its persist node as well.
ExecutionFailsAnytime(r) ==
    /\ pc[r] = "workflow" => wpc[r] \in {"raised", "completed"}
    /\ FailsAfterCommit(r)
    /\ UNCHANGED workflowVars

\* The thread has ended with an exception, or COMMIT took effect and failed.
ExecutionFails(r) ==
    /\ pc[r] = "workflow" => wpc[r] = "raised"
    /\ FailsAfterCommit(r)
    /\ UNCHANGED workflowVars

\* The steps of the handler that the workflow has no part in.
HandlerStep(r) ==
    /\ \/ Receive(r) \/ Claim(r) \/ ClaimFails(r) \/ GetExisting(r) \/ GetFails(r)
       \/ CheckCustomer(r) \/ InsertTicket(r) \/ FailsBeforeCommit(r)
       \/ Complete(r) \/ CompleteFails(r) \/ Release(r) \/ ReleaseFails(r)
    /\ UNCHANGED workflowVars

Serve(r) ==
    \/ HandlerStep(r) \/ StartWorkflow(r) \/ WorkflowNode(r)
    \/ WorkflowReturns(r) \/ ExecutionFails(r)

\* The process dies with its handlers and with the threads they wait for.
ProcessDies ==
    /\ Crash
    /\ \/ Workflow!Crash
       \/ (\A r \in Requests : wpc[r] \notin Workflow!Running) /\ UNCHANGED workflowVars

StoresAlone ==
    \/ /\ (\E r \in Requests : ApplyLate(r)) \/ (\E k \in Keys : LoseKey(k)) \/ RemoveCustomer
       /\ UNCHANGED workflowVars
    \/ Workflow!Expire /\ UNCHANGED vars

SystemNext == (\E r \in Requests : Serve(r)) \/ ProcessDies \/ StoresAlone

SystemSpec == SystemInit /\ [][SystemNext]_systemVars

\* The event loop resumes every handler that has been received, and a worker
\* thread runs on: each of their calls returns or times out.
FairSystem ==
    SystemSpec /\ \A r \in Requests : WF_systemVars(pc[r] # "idle" /\ Serve(r))

-----------------------------------------------------------------------------
(* Properties *)

\* The workflow of t is over, and if a human must see its draft it is in the
\* supervisor queue, or the log says that it could not be put there.
Triaged(t) ==
    /\ wpc[t] = "completed"
    /\ Workflow!NeedsHuman(t) => t \in queue \cup warned

\* No client and no stored response is told of a ticket that has not been triaged,
\* however faults, retries and replays interleave with the workflows; and a ticket
\* whose request ended otherwise than by a crash or a 500 has been triaged.
AnsweredMeansTriaged ==
    /\ \A k \in Keys : store[k] \in Requests => Triaged(store[k])
    /\ \A r \in Requests :
          /\ Succeeded(r) => Triaged(body[r])
          /\ (r \in tickets /\ pc[r] = "done" /\ code[r] # 500) => Triaged(r)

\* A supervisor sees the request behind a key once, and once more at most for
\* every time the key was lost: executions that fail after their commit, which do
\* cost a second ticket, never cost a second review item.
ReviewsAccounted ==
    \A k \in Keys : Cardinality({t \in queue : reqKey[t] = k}) <= 1 + keyLosses

\* Who is told 500 may retry, and the retry is a ticket of its own: nothing of the
\* failed one must be on a human's desk.  Its workflow was never started or raised
\* before there was a draft, it is in no queue, and it never will be.
FailuresLeaveNoReview ==
    \A r \in Requests : (pc[r] = "done" /\ code[r] = 500) =>
        /\ r \notin queue \cup warned
        /\ wpc[r] \in {"idle", "raised"} /\ draft[r] = Unset

-----------------------------------------------------------------------------
(* The inductive invariant *)

\* What the places of a handler and of its workflow say of each other.
LinkInv ==
    /\ \A k \in Keys : store[k] \in Requests => wpc[store[k]] = "completed"
    /\ \A r \in Requests :
          /\ wpc[r] # "idle" => r \in tickets
          /\ wpc[r] \in Workflow!Running => pc[r] = "workflow"
          /\ wpc[r] = "lost" => pc[r] = "lost"
          /\ pc[r] = "complete" => wpc[r] = "completed"
          /\ late[r] = "complete" => wpc[r] = "completed"
          /\ (pc[r] = "release" \/ late[r] = "release") => wpc[r] \in {"idle", "raised"}
          /\ (pc[r] = "done" /\ r \in tickets /\ code[r] # 500) => wpc[r] = "completed"
          /\ (pc[r] = "done" /\ code[r] = 500) => wpc[r] \in {"idle", "raised"}
          /\ Succeeded(r) => wpc[body[r]] = "completed"
          /\ (pc[r] = "release" /\ r \in tickets) => code[r] = 500

\* The account behind ReviewsAccounted: a key's review items and the requests that
\* may still add one or free the key, and whether the key is free, are paid for by
\* the one item a key may have and its losses.
Reviewing(k) ==
    {r \in Requests : /\ reqKey[r] = k
                      /\ r \in queue \/ pc[r] \in Executing \/ late[r] = "release"}

ReviewAccountInv ==
    \A k \in Keys : Cardinality(Reviewing(k)) + Free(k) <= 1 + keyLosses

SystemInv == LinkInv /\ ReviewAccountInv
=============================================================================
