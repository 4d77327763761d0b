-------------------------- MODULE SupportOps_proofs --------------------------
(***************************************************************************)
(* Theorems about the two components at work together, for any number of   *)
(* requests, keys, texts and categories and any bounds on the faults.  A   *)
(* behaviour of the system is one of TicketCreation and one of             *)
(* SupportWorkflow, so what is proved of these holds in it; what a         *)
(* handler and its workflow say of each other is proved here.              *)
(***************************************************************************)
EXTENDS SupportOps, TicketCreation_proofs

\* The theorems about the workflow, for the workflows of this system.
Proved == INSTANCE SupportWorkflow_proofs WITH Tickets <- Requests, pc <- wpc

-----------------------------------------------------------------------------
(* The system as a behaviour of each of its parts *)

\* What happens to the workflows leaves the handlers' variables alone.
THEOREM ImplementsTicketCreation == SystemSpec => Spec
<1>1. SystemInit => Init
  BY DEF SystemInit
<1>2. [SystemNext]_systemVars => [Next]_vars
  <2> SUFFICES ASSUME SystemNext PROVE Next \/ UNCHANGED vars
    BY DEF systemVars
  <2>1. ASSUME NEW r \in Requests, Serve(r) PROVE Next \/ UNCHANGED vars
    BY <2>1 DEF Serve, HandlerStep, StartWorkflow, WorkflowNode, WorkflowReturns,
       ExecutionFails, Next, Handle
  <2>2. CASE ProcessDies
    BY <2>2 DEF ProcessDies, Next, Environment
  <2>3. CASE StoresAlone
    BY <2>3 DEF StoresAlone, Next, Environment
  <2> QED
    BY <2>1, <2>2, <2>3 DEF SystemNext
<1> QED
  BY <1>1, <1>2, PTL DEF SystemSpec, Spec

\* What happens to the handlers leaves the workflows' variables alone.
LEMMA WorkflowSteps == [SystemNext]_systemVars => [Workflow!Next]_workflowVars
<1> SUFFICES ASSUME SystemNext PROVE Workflow!Next \/ UNCHANGED workflowVars
  BY DEF systemVars
<1>1. ASSUME NEW r \in Requests, Serve(r) PROVE Workflow!Next \/ UNCHANGED workflowVars
  BY <1>1 DEF Serve, HandlerStep, StartWorkflow, WorkflowNode, WorkflowReturns,
     ExecutionFails, Workflow!Next
<1>2. CASE ProcessDies
  BY <1>2 DEF ProcessDies, Workflow!Next
<1>3. CASE StoresAlone
  BY <1>3 DEF StoresAlone, Workflow!Next
<1> QED
  BY <1>1, <1>2, <1>3 DEF SystemNext

\* So every behaviour of the system is one of SupportWorkflow, with a request's ticket
\* for each of its tickets (get_graph().invoke inside _execute).
THEOREM ImplementsSupportWorkflow == SystemSpec => Workflow!Spec
<1>1. SystemInit => Workflow!Init
  BY DEF SystemInit
<1>2. [SystemNext]_systemVars => [Workflow!Next]_(Workflow!vars)
  BY WorkflowSteps
     DEF workflowVars, Workflow!vars, Workflow!stateVars, Workflow!cacheVars
<1> QED
  BY <1>1, <1>2, PTL DEF SystemSpec, Workflow!Spec

-----------------------------------------------------------------------------
(***************************************************************************)
(* Proved!F and Workflow!F stand for the same formula F of SupportWorkflow *)
(* with the same substitution: the definitions agree one by one.           *)
(***************************************************************************)

LEMMA SameRules ==
    /\ Proved!PolicyTexts = Workflow!PolicyTexts
    /\ \A x, n, u : Proved!MatchedRules(x, n, u) = Workflow!MatchedRules(x, n, u)
  BY DEF Proved!PolicyTexts, Workflow!PolicyTexts, Proved!MatchedRules,
     Workflow!MatchedRules, Proved!MatchedKeywordRules, Workflow!MatchedKeywordRules,
     Proved!HasAmountOverThreshold, Workflow!HasAmountOverThreshold,
     Proved!EscalationKeywords, Workflow!EscalationKeywords, Proved!RefundKeyword,
     Workflow!RefundKeyword, Proved!RefundThreshold, Workflow!RefundThreshold,
     Proved!LowConfidence, Workflow!LowConfidence

LEMMA SameInit == Proved!Init <=> Workflow!Init
  BY DEF Proved!Init, Workflow!Init

LEMMA SameNode == \A r \in Requests : Proved!Node(r) <=> Workflow!Node(r)
<1> SUFFICES ASSUME NEW r \in Requests PROVE Proved!Node(r) <=> Workflow!Node(r)
  OBVIOUS
<1> USE DEF Proved!Goto, Workflow!Goto, Proved!stateVars, Workflow!stateVars,
        Proved!cacheVars, Workflow!cacheVars
<1>1. Proved!ReadClassCache(r) <=> Workflow!ReadClassCache(r)
  BY DEF Proved!ReadClassCache, Workflow!ReadClassCache
<1>2. Proved!BuildClientRaises(r) <=> Workflow!BuildClientRaises(r)
  BY DEF Proved!BuildClientRaises, Workflow!BuildClientRaises
<1>3. Proved!Classify(r) <=> Workflow!Classify(r)
  BY DEF Proved!Classify, Workflow!Classify
<1>4. Proved!ClassifyFails(r) <=> Workflow!ClassifyFails(r)
  BY DEF Proved!ClassifyFails, Workflow!ClassifyFails
<1>5. Proved!WriteClassCache(r) <=> Workflow!WriteClassCache(r)
  BY DEF Proved!WriteClassCache, Workflow!WriteClassCache
<1>6. Proved!SaveCheckpoint(r) <=> Workflow!SaveCheckpoint(r)
  BY DEF Proved!SaveCheckpoint, Workflow!SaveCheckpoint, Proved!Saving, Workflow!Saving,
     Proved!Following, Workflow!Following
<1>7. Proved!SelectAgent(r) <=> Workflow!SelectAgent(r)
  BY DEF Proved!SelectAgent, Workflow!SelectAgent, Proved!AgentByCategory,
     Workflow!AgentByCategory
<1>8. Proved!ReadKnowCache(r) <=> Workflow!ReadKnowCache(r)
  BY DEF Proved!ReadKnowCache, Workflow!ReadKnowCache, Proved!CategoryOfAgent,
     Workflow!CategoryOfAgent
<1>9. Proved!Search(r) <=> Workflow!Search(r)
  BY DEF Proved!Search, Workflow!Search, Proved!CategoryOfAgent, Workflow!CategoryOfAgent
<1>10. Proved!WriteKnowCache(r) <=> Workflow!WriteKnowCache(r)
  BY DEF Proved!WriteKnowCache, Workflow!WriteKnowCache, Proved!CategoryOfAgent,
     Workflow!CategoryOfAgent
<1>11. Proved!Generate(r) <=> Workflow!Generate(r)
  BY DEF Proved!Generate, Workflow!Generate
<1>12. Proved!EvaluatePolicy(r) <=> Workflow!EvaluatePolicy(r)
  BY SameRules DEF Proved!EvaluatePolicy, Workflow!EvaluatePolicy,
     Proved!PlaceholderConfidence, Workflow!PlaceholderConfidence
<1>13. Proved!Persist(r) <=> Workflow!Persist(r)
  BY DEF Proved!Persist, Workflow!Persist
<1>14. Proved!Enqueue(r) <=> Workflow!Enqueue(r)
  BY DEF Proved!Enqueue, Workflow!Enqueue
<1>15. Proved!AuditDraft(r) <=> Workflow!AuditDraft(r)
  BY DEF Proved!AuditDraft, Workflow!AuditDraft
<1>16. Proved!BuildAgentRaises(r) <=> Workflow!BuildAgentRaises(r)
  BY DEF Proved!BuildAgentRaises, Workflow!BuildAgentRaises
<1> QED
  BY <1>1, <1>2, <1>3, <1>4, <1>5, <1>6, <1>7, <1>8, <1>9,
     <1>10, <1>11, <1>12, <1>13, <1>14, <1>15, <1>16
     DEF Proved!Node, Workflow!Node

LEMMA SameNext == [Workflow!Next]_workflowVars => [Proved!Next]_(Proved!vars)
<1> USE DEF Proved!Goto, Workflow!Goto, Proved!stateVars, Workflow!stateVars,
        Proved!cacheVars, Workflow!cacheVars
<1>1. \A r \in Requests : Proved!Start(r) <=> Workflow!Start(r)
  BY DEF Proved!Start, Workflow!Start
<1>2. Proved!Expire <=> Workflow!Expire
  BY DEF Proved!Expire, Workflow!Expire
<1>3. Proved!Crash <=> Workflow!Crash
  BY DEF Proved!Crash, Workflow!Crash, Proved!Running, Workflow!Running, Proved!Saving,
     Workflow!Saving
<1>4. UNCHANGED workflowVars => UNCHANGED Proved!vars
  BY DEF workflowVars, Proved!vars
<1> QED
  BY <1>1, <1>2, <1>3, <1>4, SameNode DEF Proved!Next, Workflow!Next

LEMMA SameInvariant == Proved!IInv => Workflow!IInv
<1> USE DEF Proved!Running, Workflow!Running, Proved!Ended, Workflow!Ended, Proved!Saving,
        Workflow!Saving, Proved!Agents, Workflow!Agents, Proved!AgentByCategory,
        Workflow!AgentByCategory, Proved!Undecided, Workflow!Undecided, Proved!Drafted,
        Workflow!Drafted, Proved!NeedsHuman, Workflow!NeedsHuman
<1>1. Proved!TypeOK => Workflow!TypeOK
  BY DEF Proved!TypeOK, Workflow!TypeOK, Proved!EscalationKeywords,
     Workflow!EscalationKeywords, Proved!RefundKeyword, Workflow!RefundKeyword
<1>2. Proved!ControlInv => Workflow!ControlInv
  BY DEF Proved!ControlInv, Workflow!ControlInv
<1>3. Proved!OutcomeInv => Workflow!OutcomeInv
  BY DEF Proved!OutcomeInv, Workflow!OutcomeInv
<1>4. Proved!VerdictInv => Workflow!VerdictInv
  BY DEF Proved!VerdictInv, Workflow!VerdictInv, Proved!CacheHoldsVerdicts,
     Workflow!CacheHoldsVerdicts
<1>5. Proved!ContextIsGenuine => Workflow!ContextIsGenuine
  BY DEF Proved!ContextIsGenuine, Workflow!ContextIsGenuine
<1> QED
  BY <1>1, <1>2, <1>3, <1>4, <1>5 DEF Proved!IInv, Workflow!IInv

LEMMA SameSpec == Workflow!Spec => Proved!Spec
<1>1. [Workflow!Next]_(Workflow!vars) => [Proved!Next]_(Proved!vars)
  BY SameNext
     DEF workflowVars, Workflow!vars, Workflow!stateVars, Workflow!cacheVars
<1> QED
  BY <1>1, SameInit, PTL DEF Workflow!Spec, Proved!Spec

\* The invariant of SupportWorkflow holds of the workflows of the system.
THEOREM WorkflowInvariance == SystemSpec => []Workflow!IInv
<1>1. Proved!Spec => []Proved!IInv
  BY Proved!Invariance, WorkflowValues, SameRules
<1> QED
  BY <1>1, SameSpec, SameInvariant, ImplementsSupportWorkflow, PTL

\* From end to end, create_ticket with the workflow it waits for keeps the promise of
\* AtMostOnce: a workflow that raises is one of its lapses, one that returns is none.
THEOREM EndToEndAtMostOnce == SystemSpec => ImplementsAtMostOnce
  BY ImplementsTicketCreation, Refinement, PTL

\* From end to end, the workflows keep the promise of WorkflowContract about each ticket,
\* also where retries, replays and crashes of the server cut in.
THEOREM EndToEndContract == SystemSpec => Proved!KeepsWorkflowContract
<1>1. Proved!Spec => Proved!KeepsWorkflowContract
  BY Proved!Refinement, WorkflowValues, SameRules
<1> QED
  BY <1>1, SameSpec, ImplementsSupportWorkflow, PTL

-----------------------------------------------------------------------------
(* A handler and its workflow *)

\* Where a workflow stands while it runs, and where not.
LEMMA Places ==
    /\ Workflow!Running = {"save_classification", "save_selection", "save_execution",
          "save_policy", "classify", "model", "remember", "select", "retrieve", "search",
          "keep", "generate", "evaluate", "persist", "enqueue", "audit"}
    /\ \A l \in DOMAIN Workflow!Saving :
          l \in Workflow!Running /\ Workflow!Following[Workflow!Saving[l]] \in Workflow!Running
<1>1. DOMAIN Workflow!Saving =
          {"save_classification", "save_selection", "save_execution", "save_policy"}
  BY DEF Workflow!Saving
<1>2. Workflow!Running = {"save_classification", "save_selection", "save_execution",
          "save_policy", "classify", "model", "remember", "select", "retrieve", "search",
          "keep", "generate", "evaluate", "persist", "enqueue", "audit"}
  BY <1>1 DEF Workflow!Running
<1>3. \A l \in DOMAIN Workflow!Saving :
          Workflow!Following[Workflow!Saving[l]] \in {"select", "retrieve", "evaluate", "persist"}
  BY <1>1 DEF Workflow!Saving, Workflow!Following
<1> QED
  BY <1>1, <1>2, <1>3

\* What one node does to its workflow's place and to the queue.
LEMMA NodeEffect ==
    ASSUME NEW r \in Requests, Workflow!Node(r)
    PROVE  /\ wpc[r] \in Workflow!Running
           /\ \E l \in Workflow!Running \cup {"completed", "raised"} :
                 wpc' = [wpc EXCEPT ![r] = l]
           /\ queue' \subseteq queue \cup {r}
<1> USE Places DEF Workflow!Goto, Workflow!stateVars
<1>1. CASE \/ Workflow!ReadClassCache(r) \/ Workflow!BuildClientRaises(r)
           \/ Workflow!Classify(r) \/ Workflow!ClassifyFails(r)
           \/ Workflow!WriteClassCache(r) \/ Workflow!SelectAgent(r)
  BY <1>1 DEF Workflow!ReadClassCache, Workflow!BuildClientRaises, Workflow!Classify,
     Workflow!ClassifyFails, Workflow!WriteClassCache, Workflow!SelectAgent
<1>2. CASE Workflow!SaveCheckpoint(r)
  BY <1>2 DEF Workflow!SaveCheckpoint
<1>3. CASE \/ Workflow!ReadKnowCache(r) \/ Workflow!Search(r) \/ Workflow!WriteKnowCache(r)
           \/ Workflow!BuildAgentRaises(r)
           \/ Workflow!Generate(r) \/ Workflow!EvaluatePolicy(r)
  BY <1>3 DEF Workflow!ReadKnowCache, Workflow!Search, Workflow!WriteKnowCache,
     Workflow!BuildAgentRaises,
     Workflow!Generate, Workflow!EvaluatePolicy
<1>4. CASE Workflow!Persist(r) \/ Workflow!Enqueue(r) \/ Workflow!AuditDraft(r)
  BY <1>4 DEF Workflow!Persist, Workflow!Enqueue, Workflow!AuditDraft
<1> QED
  BY <1>1, <1>2, <1>3, <1>4 DEF Workflow!Node

\* A step of the handler or of the stores keeps the link.
LEMMA LinkStepOfHandler ==
    ASSUME IInv, LinkInv, UNCHANGED wpc,
           \/ \E r \in Requests : HandlerStep(r) \/ WorkflowReturns(r) \/ ExecutionFails(r)
           \/ StoresAlone
    PROVE  LinkInv'
<1> USE Places, Bounds, Markers, StoreValues
    DEF IInv, TypeOK, ControlInv, ResponseInv, LinkInv, TicketsOf, Succeeded, PC, Active,
        Executing, RedisOps, Goto, Answer, Raise, Applied
<1>1. ASSUME NEW r \in Requests, Receive(r) PROVE LinkInv'
  BY <1>1 DEF Receive, requestVars, faultVars
<1>2. ASSUME NEW r \in Requests, Claim(r) PROVE LinkInv'
  BY <1>2 DEF Claim, faultVars
<1>3. ASSUME NEW r \in Requests, ClaimFails(r) PROVE LinkInv'
  BY <1>3 DEF ClaimFails, CommandFails
<1>4. ASSUME NEW r \in Requests, GetExisting(r) PROVE LinkInv'
  BY <1>4 DEF GetExisting, faultVars
<1>5. ASSUME NEW r \in Requests, GetFails(r) PROVE LinkInv'
  BY <1>5 DEF GetFails
<1>6. ASSUME NEW r \in Requests, CheckCustomer(r) PROVE LinkInv'
  BY <1>6 DEF CheckCustomer, faultVars
<1>7. ASSUME NEW r \in Requests, InsertTicket(r) PROVE LinkInv'
  BY <1>7 DEF InsertTicket, faultVars
<1>8. ASSUME NEW r \in Requests, WorkflowReturns(r) PROVE LinkInv'
  BY <1>8 DEF WorkflowReturns, RunWorkflow, faultVars
<1>9. ASSUME NEW r \in Requests, FailsBeforeCommit(r) PROVE LinkInv'
  BY <1>9 DEF FailsBeforeCommit, faultVars
<1>10. ASSUME NEW r \in Requests, ExecutionFails(r) PROVE LinkInv'
  BY <1>10 DEF ExecutionFails, FailsAfterCommit
<1>11. ASSUME NEW r \in Requests, Complete(r) PROVE LinkInv'
  BY <1>11 DEF Complete, faultVars
<1>12. ASSUME NEW r \in Requests, CompleteFails(r) PROVE LinkInv'
  BY <1>12 DEF CompleteFails, CommandFails
<1>13. ASSUME NEW r \in Requests, Release(r) PROVE LinkInv'
  BY <1>13 DEF Release, faultVars
<1>14. ASSUME NEW r \in Requests, ReleaseFails(r) PROVE LinkInv'
  BY <1>14 DEF ReleaseFails, CommandFails
<1>15. CASE StoresAlone
  <2>1. ASSUME NEW r \in Requests, ApplyLate(r) PROVE LinkInv'
    BY <2>1 DEF ApplyLate, requestVars, faultVars
  <2>2. ASSUME NEW k \in Keys, LoseKey(k) PROVE LinkInv'
    BY <2>2 DEF LoseKey, requestVars
  <2>3. CASE RemoveCustomer
    BY <2>3 DEF RemoveCustomer, requestVars, faultVars
  <2>4. CASE UNCHANGED vars
    BY <2>4 DEF vars, requestVars, faultVars
  <2> QED
    BY <1>15, <2>1, <2>2, <2>3, <2>4 DEF StoresAlone
<1> HIDE DEF IInv, LinkInv
<1>16. ASSUME NEW r \in Requests, HandlerStep(r) PROVE LinkInv'
  BY <1>1, <1>2, <1>3, <1>4, <1>5, <1>6, <1>7, <1>9, <1>11, <1>12, <1>13, <1>14, <1>16, Zenon
     DEF HandlerStep
<1> QED
  BY <1>8, <1>10, <1>15, <1>16, Zenon

\* A step of a workflow, or the end of the process, keeps the link.
LEMMA LinkStepOfWorkflow ==
    ASSUME IInv, Workflow!IInv, LinkInv,
           (\E r \in Requests : StartWorkflow(r) \/ WorkflowNode(r)) \/ ProcessDies
    PROVE  LinkInv'
<1> USE Places DEF IInv, TypeOK, ControlInv, LinkInv, ResponseInv, Succeeded
<1>1. wpc \in [Requests -> {"idle"} \cup Workflow!Running \cup Workflow!Ended]
  BY DEF Workflow!IInv, Workflow!TypeOK
<1>2. ASSUME NEW r \in Requests, StartWorkflow(r) PROVE LinkInv'
  BY <1>1, <1>2 DEF StartWorkflow, Workflow!Start, Workflow!Goto, vars, requestVars
<1>3. ASSUME NEW r \in Requests, WorkflowNode(r) PROVE LinkInv'
  BY <1>1, <1>3, NodeEffect DEF WorkflowNode, vars, requestVars
<1>4. CASE ProcessDies
  <2>1. \A r \in Requests :
          /\ wpc'[r] = IF wpc[r] \in Workflow!Running THEN "lost" ELSE wpc[r]
          /\ pc'[r] = IF pc[r] \in Active THEN "lost" ELSE pc[r]
    BY <1>1, <1>4 DEF ProcessDies, Crash, Workflow!Crash, workflowVars
  <2>2. UNCHANGED <<store, late, tickets, code, body>>
    BY <1>4 DEF ProcessDies, Crash
  <2> QED
    BY <2>1, <2>2 DEF Active, Executing
<1> QED
  BY <1>2, <1>3, <1>4

\* An item of the supervisor queue is that of a workflow that got to its end.
LEMMA QueuedPlace ==
    ASSUME Workflow!IInv, LinkInv, NEW r \in Requests, r \in queue
    PROVE  wpc[r] \in {"audit", "completed", "lost"} /\ r \in tickets
BY DEF Workflow!IInv, Workflow!OutcomeInv, LinkInv

-----------------------------------------------------------------------------
(* The account of the supervisor queue *)

LEMMA ReviewStep ==
    ASSUME IInv, IInv', Workflow!IInv, LinkInv, ReviewAccountInv, [SystemNext]_systemVars
    PROVE  ReviewAccountInv'
<1> SUFFICES ASSUME NEW k \in Keys
             PROVE  Cardinality(Reviewing(k)') + Free(k)' <= 1 + keyLosses'
  BY DEF ReviewAccountInv
<1>0. /\ IsFiniteSet(Reviewing(k)) /\ Free(k) \in Nat /\ Free(k)' \in Nat
      /\ keyLosses \in Nat /\ keyLosses' \in Nat
      /\ Cardinality(Reviewing(k)) + Free(k) <= 1 + keyLosses
  <2>1. IsFiniteSet(Reviewing(k))
    BY FiniteRequests, FS_Subset DEF Reviewing
  <2>2. Free(k) \in Nat /\ Free(k)' \in Nat
    BY DEF Free
  <2>3. keyLosses \in Nat /\ keyLosses' \in Nat
    BY Bounds DEF IInv, TypeOK
  <2> QED
    BY <2>1, <2>2, <2>3 DEF ReviewAccountInv
\* A step that takes from the account, or leaves it alone.
<1>a. ASSUME Reviewing(k)' \subseteq Reviewing(k), Free(k)' <= Free(k), keyLosses' = keyLosses
      PROVE  Cardinality(Reviewing(k)') + Free(k)' <= 1 + keyLosses'
  <2>1. /\ Cardinality(Reviewing(k)') <= Cardinality(Reviewing(k))
        /\ Cardinality(Reviewing(k)') \in Nat /\ Cardinality(Reviewing(k)) \in Nat
    BY <1>0, <1>a, SizeOfPart
  <2> QED
    BY <1>0, <1>a, <2>1
\* The key is taken by r.
<1>b. ASSUME NEW r \in Requests, Reviewing(k)' \subseteq Reviewing(k) \cup {r},
             Free(k) = 1, Free(k)' = 0, keyLosses' = keyLosses
      PROVE  Cardinality(Reviewing(k)') + Free(k)' <= 1 + keyLosses'
  <2>1. /\ Cardinality(Reviewing(k)') <= Cardinality(Reviewing(k)) + 1
        /\ Cardinality(Reviewing(k)') \in Nat /\ Cardinality(Reviewing(k)) \in Nat
    BY <1>0, <1>b, SizeWithOneMore
  <2> QED
    BY <1>0, <1>b, <2>1
\* Redis executes or drops the release of r, which has no review item.
<1>c. ASSUME NEW r \in Requests, reqKey[r] = k, pc[r] = "release" \/ late[r] = "release",
             pc'[r] \notin Executing, late'[r] = "none",
             \A q \in Requests \ {r} : pc'[q] = pc[q] /\ late'[q] = late[q],
             UNCHANGED <<reqKey, keyLosses, queue>>
      PROVE  Cardinality(Reviewing(k)') + Free(k)' <= 1 + keyLosses'
  <2>1. r \notin queue
    BY <1>c, QueuedPlace DEF LinkInv
  <2>2. Reviewing(k)' \subseteq Reviewing(k) \ {r} /\ r \in Reviewing(k)
    BY <1>c, <2>1 DEF Reviewing, Executing
  <2>3. Free(k)' <= Free(k) + 1 /\ keyLosses' = keyLosses
    BY <1>c, <1>0 DEF Free
  <2>4. /\ Cardinality(Reviewing(k)') <= Cardinality(Reviewing(k)) - 1
        /\ Cardinality(Reviewing(k)') \in Nat /\ Cardinality(Reviewing(k)) \in Nat
    BY <1>0, <2>2, SizeWithOneLess
  <2> QED
    BY <1>0, <2>3, <2>4
\* A key is lost, perhaps this one.
<1>d. ASSUME Reviewing(k)' \subseteq Reviewing(k), Free(k)' \in {Free(k), 1},
             keyLosses' = keyLosses + 1
      PROVE  Cardinality(Reviewing(k)') + Free(k)' <= 1 + keyLosses'
  <2>1. Free(k)' + keyLosses <= Free(k) + keyLosses'
    BY <1>0, <1>d DEF Free
  <2>2. /\ Cardinality(Reviewing(k)') <= Cardinality(Reviewing(k))
        /\ Cardinality(Reviewing(k)') \in Nat /\ Cardinality(Reviewing(k)) \in Nat
    BY <1>0, <1>d, SizeOfPart
  <2> QED
    BY <1>0, <2>1, <2>2
<1> USE StoreValues, Markers
    DEF IInv, TypeOK, ControlInv, Reviewing, Free, Applied, Goto, Answer, Raise, PC, Active,
        Executing, RedisOps, faultVars
<1>1. ASSUME UNCHANGED queue, NEW r \in Requests,
             \/ GetExisting(r) \/ GetFails(r) \/ CheckCustomer(r) \/ InsertTicket(r)
             \/ RunWorkflow(r) \/ FailsBeforeCommit(r) \/ FailsAfterCommit(r)
             \/ ClaimFails(r) \/ Complete(r) \/ CompleteFails(r)
      PROVE  Cardinality(Reviewing(k)') + Free(k)' <= 1 + keyLosses'
  <2>1. CASE GetExisting(r) \/ GetFails(r) \/ CheckCustomer(r) \/ InsertTicket(r)
    BY <1>a, <1>1, <2>1 DEF GetExisting, GetFails, CheckCustomer, InsertTicket
  <2>2. CASE RunWorkflow(r) \/ FailsBeforeCommit(r) \/ FailsAfterCommit(r)
    BY <1>a, <1>1, <2>2 DEF RunWorkflow, FailsBeforeCommit, FailsAfterCommit
  <2>3. CASE ClaimFails(r) \/ Complete(r) \/ CompleteFails(r)
    BY <1>a, <1>1, <2>3 DEF ClaimFails, Complete, CompleteFails, CommandFails
  <2> HIDE DEF IInv, TypeOK, ControlInv, Reviewing, Free
  <2> QED
    BY <1>1, <2>1, <2>2, <2>3, Zenon
<1>2. ASSUME UNCHANGED queue, NEW r \in Requests, Receive(r)
      PROVE  Cardinality(Reviewing(k)') + Free(k)' <= 1 + keyLosses'
  <2>1. r \notin queue
    BY <1>2, QueuedPlace DEF Receive
  <2> QED
    BY <1>a, <1>2, <2>1 DEF Receive
<1>3. ASSUME UNCHANGED queue, NEW r \in Requests, Claim(r)
      PROVE  Cardinality(Reviewing(k)') + Free(k)' <= 1 + keyLosses'
  <2>1. CASE reqKey[r] = k /\ store[k] = Absent
    BY <1>b, <1>3, <2>1 DEF Claim
  <2>2. CASE ~(reqKey[r] = k /\ store[k] = Absent)
    BY <1>a, <1>3, <2>2 DEF Claim
  <2> QED
    BY <2>1, <2>2
<1>4. ASSUME UNCHANGED queue, NEW r \in Requests, Release(r) \/ ReleaseFails(r)
      PROVE  Cardinality(Reviewing(k)') + Free(k)' <= 1 + keyLosses'
  <2>1. CASE reqKey[r] = k /\ late' = late
    BY <1>c, <1>4, <2>1 DEF Release, ReleaseFails, CommandFails
  <2>2. CASE reqKey[r] = k /\ late' # late
    BY <1>a, <1>4, <2>2 DEF Release, ReleaseFails, CommandFails
  <2>3. CASE reqKey[r] # k
    BY <1>a, <1>4, <2>3 DEF Release, ReleaseFails, CommandFails
  <2> QED
    BY <2>1, <2>2, <2>3
<1>5. ASSUME UNCHANGED queue, NEW r \in Requests, ApplyLate(r)
      PROVE  Cardinality(Reviewing(k)') + Free(k)' <= 1 + keyLosses'
  <2>1. CASE reqKey[r] = k /\ late[r] = "release"
    BY <1>c, <1>5, <2>1 DEF ApplyLate, requestVars
  <2>2. CASE ~(reqKey[r] = k /\ late[r] = "release")
    BY <1>a, <1>5, <2>2 DEF ApplyLate, requestVars
  <2> QED
    BY <2>1, <2>2
<1>6. ASSUME UNCHANGED queue, NEW l \in Keys, LoseKey(l)
      PROVE  Cardinality(Reviewing(k)') + Free(k)' <= 1 + keyLosses'
  BY <1>d, <1>6 DEF LoseKey, requestVars
<1>7. ASSUME UNCHANGED queue, RemoveCustomer \/ Crash
      PROVE  Cardinality(Reviewing(k)') + Free(k)' <= 1 + keyLosses'
  BY <1>a, <1>7 DEF RemoveCustomer, Crash, requestVars
\* A workflow may queue its own ticket only, and runs within its request.
<1>8. ASSUME NEW r \in Requests, StartWorkflow(r) \/ WorkflowNode(r)
      PROVE  Cardinality(Reviewing(k)') + Free(k)' <= 1 + keyLosses'
  <2>1. pc[r] = "workflow" /\ queue' \subseteq queue \cup {r} /\ UNCHANGED vars
    BY <1>8, NodeEffect
       DEF StartWorkflow, WorkflowNode, Workflow!Start, LinkInv
  <2> QED
    BY <1>a, <2>1 DEF vars, requestVars
<1>9. CASE UNCHANGED <<vars, queue>>
  BY <1>a, <1>9 DEF vars, requestVars
<1>10. CASE ProcessDies
  BY <1>7, <1>10 DEF ProcessDies, Workflow!Crash, workflowVars
<1>11. CASE StoresAlone
  BY <1>5, <1>6, <1>7, <1>9, <1>11 DEF StoresAlone, Workflow!Expire, workflowVars
<1> HIDE StoreValues, Markers DEF IInv, TypeOK, ControlInv, Reviewing, Free
<1>12. ASSUME NEW r \in Requests, Serve(r)
       PROVE  Cardinality(Reviewing(k)') + Free(k)' <= 1 + keyLosses'
  <2>1. CASE HandlerStep(r)
    <3>1. UNCHANGED queue
      BY <2>1 DEF HandlerStep, workflowVars
    <3> QED
      BY <1>1, <1>2, <1>3, <1>4, <2>1, <3>1, Zenon DEF HandlerStep
  <2>2. CASE StartWorkflow(r) \/ WorkflowNode(r)
    BY <1>8, <2>2
  <2>3. CASE WorkflowReturns(r)
    <3>1. RunWorkflow(r) /\ UNCHANGED queue
      BY <2>3 DEF WorkflowReturns, workflowVars
    <3> QED
      BY <1>1, <3>1, Zenon
  <2>4. CASE ExecutionFails(r)
    <3>1. FailsAfterCommit(r) /\ UNCHANGED queue
      BY <2>4 DEF ExecutionFails, workflowVars
    <3> QED
      BY <1>1, <3>1, Zenon
  <2> QED
    BY <1>12, <2>1, <2>2, <2>3, <2>4 DEF Serve
<1> QED
  BY <1>9, <1>10, <1>11, <1>12 DEF SystemNext, systemVars, workflowVars

-----------------------------------------------------------------------------
(* The theorems *)

\* The link and the account hold initially and are kept by every step.
THEOREM SystemInvariance == SystemSpec => []SystemInv
<1>1. SystemInit => SystemInv
  <2> SUFFICES ASSUME SystemInit PROVE LinkInv /\ ReviewAccountInv
    BY DEF SystemInv
  <2>1. LinkInv
    BY Places, StoreValues DEF SystemInit, Init, Workflow!Init, LinkInv, Succeeded
  <2>2. ASSUME NEW k \in Keys PROVE Cardinality(Reviewing(k)) + Free(k) <= 1 + keyLosses
    <3>1. Reviewing(k) = {} /\ Free(k) = 1 /\ keyLosses = 0
      BY DEF SystemInit, Init, Workflow!Init, Reviewing, Free, Executing
    <3> QED
      BY <3>1, FS_EmptySet
  <2> QED
    BY <2>1, <2>2 DEF ReviewAccountInv
<1>2. IInv /\ IInv' /\ Workflow!IInv /\ SystemInv /\ [SystemNext]_systemVars => SystemInv'
  <2> SUFFICES ASSUME IInv, IInv', Workflow!IInv, LinkInv, ReviewAccountInv,
                      [SystemNext]_systemVars
               PROVE  LinkInv' /\ ReviewAccountInv'
    BY DEF SystemInv
  <2>1. LinkInv'
    <3>1. CASE UNCHANGED systemVars
      BY <3>1 DEF systemVars, vars, requestVars, faultVars, workflowVars, LinkInv, Succeeded
    <3>2. CASE \/ \E r \in Requests : HandlerStep(r) \/ WorkflowReturns(r) \/ ExecutionFails(r)
               \/ StoresAlone
      <4>1. UNCHANGED wpc
        BY <3>2 DEF HandlerStep, WorkflowReturns, ExecutionFails, StoresAlone, Workflow!Expire,
           workflowVars
      <4> QED
        BY <3>2, <4>1, LinkStepOfHandler
    <3>3. CASE (\E r \in Requests : StartWorkflow(r) \/ WorkflowNode(r)) \/ ProcessDies
      BY <3>3, LinkStepOfWorkflow
    <3> QED
      BY <3>1, <3>2, <3>3 DEF SystemNext, Serve
  <2> QED
    BY <2>1, ReviewStep
<1>3. SystemSpec => []IInv
  BY ImplementsTicketCreation, Invariance, PTL
<1> QED
  BY <1>1, <1>2, <1>3, WorkflowInvariance, PTL DEF SystemSpec

\* Whoever is told of a ticket, by an answer or by a stored response, is told of one
\* that the workflow has finished with: its draft needs no human, or is in the
\* supervisor queue, or the log says that it could not be put there.
THEOREM AnsweredMeansTriagedHolds == SystemSpec => []AnsweredMeansTriaged
<1>1. IInv /\ Workflow!IInv /\ SystemInv => AnsweredMeansTriaged
  <2> SUFFICES ASSUME IInv, Workflow!IInv, LinkInv PROVE AnsweredMeansTriaged
    BY DEF SystemInv
  <2>1. ASSUME NEW t \in Requests, wpc[t] = "completed" PROVE Triaged(t)
    BY <2>1 DEF Triaged, Workflow!IInv, Workflow!OutcomeInv
  <2>2. ASSUME NEW r \in Requests, Succeeded(r) PROVE body[r] \in Requests
    BY <2>2 DEF IInv, TypeOK, ResponseInv
  <2> QED
    BY <2>1, <2>2 DEF AnsweredMeansTriaged, LinkInv
<1>2. SystemSpec => []IInv
  BY ImplementsTicketCreation, Invariance, PTL
<1> QED
  BY <1>1, <1>2, WorkflowInvariance, SystemInvariance, PTL

\* The review items of a key are at most one more than the losses of the key.
THEOREM ReviewsAccountedHolds == SystemSpec => []ReviewsAccounted
<1>1. IInv /\ Workflow!IInv /\ SystemInv => ReviewsAccounted
  <2> SUFFICES ASSUME IInv, Workflow!IInv, SystemInv, NEW k \in Keys
               PROVE  Cardinality({t \in queue : reqKey[t] = k}) <= 1 + keyLosses
    BY DEF ReviewsAccounted
  <2> DEFINE items == {t \in queue : reqKey[t] = k}
  <2>1. items \subseteq Reviewing(k)
    BY DEF Workflow!IInv, Workflow!TypeOK, Reviewing
  <2>2. IsFiniteSet(Reviewing(k))
    BY FiniteRequests, FS_Subset DEF Reviewing
  <2>3. /\ Cardinality(items) <= Cardinality(Reviewing(k))
        /\ Cardinality(items) \in Nat /\ Cardinality(Reviewing(k)) \in Nat
    BY <2>1, <2>2, FS_Subset, FS_CardinalityType
  <2>4. Cardinality(Reviewing(k)) + Free(k) <= 1 + keyLosses
    BY DEF SystemInv, ReviewAccountInv
  <2>5. Free(k) \in Nat /\ keyLosses \in Nat
    BY Bounds DEF IInv, TypeOK, Free
  <2> QED
    BY <2>3, <2>4, <2>5
<1>2. SystemSpec => []IInv
  BY ImplementsTicketCreation, Invariance, PTL
<1> QED
  BY <1>1, <1>2, WorkflowInvariance, SystemInvariance, PTL

\* A ticket whose client was told that it failed, and who may so create it again, is on
\* no human's desk, and its workflow is over: it can come to no review item any more.
THEOREM FailuresLeaveNoReviewHolds == SystemSpec => []FailuresLeaveNoReview
<1>1. Workflow!IInv /\ SystemInv => FailuresLeaveNoReview
  <2> SUFFICES ASSUME Workflow!IInv, SystemInv,
                      NEW r \in Requests, pc[r] = "done", code[r] = 500
               PROVE  /\ r \notin queue \cup warned
                      /\ wpc[r] \in {"idle", "raised"} /\ draft[r] = Unset
    BY DEF FailuresLeaveNoReview
  <2>1. wpc[r] \in {"idle", "raised"}
    BY DEF SystemInv, LinkInv
  <2>2. r \notin queue \cup warned
    BY <2>1 DEF Workflow!IInv, Workflow!OutcomeInv
  <2>3. draft[r] = Unset
    BY <2>1 DEF Workflow!IInv, Workflow!ControlInv, Workflow!Undecided
  <2> QED
    BY <2>1, <2>2, <2>3
<1> QED
  BY <1>1, WorkflowInvariance, SystemInvariance, PTL
=============================================================================
