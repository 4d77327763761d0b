----------------------- MODULE SupportWorkflow_proofs -----------------------
(***************************************************************************)
(* Theorems about SupportWorkflow and PolicyRules, for any number of       *)
(* tickets, any texts and any categories in use.                           *)
(***************************************************************************)
EXTENDS WorkflowRefinement, TLAPS

\* The policy involves a human exactly if the text names an escalation keyword or
\* a refund, the confidence is low, or the agent gave up: a large amount alone
\* does not (evaluate_policy).
THEOREM ReviewIffSignal ==
    ASSUME NEW x \in PolicyTexts, NEW confidence \in Int, NEW u \in BOOLEAN
    PROVE  MatchedRules(x, confidence, u) # {}
              <=> (x.keywords # {} \/ confidence < LowConfidence \/ u)
<1>1. x.keywords \subseteq EscalationKeywords \cup {RefundKeyword}
  BY DEF PolicyTexts
<1>2. MatchedKeywordRules(x) # {} <=> x.keywords # {}
  BY <1>1 DEF MatchedKeywordRules
<1> QED
  BY <1>2 DEF MatchedRules

\* Review escalation is not first-match-wins: a text that says more, a lower confidence
\* or an agent that gives up never takes a rule back that has matched.
THEOREM RulesMonotone ==
    ASSUME NEW x \in PolicyTexts, NEW y \in PolicyTexts, NEW n \in Int, NEW m \in Int,
           NEW u \in BOOLEAN, NEW v \in BOOLEAN,
           x.keywords \subseteq y.keywords, x.amounts \subseteq y.amounts, m <= n, u => v
    PROVE  MatchedRules(x, n, u) \subseteq MatchedRules(y, m, v)
<1>1. HasAmountOverThreshold(x) => HasAmountOverThreshold(y)
  BY DEF HasAmountOverThreshold
<1>2. MatchedKeywordRules(x) \subseteq MatchedKeywordRules(y)
  BY <1>1 DEF MatchedKeywordRules
<1>3. n < LowConfidence => m < LowConfidence
  BY DEF LowConfidence
<1> QED
  BY <1>2, <1>3 DEF MatchedRules

\* Every rule that is reported is one of the known ones.
LEMMA RulesKnown ==
    ASSUME NEW x \in PolicyTexts, NEW confidence \in Int, NEW u \in BOOLEAN
    PROVE  MatchedRules(x, confidence, u) \in SUBSET (EscalationKeywords \cup
            {RefundKeyword, "refund_over_threshold", "low_confidence", "agent_unresolved"})
  BY DEF MatchedRules, MatchedKeywordRules, PolicyTexts

\* The four places where a checkpoint is saved, one by one.
LEMMA Saved ==
    ASSUME NEW l \in DOMAIN Saving
    PROVE  \/ l = "save_classification" /\ Saving[l] = 1 /\ Following[Saving[l]] = "select"
           \/ l = "save_selection" /\ Saving[l] = 2 /\ Following[Saving[l]] = "retrieve"
           \/ l = "save_execution" /\ Saving[l] = 3 /\ Following[Saving[l]] = "evaluate"
           \/ l = "save_policy" /\ Saving[l] = 4 /\ Following[Saving[l]] = "persist"
  BY DEF Saving, Following

\* Each place is a place to save at.
LEMMA SavePlaces ==
    DOMAIN Saving = {"save_classification", "save_selection", "save_execution", "save_policy"}
  BY DEF Saving

\* An agent class answers for the category that is routed to it.
LEMMA Routing ==
    ASSUME NEW c \in Categories
    PROVE  /\ AgentByCategory[c] \in Agents
           /\ CategoryOfAgent[AgentByCategory[c]] = c
<1>1. c \in {"billing", "technical", "account", "general"}
  BY Values
<1> QED
  BY <1>1 DEF Agents, AgentByCategory, CategoryOfAgent

\* The knowledge base is searched in the ticket's own category.
LEMMA SearchedCategory ==
    ASSUME IInv, NEW t \in Tickets, pc[t] \in {"retrieve", "search", "keep"}
    PROVE  /\ category[t] \in Categories
           /\ CategoryOfAgent[agent[t]] = category[t]
<1>1. category[t] \in Categories /\ agent[t] = AgentByCategory[category[t]]
  BY DEF IInv, ControlInv, Ended
<1> QED
  BY <1>1, Routing

\* Every step keeps the types.
LEMMA TypeStep ==
    ASSUME IInv, [Next]_vars
    PROVE  TypeOK'
<1> USE Values DEF IInv, Goto, stateVars, cacheVars, TypeOK, Running,
      Ended, ControlInv
<1>1. ASSUME NEW t \in Tickets, Start(t) PROVE TypeOK'
  BY <1>1, SavePlaces DEF Start
<1>2. ASSUME NEW t \in Tickets, ReadClassCache(t) PROVE TypeOK'
  BY <1>2, SavePlaces DEF ReadClassCache
<1>3. ASSUME NEW t \in Tickets, BuildClientRaises(t) PROVE TypeOK'
  BY <1>3, SavePlaces DEF BuildClientRaises
<1>4. ASSUME NEW t \in Tickets, Classify(t) PROVE TypeOK'
  BY <1>4, SavePlaces DEF Classify
<1>5. ASSUME NEW t \in Tickets, ClassifyFails(t) PROVE TypeOK'
  BY <1>5, SavePlaces DEF ClassifyFails
<1>6. ASSUME NEW t \in Tickets, WriteClassCache(t) PROVE TypeOK'
  BY <1>6, SavePlaces DEF WriteClassCache
<1>7. ASSUME NEW t \in Tickets, SaveCheckpoint(t) PROVE TypeOK'
  BY <1>7, SavePlaces, Saved DEF SaveCheckpoint
<1>8. ASSUME NEW t \in Tickets, SelectAgent(t) PROVE TypeOK'
  BY <1>8, SavePlaces, Routing DEF SelectAgent
<1>9. ASSUME NEW t \in Tickets, ReadKnowCache(t) PROVE TypeOK'
  <2>1. text[t] \in Texts /\ category[t] \in Categories
        /\ CategoryOfAgent[agent[t]] = category[t]
    BY <1>9, SearchedCategory DEF ReadKnowCache
  <2>2. knowCache[category[t]][text[t]] \in {Unset, category[t]}
    BY <2>1 DEF ContextIsGenuine
  <2>3. context' = context \/ context' = [context EXCEPT ![t] = category[t]]
    BY <1>9, <2>1, <2>2 DEF ReadKnowCache
  <2> QED
    BY <1>9, <2>1, <2>3, SavePlaces DEF ReadKnowCache
<1>10. ASSUME NEW t \in Tickets, Search(t) PROVE TypeOK'
  BY <1>10, SavePlaces, SearchedCategory DEF Search
<1>11. ASSUME NEW t \in Tickets, WriteKnowCache(t) PROVE TypeOK'
  <2>1. /\ text[t] \in Texts /\ category[t] \in Categories
        /\ CategoryOfAgent[agent[t]] = category[t]
    BY <1>11, SearchedCategory DEF WriteKnowCache
  <2>2. \/ knowCache' = [knowCache EXCEPT ![category[t]][text[t]] = context[t]]
        \/ knowCache' = knowCache
    BY <1>11, <2>1 DEF WriteKnowCache
  <2>3. context[t] \in Categories \cup {Unset}
    BY <1>11 DEF WriteKnowCache
  <2>4. knowCache' \in [Categories -> [Texts -> Categories \cup {Unset}]]
    BY <2>1, <2>2, <2>3
  <2> QED
    BY <1>11, <2>1, <2>4, SavePlaces DEF WriteKnowCache
<1>12. ASSUME NEW t \in Tickets, Generate(t) PROVE TypeOK'
  <2>1. draft' \in [Tickets -> {"reply", "unstructured", "fallback", Unset}]
    BY <1>12 DEF Generate
  <2>2. unresolved' \in [Tickets -> BOOLEAN]
    BY <1>12 DEF Generate
  <2>3. pc' \in [Tickets -> {"idle"} \cup Running \cup Ended]
    BY <1>12, SavePlaces DEF Generate
  <2> QED
    BY <1>12, <2>1, <2>2, <2>3 DEF Generate
<1>13. ASSUME NEW t \in Tickets, EvaluatePolicy(t) PROVE TypeOK'
  BY <1>13, SavePlaces, RulesKnown DEF EvaluatePolicy, PlaceholderConfidence
<1>14. ASSUME NEW t \in Tickets, Persist(t) PROVE TypeOK'
  BY <1>14, SavePlaces DEF Persist
<1>15. ASSUME NEW t \in Tickets, Enqueue(t) PROVE TypeOK'
  BY <1>15, SavePlaces DEF Enqueue
<1>16. ASSUME NEW t \in Tickets, AuditDraft(t) PROVE TypeOK'
  BY <1>16, SavePlaces DEF AuditDraft
<1>17. CASE Expire
  BY <1>17, SavePlaces DEF Expire
<1>18. CASE Crash
  BY <1>18, SavePlaces DEF Crash
<1>19. CASE UNCHANGED vars
  BY <1>19, SavePlaces DEF vars
<1>20. ASSUME NEW t \in Tickets, BuildAgentRaises(t) PROVE TypeOK'
  BY <1>20, SavePlaces DEF BuildAgentRaises
<1> QED
  BY <1>1, <1>2, <1>3, <1>4, <1>5, <1>6, <1>7, <1>8, <1>9, <1>10, <1>11, <1>12,
     <1>13, <1>14, <1>15, <1>16, <1>17, <1>18, <1>19, <1>20 DEF Next, Node

\* Every step keeps what its place implies.
LEMMA ControlStep ==
    ASSUME IInv, [Next]_vars
    PROVE  ControlInv'
<1> USE Values DEF IInv, Goto, stateVars, cacheVars, TypeOK, Running,
      Ended, ControlInv, Undecided
<1>1. ASSUME NEW t \in Tickets, Start(t) PROVE ControlInv'
  BY <1>1, SavePlaces DEF Start
<1>2. ASSUME NEW t \in Tickets, ReadClassCache(t) PROVE ControlInv'
  BY <1>2, SavePlaces DEF ReadClassCache
<1>3. ASSUME NEW t \in Tickets, BuildClientRaises(t) PROVE ControlInv'
  BY <1>3, SavePlaces DEF BuildClientRaises
<1>4. ASSUME NEW t \in Tickets, Classify(t) PROVE ControlInv'
  BY <1>4, SavePlaces DEF Classify
<1>5. ASSUME NEW t \in Tickets, ClassifyFails(t) PROVE ControlInv'
  BY <1>5, SavePlaces DEF ClassifyFails
<1>6. ASSUME NEW t \in Tickets, WriteClassCache(t) PROVE ControlInv'
  BY <1>6, SavePlaces DEF WriteClassCache
<1>7. ASSUME NEW t \in Tickets, SaveCheckpoint(t) PROVE ControlInv'
  BY <1>7, SavePlaces, Saved DEF SaveCheckpoint
<1>8. ASSUME NEW t \in Tickets, SelectAgent(t) PROVE ControlInv'
  BY <1>8, SavePlaces DEF SelectAgent
<1>9. ASSUME NEW t \in Tickets, ReadKnowCache(t) PROVE ControlInv'
  BY <1>9, SavePlaces, SearchedCategory DEF ReadKnowCache
<1>10. ASSUME NEW t \in Tickets, Search(t) PROVE ControlInv'
  BY <1>10, SavePlaces, SearchedCategory DEF Search
<1>11. ASSUME NEW t \in Tickets, WriteKnowCache(t) PROVE ControlInv'
  BY <1>11, SavePlaces DEF WriteKnowCache
<1>12. ASSUME NEW t \in Tickets, Generate(t) PROVE ControlInv'
  BY <1>12, SavePlaces DEF Generate
<1>13. ASSUME NEW t \in Tickets, EvaluatePolicy(t) PROVE ControlInv'
  BY <1>13, SavePlaces DEF EvaluatePolicy
<1>14. ASSUME NEW t \in Tickets, Persist(t) PROVE ControlInv'
  BY <1>14, SavePlaces DEF Persist
<1>15. ASSUME NEW t \in Tickets, Enqueue(t) PROVE ControlInv'
  BY <1>15, SavePlaces DEF Enqueue
<1>16. ASSUME NEW t \in Tickets, AuditDraft(t) PROVE ControlInv'
  BY <1>16, SavePlaces DEF AuditDraft
<1>17. CASE Expire
  BY <1>17, SavePlaces DEF Expire
<1>18. CASE Crash
  BY <1>18, SavePlaces DEF Crash
<1>19. CASE UNCHANGED vars
  BY <1>19, SavePlaces DEF vars
<1>20. ASSUME NEW t \in Tickets, BuildAgentRaises(t) PROVE ControlInv'
  BY <1>20, SavePlaces DEF BuildAgentRaises
<1> QED
  BY <1>1, <1>2, <1>3, <1>4, <1>5, <1>6, <1>7, <1>8, <1>9, <1>10, <1>11, <1>12,
     <1>13, <1>14, <1>15, <1>16, <1>17, <1>18, <1>19, <1>20 DEF Next, Node

\* The drafts a human must see are the ones that are queued, step by step.
LEMMA OutcomeStep ==
    ASSUME IInv, [Next]_vars
    PROVE  OutcomeInv'
<1> USE Values DEF IInv, Goto, stateVars, cacheVars, TypeOK, Running,
      Ended, ControlInv, OutcomeInv, Drafted, NeedsHuman
<1>1. ASSUME NEW t \in Tickets, Start(t) PROVE OutcomeInv'
  BY <1>1, SavePlaces DEF Start
<1>2. ASSUME NEW t \in Tickets, ReadClassCache(t) PROVE OutcomeInv'
  BY <1>2, SavePlaces DEF ReadClassCache
<1>3. ASSUME NEW t \in Tickets, BuildClientRaises(t) PROVE OutcomeInv'
  BY <1>3, SavePlaces DEF BuildClientRaises
<1>4. ASSUME NEW t \in Tickets, Classify(t) PROVE OutcomeInv'
  BY <1>4, SavePlaces DEF Classify
<1>5. ASSUME NEW t \in Tickets, ClassifyFails(t) PROVE OutcomeInv'
  BY <1>5, SavePlaces DEF ClassifyFails
<1>6. ASSUME NEW t \in Tickets, WriteClassCache(t) PROVE OutcomeInv'
  BY <1>6, SavePlaces DEF WriteClassCache
<1>7. ASSUME NEW t \in Tickets, SaveCheckpoint(t) PROVE OutcomeInv'
  BY <1>7, SavePlaces, Saved DEF SaveCheckpoint
<1>8. ASSUME NEW t \in Tickets, SelectAgent(t) PROVE OutcomeInv'
  BY <1>8, SavePlaces DEF SelectAgent
<1>9. ASSUME NEW t \in Tickets, ReadKnowCache(t) PROVE OutcomeInv'
  BY <1>9, SavePlaces DEF ReadKnowCache
<1>10. ASSUME NEW t \in Tickets, Search(t) PROVE OutcomeInv'
  BY <1>10, SavePlaces DEF Search
<1>11. ASSUME NEW t \in Tickets, WriteKnowCache(t) PROVE OutcomeInv'
  BY <1>11, SavePlaces DEF WriteKnowCache
<1>12. ASSUME NEW t \in Tickets, Generate(t) PROVE OutcomeInv'
  BY <1>12, SavePlaces DEF Generate
<1>13. ASSUME NEW t \in Tickets, EvaluatePolicy(t) PROVE OutcomeInv'
  BY <1>13, SavePlaces, ReviewIffSignal DEF EvaluatePolicy, PlaceholderConfidence, LowConfidence
<1>14. ASSUME NEW t \in Tickets, Persist(t) PROVE OutcomeInv'
  BY <1>14, SavePlaces DEF Persist
<1>15. ASSUME NEW t \in Tickets, Enqueue(t) PROVE OutcomeInv'
  BY <1>15, SavePlaces DEF Enqueue
<1>16. ASSUME NEW t \in Tickets, AuditDraft(t) PROVE OutcomeInv'
  BY <1>16, SavePlaces DEF AuditDraft
<1>17. CASE Expire
  BY <1>17, SavePlaces DEF Expire
<1>18. CASE Crash
  BY <1>18, SavePlaces DEF Crash
<1>19. CASE UNCHANGED vars
  BY <1>19, SavePlaces DEF vars
<1>20. ASSUME NEW t \in Tickets, BuildAgentRaises(t) PROVE OutcomeInv'
  BY <1>20, SavePlaces DEF BuildAgentRaises
<1> QED
  BY <1>1, <1>2, <1>3, <1>4, <1>5, <1>6, <1>7, <1>8, <1>9, <1>10, <1>11, <1>12,
     <1>13, <1>14, <1>15, <1>16, <1>17, <1>18, <1>19, <1>20 DEF Next, Node

\* Only a verdict of the model is written to the classification cache.
LEMMA VerdictStep ==
    ASSUME IInv, [Next]_vars
    PROVE  VerdictInv'
<1> USE Values DEF IInv, Goto, stateVars, cacheVars, TypeOK, Running,
      Ended, ControlInv, VerdictInv, CacheHoldsVerdicts
<1>1. ASSUME NEW t \in Tickets, Start(t) PROVE VerdictInv'
  BY <1>1, SavePlaces DEF Start
<1>2. ASSUME NEW t \in Tickets, ReadClassCache(t) PROVE VerdictInv'
  BY <1>2, SavePlaces DEF ReadClassCache
<1>3. ASSUME NEW t \in Tickets, BuildClientRaises(t) PROVE VerdictInv'
  BY <1>3, SavePlaces DEF BuildClientRaises
<1>4. ASSUME NEW t \in Tickets, Classify(t) PROVE VerdictInv'
  BY <1>4, SavePlaces DEF Classify
<1>5. ASSUME NEW t \in Tickets, ClassifyFails(t) PROVE VerdictInv'
  BY <1>5, SavePlaces DEF ClassifyFails
<1>6. ASSUME NEW t \in Tickets, WriteClassCache(t) PROVE VerdictInv'
  BY <1>6, SavePlaces DEF WriteClassCache
<1>7. ASSUME NEW t \in Tickets, SaveCheckpoint(t) PROVE VerdictInv'
  BY <1>7, SavePlaces, Saved DEF SaveCheckpoint
<1>8. ASSUME NEW t \in Tickets, SelectAgent(t) PROVE VerdictInv'
  BY <1>8, SavePlaces DEF SelectAgent
<1>9. ASSUME NEW t \in Tickets, ReadKnowCache(t) PROVE VerdictInv'
  BY <1>9, SavePlaces DEF ReadKnowCache
<1>10. ASSUME NEW t \in Tickets, Search(t) PROVE VerdictInv'
  BY <1>10, SavePlaces DEF Search
<1>11. ASSUME NEW t \in Tickets, WriteKnowCache(t) PROVE VerdictInv'
  BY <1>11, SavePlaces DEF WriteKnowCache
<1>12. ASSUME NEW t \in Tickets, Generate(t) PROVE VerdictInv'
  BY <1>12, SavePlaces DEF Generate
<1>13. ASSUME NEW t \in Tickets, EvaluatePolicy(t) PROVE VerdictInv'
  BY <1>13, SavePlaces DEF EvaluatePolicy
<1>14. ASSUME NEW t \in Tickets, Persist(t) PROVE VerdictInv'
  BY <1>14, SavePlaces DEF Persist
<1>15. ASSUME NEW t \in Tickets, Enqueue(t) PROVE VerdictInv'
  BY <1>15, SavePlaces DEF Enqueue
<1>16. ASSUME NEW t \in Tickets, AuditDraft(t) PROVE VerdictInv'
  BY <1>16, SavePlaces DEF AuditDraft
<1>17. CASE Expire
  BY <1>17, SavePlaces DEF Expire
<1>18. CASE Crash
  BY <1>18, SavePlaces DEF Crash
<1>19. CASE UNCHANGED vars
  BY <1>19, SavePlaces DEF vars
<1>20. ASSUME NEW t \in Tickets, BuildAgentRaises(t) PROVE VerdictInv'
  BY <1>20, SavePlaces DEF BuildAgentRaises
<1> QED
  BY <1>1, <1>2, <1>3, <1>4, <1>5, <1>6, <1>7, <1>8, <1>9, <1>10, <1>11, <1>12,
     <1>13, <1>14, <1>15, <1>16, <1>17, <1>18, <1>19, <1>20 DEF Next, Node

\* A search result is stored, and found again, under the category searched.
LEMMA ContextStep ==
    ASSUME IInv, [Next]_vars
    PROVE  ContextIsGenuine'
<1> USE Values DEF IInv, Goto, stateVars, cacheVars, TypeOK, Running,
      Ended, ControlInv, ContextIsGenuine, Undecided
<1>1. ASSUME NEW t \in Tickets, Start(t) PROVE ContextIsGenuine'
  BY <1>1, SavePlaces DEF Start
<1>2. ASSUME NEW t \in Tickets, ReadClassCache(t) PROVE ContextIsGenuine'
  BY <1>2, SavePlaces DEF ReadClassCache
<1>3. ASSUME NEW t \in Tickets, BuildClientRaises(t) PROVE ContextIsGenuine'
  BY <1>3, SavePlaces DEF BuildClientRaises
<1>4. ASSUME NEW t \in Tickets, Classify(t) PROVE ContextIsGenuine'
  BY <1>4, SavePlaces DEF Classify
<1>5. ASSUME NEW t \in Tickets, ClassifyFails(t) PROVE ContextIsGenuine'
  BY <1>5, SavePlaces DEF ClassifyFails
<1>6. ASSUME NEW t \in Tickets, WriteClassCache(t) PROVE ContextIsGenuine'
  BY <1>6, SavePlaces DEF WriteClassCache
<1>7. ASSUME NEW t \in Tickets, SaveCheckpoint(t) PROVE ContextIsGenuine'
  BY <1>7, SavePlaces, Saved DEF SaveCheckpoint
<1>8. ASSUME NEW t \in Tickets, SelectAgent(t) PROVE ContextIsGenuine'
  BY <1>8, SavePlaces DEF SelectAgent
<1>9. ASSUME NEW t \in Tickets, ReadKnowCache(t) PROVE ContextIsGenuine'
  <2>1. text[t] \in Texts /\ category[t] \in Categories
        /\ CategoryOfAgent[agent[t]] = category[t]
    BY <1>9, SearchedCategory DEF ReadKnowCache
  <2>2. knowCache[category[t]][text[t]] \in {Unset, category[t]}
    BY <2>1 DEF ContextIsGenuine
  <2>3. context' = context \/ context' = [context EXCEPT ![t] = category[t]]
    BY <1>9, <2>1, <2>2 DEF ReadKnowCache
  <2> QED
    BY <1>9, <2>1, <2>3, SavePlaces DEF ReadKnowCache
<1>10. ASSUME NEW t \in Tickets, Search(t) PROVE ContextIsGenuine'
  BY <1>10, SavePlaces, SearchedCategory DEF Search
<1>11. ASSUME NEW t \in Tickets, WriteKnowCache(t) PROVE ContextIsGenuine'
  BY <1>11, SavePlaces, SearchedCategory DEF WriteKnowCache
<1>12. ASSUME NEW t \in Tickets, Generate(t) PROVE ContextIsGenuine'
  BY <1>12, SavePlaces DEF Generate
<1>13. ASSUME NEW t \in Tickets, EvaluatePolicy(t) PROVE ContextIsGenuine'
  BY <1>13, SavePlaces DEF EvaluatePolicy
<1>14. ASSUME NEW t \in Tickets, Persist(t) PROVE ContextIsGenuine'
  BY <1>14, SavePlaces DEF Persist
<1>15. ASSUME NEW t \in Tickets, Enqueue(t) PROVE ContextIsGenuine'
  BY <1>15, SavePlaces DEF Enqueue
<1>16. ASSUME NEW t \in Tickets, AuditDraft(t) PROVE ContextIsGenuine'
  BY <1>16, SavePlaces DEF AuditDraft
<1>17. CASE Expire
  BY <1>17, SavePlaces DEF Expire
<1>18. CASE Crash
  BY <1>18, SavePlaces DEF Crash
<1>19. CASE UNCHANGED vars
  BY <1>19, SavePlaces DEF vars
<1>20. ASSUME NEW t \in Tickets, BuildAgentRaises(t) PROVE ContextIsGenuine'
  BY <1>20, SavePlaces DEF BuildAgentRaises
<1> QED
  BY <1>1, <1>2, <1>3, <1>4, <1>5, <1>6, <1>7, <1>8, <1>9, <1>10, <1>11, <1>12,
     <1>13, <1>14, <1>15, <1>16, <1>17, <1>18, <1>19, <1>20 DEF Next, Node

\* The invariant holds initially and is kept by every step.
THEOREM Invariance == Spec => []IInv
<1>1. Init => IInv
  BY Values, SavePlaces DEF Init, IInv, TypeOK, ControlInv, OutcomeInv, VerdictInv,
     CacheHoldsVerdicts, ContextIsGenuine, Running, Ended, Drafted, Undecided
<1>2. IInv /\ [Next]_vars => IInv'
  BY TypeStep, ControlStep, OutcomeStep, VerdictStep, ContextStep DEF IInv
<1> QED
  BY <1>1, <1>2, PTL DEF Spec

\* The variables keep their types.
THEOREM TypeCorrect == Spec => []TypeOK
<1>1. IInv => TypeOK
  BY DEF IInv
<1> QED
  BY <1>1, Invariance, PTL

\* No draft that a human must see leaves the workflow unseen: it is queued, or its
\* enqueueing was logged as failed; and nothing else is queued.
THEOREM EscalationHonouredHolds == Spec => []EscalationHonoured
<1>1. IInv => EscalationHonoured
  BY DEF IInv, TypeOK, OutcomeInv, EscalationHonoured
<1> QED
  BY <1>1, Invariance, PTL

\* The fallback category of a failed classification is never cached.
THEOREM CacheHoldsVerdictsHolds == Spec => []CacheHoldsVerdicts
<1>1. IInv => CacheHoldsVerdicts
  BY DEF IInv, VerdictInv
<1> QED
  BY <1>1, Invariance, PTL

\* A draft is grounded in the articles of its own category.
THEOREM ContextIsGenuineHolds == Spec => []ContextIsGenuine
<1>1. IInv => ContextIsGenuine
  BY DEF IInv
<1> QED
  BY <1>1, Invariance, PTL

\* How a step of the workflow looks to its clients: a step of the contract, or none.
LEMMA ContractStep ==
    ASSUME IInv, [Next]_vars
    PROVE  [Contract!Next]_(Contract!vars)
<1> USE DEF IInv, TypeOK
<1> DEFINE stages == [q \in Tickets |-> StageOf(q)]
<1>1. ASSUME \A q \in Tickets : StageOf(q)' = StageOf(q), UNCHANGED <<queue, warned>>
      PROVE  [Contract!Next]_(Contract!vars)
  BY <1>1 DEF Contract!vars
\* One ticket moves.
<1>2. ASSUME NEW t \in Tickets, NEW a, NEW b, StageOf(t) = a, StageOf(t)' = b,
             \A q \in Tickets \ {t} : StageOf(q)' = StageOf(q)
      PROVE  Contract!Moves(t, a, b)
  <2>1. stages' = [stages EXCEPT ![t] = b] /\ stages[t] = a
    BY <1>2
  <2> QED
    BY <2>1 DEF Contract!Moves
\* A step of t leaves the other tickets where they are.
<1>3. ASSUME NEW t \in Tickets, NEW l, Goto(t, l),
             \A q \in Tickets \ {t} :
                /\ text'[q] = text[q] /\ draft'[q] = draft[q] /\ unresolved'[q] = unresolved[q]
                /\ q \in (queue \cup warned)' <=> q \in queue \cup warned
      PROVE  \A q \in Tickets \ {t} : StageOf(q)' = StageOf(q)
  BY <1>3 DEF Goto, StageOf, NeedsHuman
<1>4. ASSUME NEW t \in Tickets, NEW l, Goto(t, l), pc[t] \in Undecided \ {"idle"},
             l \in Undecided \ {"idle"}, UNCHANGED <<text, draft, unresolved, queue, warned>>
      PROVE  [Contract!Next]_(Contract!vars)
  <2>1. StageOf(t)' = StageOf(t)
    BY <1>4 DEF Goto, StageOf, Undecided
  <2> QED
    BY <1>1, <1>3, <1>4, <2>1
<1>5. ASSUME NEW t \in Tickets, NEW l, Goto(t, l), pc[t] \in Drafted \ {"audit", "completed"},
             l \in Drafted \ {"audit", "completed"},
             UNCHANGED <<text, draft, unresolved, queue, warned>>
      PROVE  [Contract!Next]_(Contract!vars)
  <2>1. StageOf(t)' = StageOf(t)
    BY <1>5 DEF Goto, StageOf, NeedsHuman, Undecided, Drafted
  <2> QED
    BY <1>1, <1>3, <1>5, <2>1
<1>6. ASSUME NEW t \in Tickets, Start(t) PROVE [Contract!Next]_(Contract!vars)
  <2>1. pc[t] = "idle" /\ Goto(t, "classify") /\ UNCHANGED <<draft, unresolved, queue, warned>>
        /\ \A q \in Tickets \ {t} : text'[q] = text[q]
    BY <1>6 DEF Start
  <2>2. StageOf(t) = "waiting" /\ StageOf(t)' = "drafting"
    BY <2>1 DEF Goto, StageOf, Undecided, OutcomeInv
  <2>3. Contract!Accept(t)
    BY <1>2, <1>3, <2>1, <2>2 DEF Contract!Accept
  <2> QED
    BY <2>3 DEF Contract!Next
<1>7. ASSUME NEW t \in Tickets, BuildClientRaises(t) \/ BuildAgentRaises(t)
      PROVE  [Contract!Next]_(Contract!vars)
  <2>1. pc[t] \in {"model", "retrieve", "generate"} /\ Goto(t, "raised")
        /\ UNCHANGED <<text, draft, unresolved, queue, warned>>
    BY <1>7 DEF BuildClientRaises, BuildAgentRaises, stateVars
  <2>2. StageOf(t) = "drafting" /\ StageOf(t)' = "failed"
    BY <2>1 DEF Goto, StageOf, Undecided, OutcomeInv
  <2>3. \A q \in Tickets \ {t} : StageOf(q)' = StageOf(q)
    BY <1>3, <2>1
  <2>4. Contract!Fail({t})
    BY <2>1, <2>2, <2>3 DEF Contract!Fail
  <2> QED
    BY <2>4 DEF Contract!Next
<1>8. ASSUME NEW t \in Tickets, Generate(t) PROVE [Contract!Next]_(Contract!vars)
  <2>1. /\ pc[t] = "generate" /\ Goto(t, "save_execution") /\ UNCHANGED <<text, queue, warned>>
        /\ \A q \in Tickets \ {t} : draft'[q] = draft[q] /\ unresolved'[q] = unresolved[q]
    BY <1>8 DEF Generate
  <2>2. StageOf(t) = "drafting" /\ StageOf(t)' \in {"review", "clear"}
    BY <2>1 DEF Goto, StageOf, Undecided, OutcomeInv
  <2>3. Contract!Draft(t)
    BY <1>2, <1>3, <2>1, <2>2 DEF Contract!Draft
  <2> QED
    BY <2>3 DEF Contract!Next, Contract!Progress
<1>9. ASSUME NEW t \in Tickets, SaveCheckpoint(t) PROVE [Contract!Next]_(Contract!vars)
  <2>1. Goto(t, Following[Saving[pc[t]]]) /\ pc[t] \in DOMAIN Saving
        /\ UNCHANGED <<text, draft, unresolved, queue, warned>>
    BY <1>9 DEF SaveCheckpoint, stateVars
  <2>2. \/ pc[t] \in Undecided \ {"idle"} /\ Following[Saving[pc[t]]] \in Undecided \ {"idle"}
        \/ /\ pc[t] \in Drafted \ {"audit", "completed"}
           /\ Following[Saving[pc[t]]] \in Drafted \ {"audit", "completed"}
    BY <2>1, Saved DEF Undecided, Drafted
  <2> QED
    BY <1>4, <1>5, <2>1, <2>2
<1>10. ASSUME NEW t \in Tickets, EvaluatePolicy(t) PROVE [Contract!Next]_(Contract!vars)
  BY <1>5, <1>10 DEF EvaluatePolicy, Drafted
\* The policy has found out what StageOf knew.
<1>11. ASSUME NEW t \in Tickets, Persist(t) PROVE [Contract!Next]_(Contract!vars)
  <2>1. pc[t] = "persist" /\ UNCHANGED <<text, draft, unresolved, queue, warned>>
    BY <1>11 DEF Persist, stateVars
  <2>2. CASE rules[t] # {}
    BY <1>5, <1>11, <2>1, <2>2 DEF Persist, Drafted
  <2>3. CASE rules[t] = {}
    <3>1. Goto(t, "completed")
      BY <1>11, <2>3 DEF Persist
    <3>2. StageOf(t) = "clear" /\ StageOf(t)' = "done"
      BY <2>1, <2>3, <3>1 DEF Goto, StageOf, Undecided, OutcomeInv
    <3>3. Contract!Finish(t)
      BY <1>2, <1>3, <2>1, <3>1, <3>2 DEF Contract!Finish
    <3> QED
      BY <3>3 DEF Contract!Next, Contract!Progress
  <2> QED
    BY <2>2, <2>3
<1>12. ASSUME NEW t \in Tickets, Enqueue(t) PROVE [Contract!Next]_(Contract!vars)
  <2>1. /\ pc[t] = "enqueue" /\ UNCHANGED <<text, draft, unresolved>>
        /\ Goto(t, "audit") \/ Goto(t, "completed")
        /\ \/ queue' = queue \cup {t} /\ UNCHANGED warned
           \/ warned' = warned \cup {t} /\ queue' \in {queue, queue \cup {t}}
    BY <1>12 DEF Enqueue, stateVars
  <2>2. \A q \in Tickets \ {t} : q \in (queue \cup warned)' <=> q \in queue \cup warned
    BY <2>1
  <2>3. StageOf(t) = "review" /\ StageOf(t)' = "done"
    BY <2>1 DEF Goto, StageOf, Undecided, OutcomeInv
  <2>4. Contract!HandOver(t)
    BY <1>2, <1>3, <2>1, <2>2, <2>3 DEF Contract!HandOver
  <2> QED
    BY <2>4 DEF Contract!Next, Contract!Progress
<1>13. ASSUME NEW t \in Tickets, AuditDraft(t) PROVE [Contract!Next]_(Contract!vars)
  <2>1. pc[t] = "audit" /\ Goto(t, "completed")
        /\ UNCHANGED <<text, draft, unresolved, queue, warned>>
    BY <1>13 DEF AuditDraft, stateVars
  <2>2. StageOf(t)' = StageOf(t)
    BY <2>1 DEF Goto, StageOf, OutcomeInv
  <2> QED
    BY <1>1, <1>3, <2>1, <2>2
<1>14. CASE Crash
  <2> DEFINE failed == {q \in Tickets : pc[q] \in Running /\ q \notin queue \cup warned}
  <2>1. UNCHANGED <<text, draft, unresolved, queue, warned>>
        /\ \A q \in Tickets : pc'[q] = IF pc[q] \in Running THEN "lost" ELSE pc[q]
    BY <1>14 DEF Crash, stateVars
  <2>2. ASSUME NEW q \in failed
        PROVE  StageOf(q) \in {"drafting", "review", "clear"} /\ StageOf(q)' = "failed"
    BY <2>1, SavePlaces DEF StageOf, Running, Undecided
  <2>3. ASSUME NEW q \in Tickets \ failed PROVE StageOf(q)' = StageOf(q)
    BY <2>1, SavePlaces DEF StageOf, Running, Undecided, NeedsHuman, Ended
  <2>4. Contract!Fail(failed)
    <3> HIDE DEF failed
    <3>1. failed \in SUBSET Tickets
      BY DEF failed
    <3> QED
      BY <2>1, <2>2, <2>3, <3>1 DEF Contract!Fail
  <2> QED
    BY <2>4 DEF Contract!Next
<1>15. CASE Expire
  BY <1>1, <1>15 DEF Expire, stateVars, StageOf, NeedsHuman
<1>16. CASE UNCHANGED vars
  BY <1>1, <1>16 DEF vars, stateVars, StageOf, NeedsHuman
<1>17. ASSUME NEW t \in Tickets,
              \/ ReadClassCache(t) \/ Classify(t) \/ ClassifyFails(t) \/ WriteClassCache(t)
              \/ SelectAgent(t) \/ ReadKnowCache(t) \/ Search(t) \/ WriteKnowCache(t)
       PROVE  [Contract!Next]_(Contract!vars)
  <2>1. /\ UNCHANGED <<text, draft, unresolved, queue, warned>>
        /\ pc[t] \in Undecided \ {"idle"}
        /\ \E l \in Undecided \ {"idle"} : Goto(t, l)
    BY <1>17 DEF ReadClassCache, Classify, ClassifyFails, WriteClassCache, SelectAgent,
       ReadKnowCache, Search, WriteKnowCache, stateVars, Undecided
  <2> QED
    BY <1>4, <2>1
<1> QED
  BY <1>6, <1>7, <1>8, <1>9, <1>10, <1>11, <1>12, <1>13, <1>14, <1>15, <1>16, <1>17
     DEF Next, Node

\* The workflow does to its tickets only what WorkflowContract allows: no draft that a
\* human must see is finished, or forgotten, without the queue or the log.
THEOREM Refinement == Spec => KeepsWorkflowContract
<1>1. Init => Contract!Init
  BY DEF Init, Contract!Init, StageOf
<1>2. IInv /\ [Next]_vars => [Contract!Next]_(Contract!vars)
  BY ContractStep
<1> QED
  BY <1>1, <1>2, Invariance, PTL DEF Spec, KeepsWorkflowContract, Contract!SafeSpec
=============================================================================
