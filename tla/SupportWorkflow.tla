--------------------------- MODULE SupportWorkflow ---------------------------
(***************************************************************************)
(* The support workflow of one POST /tickets: the nodes of graph/nodes.py  *)
(* in the order of graph/workflow.py, with the classification cache        *)
(* (graph/classifier.py), knowledge-base retrieval and its cache           *)
(* (agents/base.py, tools/knowledge_base.py), the checkpoints of           *)
(* graph/checkpoint.py and the enqueueing of a supervisor review.          *)
(*                                                                         *)
(* The workflows of several tickets run in threads of their own and share  *)
(* the Redis caches.  Each call that reaches Redis, PostgreSQL or the      *)
(* model is a step, and each may fail: the caches and the checkpoints fail *)
(* open, a failure of the model is answered by a fallback.                 *)
(***************************************************************************)
EXTENDS PolicyRules

CONSTANTS
    Tickets,      \* ticket rows whose workflow is invoked
    Texts,        \* normalised ticket texts
    Content,      \* Texts -> what the policy finds in a text
    NoText,       \* before the workflow is invoked
    Categories,   \* the TicketCategory values in use
    Unset,        \* a field of WorkflowState, or a cache entry, that is not there
    Unavailable   \* _UNAVAILABLE_MESSAGE

ASSUME Values ==
    /\ Categories \subseteq {"billing", "technical", "account", "general"}
    /\ "general" \in Categories
    /\ Content \in [Texts -> PolicyTexts]
    /\ Unset \notin Categories /\ Unavailable \notin Categories /\ NoText \notin Texts

VARIABLES
    pc,           \* where each workflow stands
    text,         \* ticket_text
    category, agent, context, draft, unresolved, rules,  \* the rest of WorkflowState
    classCache,   \* Redis: text -> cached category
    knowCache,    \* Redis: agent category, text -> cached search result
    checkpoint,   \* Redis: workflow_checkpoint:<ticket>, the stage saved last
    queue,        \* PostgreSQL: tickets with a pending approval request
    warned,       \* tickets whose enqueueing was logged as failed
    apiKeySet,    \* an OpenAI key is configured
    verdicts      \* history: the categories the model has given to a text

stateVars == <<text, category, agent, context, draft, unresolved, rules>>
cacheVars == <<classCache, knowCache>>
vars == <<pc, stateVars, cacheVars, checkpoint, queue, warned, apiKeySet, verdicts>>

\* _AGENT_BY_CATEGORY, and the CATEGORY of the agent class of each agent type.
AgentByCategory ==
    [billing |-> "billing_agent", technical |-> "technical_agent",
     account |-> "account_agent", general |-> "general_agent"]

CategoryOfAgent ==
    [billing_agent |-> "billing", technical_agent |-> "technical",
     account_agent |-> "account", general_agent |-> "general"]

Agents == {AgentByCategory[c] : c \in Categories}

Stages == <<"classification", "agent_selection", "specialist_execution", "policy_evaluation">>

\* Where a node's checkpoint is saved, and what comes next.
Saving == [save_classification |-> 1, save_selection |-> 2,
           save_execution |-> 3, save_policy |-> 4]
Following == <<"select", "retrieve", "evaluate", "persist">>

Running == DOMAIN Saving \cup
    {"classify", "model", "remember", "select", "retrieve", "search", "keep",
     "generate", "evaluate", "persist", "enqueue", "audit"}
Ended == {"completed", "raised", "lost"}

\* Earlier workflows have left what they may in the caches.
Init ==
    /\ pc = [t \in Tickets |-> "idle"]
    /\ text = [t \in Tickets |-> NoText]
    /\ category = [t \in Tickets |-> Unset]
    /\ agent = [t \in Tickets |-> Unset]
    /\ context = [t \in Tickets |-> Unset]
    /\ draft = [t \in Tickets |-> Unset]
    /\ unresolved = [t \in Tickets |-> FALSE]
    /\ rules = [t \in Tickets |-> {}]
    /\ classCache \in [Texts -> Categories \cup {Unset}]
    /\ \E kept \in SUBSET (Categories \X Texts) :
          knowCache = [c \in Categories |-> [x \in Texts |->
                          IF <<c, x>> \in kept THEN c ELSE Unset]]
    /\ checkpoint = [t \in Tickets |-> 0]
    /\ queue = {} /\ warned = {}
    /\ apiKeySet \in BOOLEAN
    /\ verdicts = [x \in Texts |-> {classCache[x]} \ {Unset}]

Goto(t, label) == pc' = [pc EXCEPT ![t] = label]

-----------------------------------------------------------------------------
(* load_ticket_node, classify_ticket_node *)

Start(t) ==
    /\ pc[t] = "idle"
    /\ \E x \in Texts : text' = [text EXCEPT ![t] = x]
    /\ Goto(t, "classify")
    /\ UNCHANGED <<category, agent, context, draft, unresolved, rules, cacheVars,
                   checkpoint, queue, warned, apiKeySet, verdicts>>

\* A hit ends the classification; RedisError, and an invalid entry, is a miss.
ReadClassCache(t) ==
    /\ pc[t] = "classify"
    /\ \/ /\ classCache[text[t]] # Unset
          /\ category' = [category EXCEPT ![t] = classCache[text[t]]]
          /\ Goto(t, "save_classification")
       \/ Goto(t, "model") /\ UNCHANGED category
    /\ UNCHANGED <<text, agent, context, draft, unresolved, rules, cacheVars,
                   checkpoint, queue, warned, apiKeySet, verdicts>>

\* The OpenAI client cannot be built without a key, and is built outside the try.
BuildClientRaises(t) ==
    /\ pc[t] = "model" /\ ~apiKeySet
    /\ Goto(t, "raised")
    /\ UNCHANGED <<stateVars, cacheVars, checkpoint, queue, warned,
                   apiKeySet, verdicts>>

Classify(t) ==
    /\ pc[t] = "model" /\ apiKeySet
    /\ \E c \in Categories :
          /\ category' = [category EXCEPT ![t] = c]
          /\ verdicts' = [verdicts EXCEPT ![text[t]] = @ \cup {c}]
    /\ Goto(t, "remember")
    /\ UNCHANGED <<text, agent, context, draft, unresolved, rules, cacheVars,
                   checkpoint, queue, warned, apiKeySet>>

\* Mutant of ClassifyFails: the fallback is cached.
ClassifyFailsCached(t) ==
    /\ pc[t] = "model" /\ apiKeySet
    /\ category' = [category EXCEPT ![t] = "general"]
    /\ Goto(t, "remember")
    /\ UNCHANGED <<text, agent, context, draft, unresolved, rules, cacheVars,
                   checkpoint, queue, warned, apiKeySet, verdicts>>

\* The call fails, times out, or returns nothing that parses.
ClassifyFails(t) ==
    /\ pc[t] = "model" /\ apiKeySet
    /\ category' = [category EXCEPT ![t] = "general"]
    /\ Goto(t, "save_classification")
    /\ UNCHANGED <<text, agent, context, draft, unresolved, rules, cacheVars,
                   checkpoint, queue, warned, apiKeySet, verdicts>>

WriteClassCache(t) ==
    /\ pc[t] = "remember"
    /\ \/ classCache' = [classCache EXCEPT ![text[t]] = category[t]]
       \/ UNCHANGED classCache
    /\ Goto(t, "save_classification")
    /\ UNCHANGED <<stateVars, knowCache, checkpoint, queue, warned,
                   apiKeySet, verdicts>>

\* _checkpointed, after each of four nodes: saved, or a warning.
SaveCheckpoint(t) ==
    /\ pc[t] \in DOMAIN Saving
    /\ \/ checkpoint' = [checkpoint EXCEPT ![t] = Saving[pc[t]]]
       \/ UNCHANGED checkpoint
    /\ Goto(t, Following[Saving[pc[t]]])
    /\ UNCHANGED <<stateVars, cacheVars, queue, warned, apiKeySet, verdicts>>

-----------------------------------------------------------------------------
(* select_agent_node, execute_agent_node *)

\* Outside the try: the agent, before it retrieves, and its task and crew, after.
BuildAgentRaises(t) ==
    /\ pc[t] \in {"retrieve", "generate"}
    /\ Goto(t, "raised")
    /\ UNCHANGED <<stateVars, cacheVars, checkpoint, queue, warned,
                   apiKeySet, verdicts>>

\* Mutant of SelectAgent: the category itself is taken for the agent.
SelectCategory(t) ==
    /\ pc[t] = "select"
    /\ agent' = [agent EXCEPT ![t] = category[t]]
    /\ Goto(t, "save_selection")
    /\ UNCHANGED <<text, category, context, draft, unresolved, rules, cacheVars,
                   checkpoint, queue, warned, apiKeySet, verdicts>>

SelectAgent(t) ==
    /\ pc[t] = "select"
    /\ agent' = [agent EXCEPT ![t] = AgentByCategory[category[t]]]
    /\ Goto(t, "save_selection")
    /\ UNCHANGED <<text, category, context, draft, unresolved, rules, cacheVars,
                   checkpoint, queue, warned, apiKeySet, verdicts>>

\* KnowledgeBaseSearchTool._run: the cache first; RedisError is a miss.
ReadKnowCache(t) ==
    /\ pc[t] = "retrieve"
    /\ LET cached == knowCache[CategoryOfAgent[agent[t]]][text[t]] IN
          \/ /\ cached # Unset
             /\ context' = [context EXCEPT ![t] = cached]
             /\ Goto(t, "generate")
          \/ Goto(t, "search") /\ UNCHANGED context
    /\ UNCHANGED <<text, category, agent, draft, unresolved, rules, cacheVars,
                   checkpoint, queue, warned, apiKeySet, verdicts>>

\* A result, "no results" among them, is named after the category searched.
Search(t) ==
    /\ pc[t] = "search"
    /\ \/ /\ context' = [context EXCEPT ![t] = CategoryOfAgent[agent[t]]]
          /\ Goto(t, "keep")
       \/ context' = [context EXCEPT ![t] = Unavailable] /\ Goto(t, "generate")
    /\ UNCHANGED <<text, category, agent, draft, unresolved, rules, cacheVars,
                   checkpoint, queue, warned, apiKeySet, verdicts>>

\* Mutant of WriteKnowCache: the cache key lacks the category.
WriteByTextOnly(t) ==
    /\ pc[t] = "keep"
    /\ knowCache' = [c \in Categories |-> [knowCache[c] EXCEPT ![text[t]] = context[t]]]
    /\ Goto(t, "generate")
    /\ UNCHANGED <<stateVars, classCache, checkpoint, queue, warned,
                   apiKeySet, verdicts>>

WriteKnowCache(t) ==
    /\ pc[t] = "keep"
    /\ \/ knowCache' = [knowCache EXCEPT ![CategoryOfAgent[agent[t]]][text[t]] = context[t]]
       \/ UNCHANGED knowCache
    /\ Goto(t, "generate")
    /\ UNCHANGED <<stateVars, classCache, checkpoint, queue, warned,
                   apiKeySet, verdicts>>

\* Mutant of Generate: unstructured output is not reported as unresolved.
GenerateTrusting(t) ==
    /\ pc[t] = "generate"
    /\ \E d \in {"reply", "unstructured"} : draft' = [draft EXCEPT ![t] = d]
    /\ unresolved' = [unresolved EXCEPT ![t] = FALSE]
    /\ Goto(t, "save_execution")
    /\ UNCHANGED <<text, category, agent, context, rules, cacheVars,
                   checkpoint, queue, warned, apiKeySet, verdicts>>

\* respond: a structured reply, unstructured output, or the fallback response.
Generate(t) ==
    /\ pc[t] = "generate"
    /\ \/ /\ draft' = [draft EXCEPT ![t] = "reply"]
          /\ \E u \in BOOLEAN : unresolved' = [unresolved EXCEPT ![t] = u]
       \/ /\ \E d \in {"unstructured", "fallback"} : draft' = [draft EXCEPT ![t] = d]
          /\ unresolved' = [unresolved EXCEPT ![t] = TRUE]
    /\ Goto(t, "save_execution")
    /\ UNCHANGED <<text, category, agent, context, rules, cacheVars,
                   checkpoint, queue, warned, apiKeySet, verdicts>>

-----------------------------------------------------------------------------
(* confidence_evaluation_node, persist_results_node *)

PlaceholderConfidence == 100  \* _PLACEHOLDER_CONFIDENCE_SCORE, in percent

\* Mutant of EvaluatePolicy: the agent's signal is not passed on.
EvaluateTextOnly(t) ==
    /\ pc[t] = "evaluate"
    /\ rules' = [rules EXCEPT ![t] =
                    MatchedRules(Content[text[t]], PlaceholderConfidence, FALSE)]
    /\ Goto(t, "save_policy")
    /\ UNCHANGED <<text, category, agent, context, draft, unresolved, cacheVars,
                   checkpoint, queue, warned, apiKeySet, verdicts>>

EvaluatePolicy(t) ==
    /\ pc[t] = "evaluate"
    /\ rules' = [rules EXCEPT ![t] =
                    MatchedRules(Content[text[t]], PlaceholderConfidence, unresolved[t])]
    /\ Goto(t, "save_policy")
    /\ UNCHANGED <<text, category, agent, context, draft, unresolved, cacheVars,
                   checkpoint, queue, warned, apiKeySet, verdicts>>

Persist(t) ==
    /\ pc[t] = "persist"
    /\ Goto(t, IF rules[t] = {} THEN "completed" ELSE "enqueue")
    /\ UNCHANGED <<stateVars, cacheVars, checkpoint, queue, warned,
                   apiKeySet, verdicts>>

\* create_pending and commit.  A failure, also one that only lost the reply to
\* COMMIT, is logged and swallowed.
Enqueue(t) ==
    /\ pc[t] = "enqueue"
    /\ \/ /\ queue' = queue \cup {t}
          /\ Goto(t, "audit")
          /\ UNCHANGED warned
       \/ /\ queue' \in {queue, queue \cup {t}}
          /\ warned' = warned \cup {t}
          /\ Goto(t, "completed")
    /\ UNCHANGED <<stateVars, cacheVars, checkpoint, apiKeySet, verdicts>>

\* log_audit_event never raises; its rows are ApprovalQueue's.
AuditDraft(t) ==
    /\ pc[t] = "audit"
    /\ Goto(t, "completed")
    /\ UNCHANGED <<stateVars, cacheVars, checkpoint, queue, warned,
                   apiKeySet, verdicts>>

-----------------------------------------------------------------------------
(* The environment *)

\* A TTL runs out, or Redis is restarted without the entry.
Expire ==
    /\ \/ \E x \in Texts :
             /\ classCache[x] # Unset
             /\ classCache' = [classCache EXCEPT ![x] = Unset]
             /\ UNCHANGED knowCache
       \/ \E c \in Categories, x \in Texts :
             /\ knowCache[c][x] # Unset
             /\ knowCache' = [knowCache EXCEPT ![c][x] = Unset]
             /\ UNCHANGED classCache
    /\ UNCHANGED <<pc, stateVars, checkpoint, queue, warned, apiKeySet, verdicts>>

\* The process dies: the workflows it ran are not resumed.
Crash ==
    /\ \E t \in Tickets : pc[t] \in Running
    /\ pc' = [t \in Tickets |-> IF pc[t] \in Running THEN "lost" ELSE pc[t]]
    /\ UNCHANGED <<stateVars, cacheVars, checkpoint, queue, warned,
                   apiKeySet, verdicts>>

Node(t) ==
    \/ ReadClassCache(t) \/ BuildClientRaises(t) \/ Classify(t) \/ ClassifyFails(t)
    \/ WriteClassCache(t) \/ SaveCheckpoint(t) \/ SelectAgent(t) \/ ReadKnowCache(t)
    \/ Search(t) \/ WriteKnowCache(t) \/ BuildAgentRaises(t) \/ Generate(t)
    \/ EvaluatePolicy(t) \/ Persist(t) \/ Enqueue(t) \/ AuditDraft(t)

Next ==
    \/ \E t \in Tickets : Start(t) \/ Node(t)
    \/ Expire \/ Crash

Spec == Init /\ [][Next]_vars

\* A worker thread runs on; every call it makes has a timeout or fails.
FairSpec == Spec /\ \A t \in Tickets : WF_vars(Node(t))

-----------------------------------------------------------------------------
(* Properties *)

TypeOK ==
    /\ pc \in [Tickets -> {"idle"} \cup Running \cup Ended]
    /\ text \in [Tickets -> Texts \cup {NoText}]
    /\ category \in [Tickets -> Categories \cup {Unset}]
    /\ agent \in [Tickets -> Agents \cup {Unset}]
    /\ context \in [Tickets -> Categories \cup {Unset, Unavailable}]
    /\ draft \in [Tickets -> {"reply", "unstructured", "fallback", Unset}]
    /\ unresolved \in [Tickets -> BOOLEAN]
    /\ rules \in [Tickets -> SUBSET (EscalationKeywords \cup
            {RefundKeyword, "refund_over_threshold", "low_confidence", "agent_unresolved"})]
    /\ classCache \in [Texts -> Categories \cup {Unset}]
    /\ knowCache \in [Categories -> [Texts -> Categories \cup {Unset}]]
    /\ checkpoint \in [Tickets -> 0..4]
    /\ queue \subseteq Tickets /\ warned \subseteq Tickets
    /\ apiKeySet \in BOOLEAN
    /\ verdicts \in [Texts -> SUBSET Categories]

\* What a human must see: an escalating text, a reply the agent is unsure of, or
\* one that no agent produced.
NeedsHuman(t) ==
    \/ Content[text[t]].keywords # {}
    \/ unresolved[t] \/ draft[t] # "reply"

\* A workflow that completes has put every draft a human must see, and no other,
\* in the supervisor queue -- or has logged that it could not.
EscalationHonoured ==
    /\ \A t \in Tickets : pc[t] = "completed" => (NeedsHuman(t) <=> t \in queue \cup warned)
    /\ \A t \in queue : NeedsHuman(t)

\* A failed classification never reaches the cache: what is cached for a text, and
\* so what other tickets are routed by, is a verdict of the model on that text.
CacheHoldsVerdicts ==
    /\ \A x \in Texts : classCache[x] # Unset => classCache[x] \in verdicts[x]
    /\ \A t \in Tickets :
          category[t] \in Categories \ {"general"} => category[t] \in verdicts[text[t]]

\* The context of a draft is a search in the ticket's own category, from the cache
\* or not; the outage message is never cached.
ContextIsGenuine ==
    /\ \A t \in Tickets : context[t] \in {Unset, Unavailable, category[t]}
    /\ \A c \in Categories, x \in Texts : knowCache[c][x] \in {Unset, c}

\* classifier.py:87, "Never raises -- any classification failure logs a warning and
\* returns TicketCategory.GENERAL": what raises is past its classification.
ClassificationNeverRaises == \A t \in Tickets : pc[t] = "raised" => category[t] # Unset

-----------------------------------------------------------------------------
(* The inductive invariant *)

Undecided == {"idle", "classify", "model", "remember", "save_classification", "select",
              "save_selection", "retrieve", "search", "keep", "generate"}
Drafted == {"save_execution", "evaluate", "save_policy", "persist", "enqueue", "audit",
            "completed"}

\* What is set, and what not yet, where a workflow stands.
ControlInv ==
    \A t \in Tickets :
        /\ pc[t] # "idle" => text[t] \in Texts
        /\ pc[t] \notin {"idle", "classify", "model"} \cup Ended => category[t] \in Categories
        /\ pc[t] \in {"idle", "classify", "model"} => category[t] = Unset
        /\ pc[t] \in {"save_selection", "retrieve", "search", "keep"}
              => agent[t] = AgentByCategory[category[t]]
        /\ pc[t] \in Undecided \ {"keep", "generate"} => context[t] = Unset
        /\ pc[t] = "keep" => context[t] = category[t]
        /\ pc[t] \in Undecided \cup {"raised"} => draft[t] = Unset

\* The decision to involve a human, and what became of it.
OutcomeInv ==
    \A t \in Tickets :
        /\ (pc[t] \in Drafted /\ draft[t] # "reply") => unresolved[t]
        /\ pc[t] \in {"save_policy", "persist", "enqueue", "audit"}
              => (NeedsHuman(t) <=> rules[t] # {})
        /\ pc[t] \in {"enqueue", "audit"} => rules[t] # {}
        /\ pc[t] = "audit" => t \in queue
        /\ pc[t] = "completed" => (NeedsHuman(t) <=> t \in queue \cup warned)
        /\ t \in queue \cup warned =>
              pc[t] \in {"audit", "completed", "lost"} /\ NeedsHuman(t)

\* A general category may also be the fallback, until it is about to be cached.
VerdictInv ==
    /\ CacheHoldsVerdicts
    /\ \A t \in Tickets : pc[t] = "remember" => category[t] \in verdicts[text[t]]

IInv ==
    /\ TypeOK /\ ControlInv /\ OutcomeInv /\ VerdictInv
    /\ ContextIsGenuine
=============================================================================
