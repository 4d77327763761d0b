------------------------------- MODULE SeedData -------------------------------
(***************************************************************************)
(* The rows that scripts/seed.py writes, reduced to what ties them to each *)
(* other and to the rest of the system: who may be assigned, which         *)
(* customer a ticket names, which category an article belongs to.          *)
(***************************************************************************)
EXTENDS Naturals, Sequences

Admin == "admin"
Users == {Admin, "supervisor", "agent1", "agent2"}

Customers == <<"Jane Doe", "John Smith", "Bruce Wayne", "Tony Stark", "Alice Johnson">>

Unassigned == "-"

\* customer_index (from 0) and assigned_to of each ticket.
Tickets ==
    << <<0, Unassigned>>, <<0, Unassigned>>, <<0, "agent1">>,
       <<1, "agent1">>, <<1, "agent2">>, <<1, Unassigned>>,
       <<2, "agent1">>, <<2, Unassigned>>, <<2, "agent2">>,
       <<3, "agent1">>, <<3, "agent2">>, <<3, "agent1">>,
       <<4, "agent2">>, <<4, "agent1">>, <<4, Unassigned>> >>

\* The category of each article.
KnowledgeArticles ==
    <<"billing", "billing", "billing", "technical", "technical", "technical",
      "account", "account", "account", "general", "general">>

\* _seed_tickets looks every customer and every assigned agent up.
TicketsResolve ==
    \A i \in DOMAIN Tickets :
        /\ Tickets[i][1] + 1 \in DOMAIN Customers
        /\ Tickets[i][2] \in Users \cup {Unassigned}

\* What a search in a category can find in one batch of articles.
ArticlesOf(category) == {i \in DOMAIN KnowledgeArticles : KnowledgeArticles[i] = category}
=============================================================================
