---------------------------- MODULE MCSupportOps ----------------------------
(* Instances of SupportOps for TLC. *)
EXTENDS SupportOps

CONSTANT plain

\* A text that names neither a keyword nor an amount: only the agent escalates.
MCContent == [x \in Texts |-> [keywords |-> {}, amounts |-> {}]]

\* What the next steps depend on.  Left out are the variables that nothing reads
\* (checkpoint, verdicts), and, with one text and one category, those that the
\* workflow's place determines; every step changes what is left.
Essential == <<vars, wpc, draft, unresolved, classCache, knowCache, queue, warned, apiKeySet>>
=============================================================================
