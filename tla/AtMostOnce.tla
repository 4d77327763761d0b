----------------------------- MODULE AtMostOnce -----------------------------
(***************************************************************************)
(* What an idempotent operation promises its clients                       *)
(* (services/idempotency.py:1-22, README.md:130-144): under one key the    *)
(* operation takes effect at most once, and every request with that key    *)
(* which is answered is answered with that one effect.  Requests without a *)
(* key each have an effect of their own.                                   *)
(*                                                                         *)
(* A lapse is a key that is forgotten, or an execution that is reported    *)
(* failed although it took effect.  Each lapse excuses one more effect     *)
(* under some key; while there is none the promise is as above.            *)
(***************************************************************************)
EXTENDS Naturals, FiniteSets

CONSTANTS Requests, Keys, NoKey, NoTicket

VARIABLES
    key,     \* the key a request carries, NoKey before it is submitted
    effect,  \* key -> the effects had under it, named after their request
    status,  \* "pending", "ok" or "failed"
    result,  \* the effect a successful request is told of
    lapses   \* how many lapses there have been

vars == <<key, effect, status, result, lapses>>

Init ==
    /\ key = [r \in Requests |-> NoKey]
    /\ effect = [k \in Keys |-> {}]
    /\ status = [r \in Requests |-> "pending"]
    /\ result = [r \in Requests |-> NoTicket]
    /\ lapses = 0

\* A lapse may come with the step.
MayLapse == lapses' \in {lapses, lapses + 1}

\* r arrives with key k.
Submit(r, k) ==
    /\ status[r] = "pending" /\ key[r] = NoKey
    /\ key' = [key EXCEPT ![r] = k]
    /\ UNCHANGED <<effect, status, result, lapses>>

\* The first effect under r's key, or one that an earlier lapse excuses.
Perform(r) ==
    /\ status[r] = "pending" /\ key[r] \in Keys
    /\ Cardinality(effect[key[r]]) <= lapses
    /\ effect' = [effect EXCEPT ![key[r]] = @ \cup {r}]
    /\ MayLapse
    /\ UNCHANGED <<key, status, result>>

\* r is told of an effect of its key, or of its own if it has none.
Report(r) ==
    /\ status[r] = "pending"
    /\ \E t \in IF key[r] = NoKey THEN {r} ELSE effect[key[r]] :
          result' = [result EXCEPT ![r] = t]
    /\ status' = [status EXCEPT ![r] = "ok"]
    /\ UNCHANGED <<key, effect, lapses>>

\* Requests (or none: only a key is forgotten) are refused, fail or are cut off;
\* what took effect stays.
Fail(S) ==
    /\ \A r \in S : status[r] = "pending"
    /\ status' = [r \in Requests |-> IF r \in S THEN "failed" ELSE status[r]]
    /\ MayLapse
    /\ UNCHANGED <<key, effect, result>>

Next ==
    \/ \E r \in Requests : (\E k \in Keys : Submit(r, k)) \/ Perform(r) \/ Report(r)
    \/ \E S \in SUBSET Requests : Fail(S)

Spec == Init /\ [][Next]_vars
=============================================================================
