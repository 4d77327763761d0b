--------------------------- MODULE TicketCreation ---------------------------
(***************************************************************************)
(* POST /tickets: create_ticket and _execute of services/ticket.py over    *)
(* the IdempotencyStore of services/idempotency.py, the `tickets` table    *)
(* and the error mapping of api/routes/tickets.py.                         *)
(*                                                                         *)
(* A request makes one attempt; a client's retry is another request with   *)
(* the same key.  A request inserts at most one Ticket row, so the row,    *)
(* and the stored response that carries its id, are named after it.        *)
(* Every await is a step: the requests of the one event loop interleave    *)
(* there, and there Redis, PostgreSQL or the process may fail.             *)
(***************************************************************************)
EXTENDS Naturals, FiniteSets

CONSTANTS
    Requests,        \* HTTP requests, retries included
    Keys,            \* Idempotency-Key values clients use
    NoKey,           \* the header is absent
    NoTicket,        \* the answer carries no ticket
    Absent,          \* Redis holds nothing under the key
    InProgress,      \* _IN_PROGRESS_SENTINEL (a malformed record reads the same)
    MaxKeyLosses,    \* bound: a key's TTL runs out, or Redis loses the key
    MaxRedisFaults,  \* bound: a Redis command raises RedisError at its caller
    MaxCrashes,      \* bound: the server process dies and is restarted
    MaxLateFailures  \* bound: _execute raises after its Ticket row is committed

ASSUME StoreValues ==
    /\ Absent \notin Requests
    /\ InProgress \notin Requests
    /\ Absent # InProgress

ASSUME Markers == NoKey \notin Keys /\ NoTicket \notin Requests

ASSUME FiniteRequests == IsFiniteSet(Requests)

ASSUME Bounds ==
    /\ MaxKeyLosses \in Nat
    /\ MaxRedisFaults \in Nat
    /\ MaxCrashes \in Nat
    /\ MaxLateFailures \in Nat

VARIABLES
    store,           \* Redis: key -> Absent, InProgress or a stored response
    late,            \* Redis commands whose caller gave up, still to be applied
    customerExists,  \* PostgreSQL: the customer the payloads name
    tickets,         \* PostgreSQL: committed Ticket rows
    reqKey,          \* the request's Idempotency-Key
    pc,              \* where the request's handler stands
    code,            \* HTTP status of its answer (0: none yet)
    body,            \* ticket in its answer
    keyLosses, redisFaults, crashes, lateFailures

requestVars == <<reqKey, pc, code, body>>
faultVars == <<keyLosses, redisFaults, crashes, lateFailures>>
vars == <<store, late, customerExists, tickets, requestVars, faultVars>>

\* Inside _execute, or about to settle the claim that let it run.
Executing == {"check", "insert", "workflow", "complete", "release"}
Active == {"claim", "get"} \cup Executing
PC == {"idle", "done", "lost"} \cup Active
RedisOps == {"claim", "complete", "release"}

Init ==
    /\ store = [k \in Keys |-> Absent]
    /\ late = [r \in Requests |-> "none"]
    /\ customerExists \in BOOLEAN
    /\ tickets = {}
    /\ reqKey = [r \in Requests |-> NoKey]
    /\ pc = [r \in Requests |-> "idle"]
    /\ code = [r \in Requests |-> 0]
    /\ body = [r \in Requests |-> NoTicket]
    /\ keyLosses = 0 /\ redisFaults = 0 /\ crashes = 0 /\ lateFailures = 0

Goto(r, label) == pc' = [pc EXCEPT ![r] = label]

Answer(r, status, ticket) ==
    /\ Goto(r, "done")
    /\ code' = [code EXCEPT ![r] = status]
    /\ body' = [body EXCEPT ![r] = ticket]

\* Mutant of Applied: SET without NX.
AppliedWithoutNX(op, r) ==
    [store EXCEPT ![reqKey[r]] =
        IF op = "claim" THEN InProgress ELSE IF op = "complete" THEN r ELSE Absent]

\* Mutant of Applied: complete forgets the response.
AppliedForgetting(op, r) ==
    [store EXCEPT ![reqKey[r]] =
        IF op = "claim" THEN IF @ = Absent THEN InProgress ELSE @ ELSE Absent]

(***************************************************************************)
(* The store's commands.  Applied gives the store once Redis has executed  *)
(* op for r: SET NX, an unconditional SET, an unconditional DEL.           *)
(***************************************************************************)
Applied(op, r) ==
    [store EXCEPT ![reqKey[r]] =
        IF op = "claim" THEN IF @ = Absent THEN InProgress ELSE @
        ELSE IF op = "complete" THEN r ELSE Absent]

\* RedisError at the caller: the command was never sent, was executed and only
\* its reply is missing, or outlives the caller's 0.5 s timeout in Redis' buffer.
CommandFails(op, r) ==
    /\ redisFaults < MaxRedisFaults
    /\ redisFaults' = redisFaults + 1
    /\ \/ UNCHANGED <<store, late>>
       \/ store' = Applied(op, r) /\ UNCHANGED late
       \/ late' = [late EXCEPT ![r] = op] /\ UNCHANGED store
    /\ UNCHANGED <<keyLosses, crashes, lateFailures>>

-----------------------------------------------------------------------------
(* create_ticket and claim_or_get_existing *)

Receive(r) ==
    /\ pc[r] = "idle"
    /\ \E k \in Keys \cup {NoKey} :
          /\ reqKey' = [reqKey EXCEPT ![r] = k]
          /\ Goto(r, IF k = NoKey THEN "check" ELSE "claim")
    /\ UNCHANGED <<store, late, customerExists, tickets, code, body, faultVars>>

\* SET NX EX: the claim is granted to r, or r goes on to read who has it.
Claim(r) ==
    /\ pc[r] = "claim"
    /\ store' = Applied("claim", r)
    /\ Goto(r, IF store[reqKey[r]] = Absent THEN "check" ELSE "get")
    /\ UNCHANGED <<late, customerExists, tickets, reqKey, code, body, faultVars>>

\* Mutant of ClaimFails: it fails open.
ClaimFailsOpen(r) ==
    /\ pc[r] = "claim"
    /\ CommandFails("claim", r)
    /\ Goto(r, "check")
    /\ UNCHANGED <<customerExists, tickets, reqKey, code, body>>

ClaimFails(r) ==
    /\ pc[r] = "claim"
    /\ CommandFails("claim", r)
    /\ Answer(r, 503, NoTicket)
    /\ UNCHANGED <<customerExists, tickets, reqKey>>

\* Mutant of GetExisting: a key that has just vanished is not recognised.
GetExistingUnchecked(r) ==
    /\ pc[r] = "get"
    /\ LET raw == store[reqKey[r]] IN
          IF raw = InProgress THEN Answer(r, 409, NoTicket) ELSE Answer(r, 200, raw)
    /\ UNCHANGED <<store, late, customerExists, tickets, reqKey, faultVars>>

\* Mutant of GetExisting: a refused request releases the key as well.
GetExistingReleasing(r) ==
    /\ pc[r] = "get"
    /\ store' = Applied("release", r)
    /\ Answer(r, 409, NoTicket)
    /\ UNCHANGED <<late, customerExists, tickets, reqKey, faultVars>>

\* A response is replayed; the sentinel, or nothing at all, is 409.
GetExisting(r) ==
    /\ pc[r] = "get"
    /\ LET raw == store[reqKey[r]] IN
          IF raw \in {Absent, InProgress} THEN Answer(r, 409, NoTicket)
                                          ELSE Answer(r, 200, raw)
    /\ UNCHANGED <<store, late, customerExists, tickets, reqKey, faultVars>>

GetFails(r) ==
    /\ pc[r] = "get"
    /\ redisFaults < MaxRedisFaults
    /\ redisFaults' = redisFaults + 1
    /\ Answer(r, 503, NoTicket)
    /\ UNCHANGED <<store, late, customerExists, tickets, reqKey, keyLosses,
                   crashes, lateFailures>>

-----------------------------------------------------------------------------
(* _execute *)

\* Mutant of Raise: the claim is not released.
RaiseKeepingClaim(r, status) == Answer(r, status, NoTicket)

\* An exception leaves _execute: with a key the claim is released first.
Raise(r, status) ==
    IF reqKey[r] = NoKey
    THEN Answer(r, status, NoTicket)
    ELSE /\ Goto(r, "release")
         /\ code' = [code EXCEPT ![r] = status]
         /\ UNCHANGED body

CheckCustomer(r) ==
    /\ pc[r] = "check"
    /\ IF customerExists THEN Goto(r, "insert") /\ UNCHANGED <<code, body>>
                         ELSE Raise(r, 404)
    /\ UNCHANGED <<store, late, customerExists, tickets, reqKey, faultVars>>

\* Mutant of InsertTicket: no foreign key holds back the row.
InsertTicketUnchecked(r) ==
    /\ pc[r] = "insert"
    /\ tickets' = tickets \cup {r}
    /\ IF customerExists THEN Goto(r, "workflow") /\ UNCHANGED <<code, body>>
                         ELSE Raise(r, 404)
    /\ UNCHANGED <<store, late, customerExists, reqKey, faultVars>>

\* INSERT and COMMIT; a customer removed since the check is an IntegrityError.
InsertTicket(r) ==
    /\ pc[r] = "insert"
    /\ IF customerExists
       THEN /\ tickets' = tickets \cup {r}
            /\ Goto(r, "workflow")
            /\ UNCHANGED <<code, body>>
       ELSE Raise(r, 404) /\ UNCHANGED tickets
    /\ UNCHANGED <<store, late, customerExists, reqKey, faultVars>>

RunWorkflow(r) ==
    /\ pc[r] = "workflow"
    /\ IF reqKey[r] = NoKey THEN Answer(r, 201, r)
                            ELSE Goto(r, "complete") /\ UNCHANGED <<code, body>>
    /\ UNCHANGED <<store, late, customerExists, tickets, reqKey, faultVars>>

\* Any exception before the row is committed: PostgreSQL is unreachable, ...
FailsBeforeCommit(r) ==
    /\ pc[r] \in {"check", "insert"}
    /\ Raise(r, 500)
    /\ UNCHANGED <<store, late, customerExists, tickets, reqKey, faultVars>>

\* The workflow raises, or COMMIT took effect but its reply was lost.
FailsAfterCommit(r) ==
    /\ \/ pc[r] = "workflow"
       \/ pc[r] = "insert" /\ customerExists
    /\ lateFailures < MaxLateFailures
    /\ lateFailures' = lateFailures + 1
    /\ tickets' = tickets \cup {r}
    /\ Raise(r, 500)
    /\ UNCHANGED <<store, late, customerExists, reqKey, keyLosses, redisFaults, crashes>>

-----------------------------------------------------------------------------
(* complete and release *)

Complete(r) ==
    /\ pc[r] = "complete"
    /\ store' = Applied("complete", r)
    /\ Answer(r, 201, r)
    /\ UNCHANGED <<late, customerExists, tickets, reqKey, faultVars>>

\* IdempotencyBackendUnavailable leaves create_ticket outside its try block.
CompleteFails(r) ==
    /\ pc[r] = "complete"
    /\ CommandFails("complete", r)
    /\ Answer(r, 503, NoTicket)
    /\ UNCHANGED <<customerExists, tickets, reqKey>>

Release(r) ==
    /\ pc[r] = "release"
    /\ store' = Applied("release", r)
    /\ Goto(r, "done")
    /\ UNCHANGED <<late, customerExists, tickets, reqKey, code, body, faultVars>>

\* The RedisError is swallowed; the original exception goes on.
ReleaseFails(r) ==
    /\ pc[r] = "release"
    /\ CommandFails("release", r)
    /\ Goto(r, "done")
    /\ UNCHANGED <<customerExists, tickets, reqKey, code, body>>

-----------------------------------------------------------------------------
(* The environment *)

\* Redis gets to a command whose caller has already timed out.
ApplyLate(r) ==
    /\ late[r] # "none"
    /\ store' = Applied(late[r], r)
    /\ late' = [late EXCEPT ![r] = "none"]
    /\ UNCHANGED <<customerExists, tickets, requestVars, faultVars>>

\* The TTL set by claim or complete runs out, or Redis restarts without the key.
LoseKey(k) ==
    /\ store[k] # Absent
    /\ keyLosses < MaxKeyLosses
    /\ keyLosses' = keyLosses + 1
    /\ store' = [store EXCEPT ![k] = Absent]
    /\ UNCHANGED <<late, customerExists, tickets, requestVars, redisFaults,
                   crashes, lateFailures>>

\* ON DELETE RESTRICT: a customer with tickets stays.
RemoveCustomer ==
    /\ customerExists /\ tickets = {}
    /\ customerExists' = FALSE
    /\ UNCHANGED <<store, late, tickets, requestVars, faultVars>>

\* The process dies with every request in it; Redis and PostgreSQL live on.
Crash ==
    /\ crashes < MaxCrashes
    /\ \E r \in Requests : pc[r] \in Active
    /\ crashes' = crashes + 1
    /\ pc' = [r \in Requests |-> IF pc[r] \in Active THEN "lost" ELSE pc[r]]
    /\ UNCHANGED <<store, late, customerExists, tickets, reqKey, code, body,
                   keyLosses, redisFaults, lateFailures>>

\* One step of r's handler.
Handle(r) ==
    \/ Claim(r) \/ ClaimFails(r) \/ GetExisting(r) \/ GetFails(r)
    \/ CheckCustomer(r) \/ InsertTicket(r) \/ RunWorkflow(r)
    \/ FailsBeforeCommit(r) \/ FailsAfterCommit(r)
    \/ Complete(r) \/ CompleteFails(r) \/ Release(r) \/ ReleaseFails(r)

Environment ==
    \/ \E r \in Requests : ApplyLate(r)
    \/ \E k \in Keys : LoseKey(k)
    \/ RemoveCustomer
    \/ Crash

Next == (\E r \in Requests : Receive(r) \/ Handle(r)) \/ Environment

Spec == Init /\ [][Next]_vars

\* The event loop resumes every handler: Redis calls time out after 0.5 s, the
\* model after 30 s, and PostgreSQL is assumed to answer or to fail.
FairSpec == Spec /\ \A r \in Requests : WF_vars(Handle(r))

-----------------------------------------------------------------------------
(* Properties *)

TypeOK ==
    /\ store \in [Keys -> Requests \cup {Absent, InProgress}]
    /\ late \in [Requests -> RedisOps \cup {"none"}]
    /\ customerExists \in BOOLEAN
    /\ tickets \subseteq Requests
    /\ reqKey \in [Requests -> Keys \cup {NoKey}]
    /\ pc \in [Requests -> PC]
    /\ code \in [Requests -> {0, 200, 201, 404, 409, 500, 503}]
    /\ body \in [Requests -> Requests \cup {NoTicket}]
    /\ keyLosses \in 0..MaxKeyLosses
    /\ redisFaults \in 0..MaxRedisFaults
    /\ crashes \in 0..MaxCrashes
    /\ lateFailures \in 0..MaxLateFailures

TicketsOf(k) == {t \in tickets : reqKey[t] = k}
Succeeded(r) == pc[r] = "done" /\ code[r] \in {200, 201}

\* claim_or_get_existing admits one request per key to _execute: as long as no
\* claim has been lost, two handlers never run under one key -- whatever Redis
\* commands fail, arrive late, or are cut off by a crash.
ExclusiveExecution ==
    keyLosses = 0 =>
        \A r1, r2 \in Requests :
            (pc[r1] \in Executing /\ pc[r2] \in Executing
                /\ reqKey[r1] = reqKey[r2] /\ reqKey[r1] \in Keys) => r1 = r2

\* A response is stored, and an answer carries a ticket, only once that ticket's
\* own request, with the same key, has committed it and run its workflow.
AnswersAreReal ==
    /\ \A k \in Keys : store[k] \in Requests => store[k] \in TicketsOf(k)
    /\ \A r \in Requests : Succeeded(r) =>
          /\ body[r] \in tickets
          /\ reqKey[body[r]] = reqKey[r]
          /\ pc[body[r]] \in {"done", "lost"}

\* "Every later request with the same key gets back the original response": two
\* successful answers under one key name the same ticket until the key is lost.
SameAnswerPerKey ==
    keyLosses = 0 =>
        \A r1, r2 \in Requests :
            (Succeeded(r1) /\ Succeeded(r2) /\ reqKey[r1] = reqKey[r2]
                /\ reqKey[r1] \in Keys) => body[r1] = body[r2]

\* A key has more than one ticket only through a lost key or an execution that
\* failed after its commit, and each of those accounts for at most one of them,
\* also when a stale owner completes or releases a claim that is not its own.
DuplicatesAccounted ==
    \A k \in Keys : Cardinality(TicketsOf(k)) <= 1 + keyLosses + lateFailures

\* A client told 409 or 404 may safely retry: its request created nothing.
RefusalCreatesNothing ==
    \A r \in Requests : (pc[r] = "done" /\ code[r] \in {404, 409}) => r \notin tickets

\* Without a RedisError or a crash no claim is orphaned: the sentinel under a key
\* means that a handler is running, also when claims expire under their owners.
NoOrphanClaim ==
    (redisFaults = 0 /\ crashes = 0) =>
        \A k \in Keys : store[k] = InProgress =>
            \E r \in Requests : pc[r] \in Executing /\ reqKey[r] = k

\* README.md:132, "A retried POST /tickets must never create a second ticket".
NeverASecondTicket == \A k \in Keys : Cardinality(TicketsOf(k)) <= 1

\* Once a response is stored under a key only the loss of the key takes it away,
\* and no retry of the client is executed again: the first answer is final.
StoredResponseStays ==
    [][\A k \in Keys : (store[k] \in Requests /\ keyLosses = 0 /\ keyLosses' = 0)
          => store'[k] = store[k]]_vars

\* Every claim is settled -- by complete, by release, or by expiry -- so retries
\* are not blocked for the rest of the TTL, unless Redis or the process fails.
ClaimsAreSettled ==
    \A k \in Keys :
        store[k] = InProgress ~> (store[k] # InProgress \/ redisFaults > 0 \/ crashes > 0)

-----------------------------------------------------------------------------
(***************************************************************************)
(* The inductive invariant.  A request holds its key's claim from the      *)
(* grant until Redis has executed the command that settles it, so also     *)
(* while a late complete or release is under way.                          *)
(***************************************************************************)
Holds(r, k) ==
    /\ reqKey[r] = k
    /\ pc[r] \in Executing \/ late[r] \in {"complete", "release"}

\* What each place of the handler implies, by itself.
ControlInv ==
    \A r \in Requests :
        /\ pc[r] = "idle" => reqKey[r] = NoKey
        /\ pc[r] \in {"claim", "get", "complete", "release"} => reqKey[r] \in Keys
        /\ pc[r] \in {"idle", "claim", "get", "check", "insert"} => r \notin tickets
        /\ pc[r] \in {"workflow", "complete"} => r \in tickets
        /\ pc[r] = "release" => code[r] \in {404, 500}
        /\ pc[r] # "done" => body[r] = NoTicket
        /\ (pc[r] \in {"done", "release"} /\ code[r] \in {404, 409}) => r \notin tickets
        /\ late[r] # "none" => pc[r] = "done" /\ reqKey[r] \in Keys
        /\ late[r] = "complete" => r \in tickets
        /\ lateFailures = 0 =>
              /\ pc[r] = "release" => r \notin tickets
              /\ late[r] = "release" => r \notin tickets

\* A stored response, and one that was given, is that of a finished request.
ResponseInv ==
    /\ \A k \in Keys : store[k] \in Requests =>
          /\ store[k] \in TicketsOf(k)
          /\ pc[store[k]] = "done"
    /\ \A r \in Requests : Succeeded(r) =>
          /\ body[r] \in tickets
          /\ reqKey[body[r]] = reqKey[r]
          /\ pc[body[r]] = "done"

\* Without a lost key: one holder, under the sentinel; answers stay stored.
ClaimInv ==
    keyLosses = 0 =>
        /\ \A r1, r2 \in Requests, k \in Keys :
              Holds(r1, k) /\ Holds(r2, k) => r1 = r2
        /\ \A r \in Requests, k \in Keys : Holds(r, k) => store[k] = InProgress
        /\ \A r \in Requests :
              Succeeded(r) /\ reqKey[r] \in Keys => store[reqKey[r]] = body[r]

\* And without a late failure: a key with a ticket is never free again, and
\* only the ticket's own request may still hold it.
TicketInv ==
    (keyLosses = 0 /\ lateFailures = 0) =>
        \A k \in Keys : \A t \in TicketsOf(k) :
            /\ store[k] # Absent
            /\ \A u \in TicketsOf(k) : u = t
            /\ \A r \in Requests : Holds(r, k) => r = t

\* While neither Redis nor the process has failed the sentinel stands for a
\* running handler.
OrphanInv ==
    /\ redisFaults = 0 => \A r \in Requests : late[r] = "none"
    /\ (redisFaults = 0 /\ crashes = 0) =>
          \A k \in Keys : store[k] = InProgress =>
              \E r \in Requests : pc[r] \in Executing /\ reqKey[r] = k

(***************************************************************************)
(* The account behind DuplicatesAccounted: a key's tickets and the         *)
(* requests that may still add one, the releases that will free the key    *)
(* although a ticket exists, and whether the key is free, are paid for by  *)
(* the one ticket a key may have, its losses and the late failures.        *)
(***************************************************************************)
Open(k) ==
    {r \in Requests : /\ reqKey[r] = k
                      /\ r \in tickets \/ pc[r] \in Executing \/ late[r] = "release"}

Doomed(k) ==
    {r \in Requests : /\ reqKey[r] = k
                      /\ r \in tickets /\ (pc[r] = "release" \/ late[r] = "release")}

Free(k) == IF store[k] = Absent THEN 1 ELSE 0

Account(k) ==
    Cardinality(Open(k)) + Cardinality(Doomed(k)) + Free(k)
        <= 1 + keyLosses + lateFailures

AccountInv == \A k \in Keys : Account(k)

IInv ==
    /\ TypeOK /\ ControlInv /\ ResponseInv /\ ClaimInv /\ TicketInv
    /\ OrphanInv /\ AccountInv

=============================================================================
