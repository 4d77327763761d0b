# A TLA+ verification of SupportOps AI

SupportOps AI takes customer tickets over HTTP, runs each one through a LangGraph workflow
(classify, choose an agent, draft a reply, apply the policy rules), and puts the drafts a human must
see into a supervisor queue. PostgreSQL holds the business data; Redis holds what may be lost
(idempotency records, caches, checkpoints, rate limits). This directory models the parts of it whose
correctness depends on the order in which things happen and on which of them fail, checks the models
with TLC on small instances and proves their main properties with TLAPS for instances of any size.

Paths below are relative to `backend/` unless they start with `alembic/`, `docs/`, `README.md`,
`tests/`.

## 1. Inventory

| Component | State it keeps | Operations | Hard behaviours | What makes it correct |
| --- | --- | --- | --- | --- |
| Ticket creation, idempotency (`services/ticket.py`, `services/idempotency.py`, `api/routes/tickets.py`) | Redis record per `Idempotency-Key` (absent, in-progress sentinel, stored response); `tickets` rows | `claim_or_get_existing`, `_execute`, `complete`, `release`, the mapping of exceptions to 201/200/404/409/500/503 | concurrent retries, a Redis command that fails after it took effect or takes effect late, TTL expiry under a running request, crash between claim and complete, failure after the commit | at most one effect per key, replays give the original answer, a claim is always settled |
| Supervisor queue (`api/supervisor.py`, `database/repositories/approval_request.py`) | one `approval_requests` row per ticket, ORM objects of open sessions | create, list, view, approve, edit, reject | overlapping read-modify-write transactions without locks or versions, column-wise UPDATE | no lost edit, no resurrected item, decisions are recorded as made |
| Audit log (`services/audit.py`) | `audit_logs` rows | `log_audit_event` in a transaction of its own after the action's commit | its failure is swallowed, crash between the two commits | never a false or double row, missing rows have a cause |
| Support workflow (`graph/workflow.py`, `graph/nodes.py`, `graph/state.py`) | `WorkflowState` per ticket | six nodes in sequence | every external call may fail and has its own fallback | a draft that needs a human gets to one |
| Classification (`graph/classifier.py`) | cache entry per normalised text | cache read, model call, cache write | fallback categories, a client that cannot be built | only verdicts of the model are cached |
| Agents (`agents/`) | none | `respond` | unstructured output, failures, timeouts | unsureness is reported, never lost |
| Knowledge base (`tools/knowledge_base.py`, `database/repositories/knowledge_article.py`) | cache entry per category and query | cached search, ranking | outages, keys of the cache | the context comes from the ticket's own category |
| Checkpoints (`graph/checkpoint.py`) | last completed stage per ticket | `save`, `get_latest` (no caller) | failed saves, crashes | best effort; nothing resumes from one |
| Cache (`core/cache.py`) | Redis entries with TTL | `get`, `set` | failures are misses and no-ops | part of the two rows above |
| Policy (`policy/rules.py`) | none | `evaluate_policy` | thresholds | exactly the documented signals escalate; a wrong comparison at a threshold changes no outcome |
| Sync/async bridge (`core/asyncio_utils.py`) | the background loop, its lock | `get`, `run_sync` | first calls racing from several threads, a loop waiting for itself | one loop, nobody blocks it |
| Loop-scoped clients (`core/redis_client.py`, `database/session.py`) | client or engine per event loop | look up, build | two loops build at once | a client never leaves its loop |
| Rate limiting (`core/rate_limit.py`, `auth/rate_limit_key.py`) | counters, kept by slowapi in Redis or in memory | resolve the key of a call, count it | the token expires between authorisation and counting | a user's budget is used up by that user only |
| Authentication (`auth/`, `core/security.py`) | `users` rows, tokens | login, verify, load the user, role checks | a token outlives its user's role, activity or row | rights are those of the user now, not of the token |
| Customers, health (`api/routes/`) | none | reads | | |
| Schema (`alembic/`, `database/models/`) | tables, columns, `alembic_version` | upgrade, downgrade, one transaction per command | two commands at once, failures between revisions, a downgrade that meets data, tables locked one statement after the other and shared with running seeds | schema and version agree, no review item is migrated away, commands that wait for each other end |
| Seeding (`scripts/seed.py`) | demo rows | two idempotency checks, four groups of inserts, one transaction | two runs at once, failure between flushes, backfill of an older deployment | fixtures whole and once |
| Assembly (`main.py`, `config/`, `core/logging.py`), scripts, deployment | | | | |

How they interact: the endpoint `POST /tickets` calls `create_ticket` on FastAPI's event loop;
`create_ticket` claims the key, inserts the row and runs the workflow in a worker thread
(`asyncio.to_thread`); the nodes of the workflow call coroutines through `run_sync` on the one
background loop, which reaches Redis and PostgreSQL with clients of its own; the last node inserts
the review item that the supervisor endpoints later read and change; the endpoints and the last node
write audit rows.

`PROJECT.json` lists each component with its status, and under `hazards` every place found in this
code where an order, a failure or a boundary could go wrong, with the properties that watch it.

## 2. Modules

| Module | Models | Extended by |
| --- | --- | --- |
| `AtMostOnce` | abstract: what an idempotent operation promises its clients | `TicketRefinement` (INSTANCE) |
| `TicketCreation` | `create_ticket`, `_execute`, `IdempotencyStore`, the endpoint's answers | `TicketRefinement`, `SupportOps` |
| `TicketRefinement` | the refinement mapping to `AtMostOnce` | `TicketCreation_proofs`, `MCTicketCreation` |
| `ReviewItem` | abstract: what the queue promises about one review item | `QueueRefinement` (INSTANCE) |
| `ApprovalQueue` | one review item, its supervisor calls and audit rows | `QueueRefinement` |
| `QueueRefinement` | the refinement mapping to `ReviewItem` | `ApprovalQueue_proofs`, `MCApprovalQueue` |
| `PolicyRules` | `evaluate_policy`, pure operators | `SupportWorkflow` |
| `SupportWorkflow` | the nodes, classification, retrieval, caches, checkpoints, enqueueing | `WorkflowRefinement`; `SupportOps` (INSTANCE) |
| `SupportOps` | `POST /tickets` from end to end: a request and the workflow it waits for | `SupportOps_proofs`, `MCSupportOps` |
| `WorkflowContract` | abstract: what the workflow promises about each ticket | `WorkflowRefinement` (INSTANCE) |
| `WorkflowRefinement` | the refinement mapping to `WorkflowContract` | `SupportWorkflow_proofs`, `MCSupportWorkflow` |
| `RunSyncBridge` | `run_sync`, `_LazyBackgroundLoop`, loop-scoped clients | `RunSyncBridge_proofs`, `MCRunSyncBridge` |
| `SeedData` | the seeded rows, by the references among them | `Deployment` |
| `Deployment` | Alembic commands, seed runs, and the application meanwhile | `Deployment_proofs` |
| `Access` | login, tokens, authorisation, the key of the rate limit | `Access_proofs`, `MCAccess` |

The `MC` modules add what only TLC needs (symmetry sets, a view, the contents of the sample texts).
Operators commented "Mutant of X" are X with a plausible bug; no specification uses them. Each
property has one that breaks it, which shows that the property depends on the code and not on the
shape of the model.

### TicketCreation

A request is one attempt of a client, and a retry is another request with the same key. It inserts
at most one row, so rows and stored responses are named after their request. `pc[r]` is the `await`
at which the handler stands: `claim` and `get` are the two commands of `claim_or_get_existing`,
`check`, `insert` and `workflow` the stages of `_execute`, `complete` and `release` the command that
settles the claim. The code and body of the answer are those of `create_ticket_endpoint`: 201 for a
new ticket, 200 for a replay.

The promise, `AtMostOnce`, knows *lapses*: a key that is forgotten, or an execution that is reported
failed although it took effect. Each excuses one more effect. `TicketRefinement` maps lost keys and
failures after the commit to lapses, so the refinement holds under any faults, and where there are
none of these two it is the promise of the documentation, at most one ticket per key.

Faults. A Redis command that raises at its caller (`CommandFails`) was either never executed, or
executed with its reply lost, or is still in Redis' input buffer when the 0.5 s timeout fires and is
executed later (`late`, `ApplyLate`). A key disappears when its TTL runs out or Redis loses it
(`LoseKey`), also under a running request. `FailsAfterCommit` is any exception after the row's
commit: the workflow raises (see `ClassificationNeverRaises` below for one way), or the reply to
COMMIT is lost. `Crash` kills every handler; Redis and PostgreSQL keep what they have.

### ApprovalQueue

A handler loads the row into an ORM object and assigns to it without yielding (`Load`), flushes
(`Flush`: the UPDATE names only the columns whose value differs from what was loaded, and waits for
the row lock), commits, and then writes its audit row in another transaction (`AuditAndAnswer`).
Under READ COMMITTED the UPDATE applies to the row as last committed, so `Written` merges the
changed columns into `row`. Review items of different tickets share no state, so one item is
modelled, with any number of calls on it. `decidedAt` is represented by the deciding call, because
two calls never have the same time.

Faults. A statement or a COMMIT raises (`Fails`): the transaction is rolled back, or PostgreSQL
carried the COMMIT out and only its reply was lost, and then the change stays although the client is
told 500 and no audit row is written. `CreatePending` has the same two outcomes in the workflow. A
failed audit write is swallowed, and a crash cuts off every call under way (`lost`).

### ReviewItem and QueueRefinement

The promise has no rows, locks, columns or failures of PostgreSQL: a call looks at the item, a
decision or an edit then takes effect in one step or not at all, and the log tells of calls that
took effect, of each at most once; it may miss one, and a change may take effect without its caller
ever being told (`Changes`). What a decision or an edit leaves behind is said as a function of the
item at that moment: an edit replaces the draft only, and a decision everything but the draft.
`MayStay` is the one concession, the columns of a decision that another one, made without having
seen it, may leave in place: none if there is no such decision, the comment if the second supervisor
looked at a pending item, and each of status, reviewer and comment if a decided item is decided
again. The mapping puts the effect into the COMMIT, whether its reply arrives (`Commit`) or not
(`SessionFails`); `Flush`, the lock and what was computed at `Load` disappear.

### SupportWorkflow and PolicyRules

One `pc` per ticket over the calls of the six nodes that reach Redis, PostgreSQL or the model; code
in between is part of the step. A text is a model value with `Content`, what the policy rules find
in it; the properties never need its letters. `verdicts` is a history variable: what the model ever
answered for a text. Every cache access, checkpoint, model call, search and enqueueing has its
failing outcome with the fallback of the code. `BuildAgentRaises` is what the fallbacks do not
cover: the agent, its task and its crew are built outside the `try` of `respond` (agents/base.py:88,
111), so an exception there leaves the graph, before the search or after it. `PolicyRules` keeps the
thresholds as numbers in cents and percent.

### RunSyncBridge

Worker threads, handlers on FastAPI's loop and coroutines of the bridge itself call `run_sync`; the
steps of `get` are separated at each read or write of the shared attribute, so all interleavings of
the double-checked start are explored. A coroutine runs on its loop (`busy`) from one await to the
next, looks its client up and builds it if there is none. A caller on a loop blocks that loop until
`run_sync` returns. Handlers that call `run_sync` directly do not exist in the application today;
the docstring of `run_sync` forbids only callers on the background loop, so the others are modelled
as callers too. The table of session factories has the same shape as that of Redis clients, with the
same code, and is not repeated.

### SupportOps

`TicketCreation` has the workflow as one step that returns or raises, `SupportWorkflow` has tickets
that come from nowhere. `SupportOps` has the request and its workflow as the code joins them:
`_execute` hands the committed ticket to a thread that runs the graph and waits for it
(`StartWorkflow`), the workflow's nodes run while the handler stands at `workflow`, and the handler
goes on when the thread has ended with a final state (`WorkflowReturns`) or with an exception
(`ExecutionFails`). The process dies with its handlers and its threads (`ProcessDies`). Every other
step is one component's alone. A ticket's workflow is named after its row, so the two share
`Requests` and nothing else.

### WorkflowContract and WorkflowRefinement

The promise about a ticket has five stages and no caches, models or policies: a draft is made, it
needs a review or is clear, and a draft that needs one is handed over to the queue or the failure is
logged. The mapping `StageOf` decides "needs a review" when `Generate` has run, before the policy
looks at the text: so `EvaluatePolicy`, `Persist` and `Enqueue` must all keep what was settled, and
a policy that forgets a signal is a step the contract does not have.

### Deployment and SeedData

One database, changed by three kinds of actors. An `alembic` command runs all its revisions in one
transaction (`alembic/env.py` gives one connection and one `begin_transaction`). `version` is where
the revision graph stands, `catalog` what the schema has, so that the two can disagree. A revision's
statements lock their tables one after the other (`UpOrder`, `DownOrder`): `Statement` is what a
revision does up to the next table, with its preconditions (a CREATE needs its name free, `SET NOT
NULL` needs no NULL), `ApplyRevision` the update of the version row, which must still say what the
command found, and `CommitMigration` makes all revisions visible together. The downgrade of the
baseline is the exception: it drops its tables `IF EXISTS`, so after another command has dropped
them it locks and waits for nothing (`DropNothing`) and comes to the version row at once
(`DeleteVersion`).

A seed run is `seed()` step by step; `rows` names the runs whose rows a table holds. `wrote` and
`ReadBy` give the locks a run holds against migrations, `LockedBy` those of a migration against
everybody. `Blockers(c)` are the commands that command `c` waits for; a step is enabled when there
are none. A command that waits, through others, for itself is `OnCycle`, and PostgreSQL fails one
such command (`DeadlockDetected`). Statements of the application hold their locks for one step only
and are in no circle. The order in which PostgreSQL serves those that wait for one table is left
open: any of them may be next.

`Init` is an empty database or one at the first revision, perhaps with the fixtures of an earlier
seed: the deployment that the backfill of articles is written for. The application enqueues drafts
(`create_pending` names columns that the second revision adds), decides them (`decided_at` needs the
third) and searches through the cache: `Query` is a search that the cache does not answer, up to
what it read in the table, and `Store` the attempt to cache that. `SeedData` has the seeded rows
themselves, with their references and categories.

### Access

Each call goes through what FastAPI does with it: `ReceiveLogin` or `ReceiveCall` (the token is
decoded), `LoadUser` (`get_current_user`, `get_current_active_user` and the check of `require_role`,
on one row), `Limit` (the decorated endpoint resolves the key, decoding the token again, and may
refuse), then `LookUp` for a login or `Handle`. Between any two of these steps tokens expire and
operators change, deactivate or remove users. `was` is a history variable: whether the token was
good on arrival and whether the user had the route's rights at any moment of the call. It allows
rights that ended while the call was under way, which the code cannot exclude, and nothing else.

## 3. Runs

| Run | Instance | Question | Result |
| --- | --- | --- | --- |
| `ticket_faults` | 4 requests, 2 keys or none, 1 lost key, 2 Redis faults, 1 crash, 1 late failure | what idempotency still guarantees when everything goes wrong at once; does `create_ticket` implement `AtMostOnce` with its lapses | holds, 1.2 million states |
| `support_ops` | 2 requests, 1 key, 1 lost key, 1 Redis fault, 1 crash, 2 late failures, workflows with 1 text and 1 category; fair | is everybody who is told of a ticket told of a triaged one, do retries cost review items, is a ticket reported as failed on a human's desk, is every claim settled | holds, 617 thousand states |
| `ticket_duplicate` | 2 requests, 1 late failure, nothing else | README.md:132, a retry "must never create a second ticket" | violated |
| `queue` | 2 calls, 2 supervisors, 1 failed audit, 1 failure of PostgreSQL, 1 crash; fair | overlapping supervisors: lost edits, torn decisions, audit; do the endpoints implement `ReviewItem`; do all calls end although they share a row lock | holds, 140 thousand states |
| `queue_torn_decision` | 3 calls, no faults | is a decision recorded as it was made | violated |
| `queue_edit_after_decision` | 2 calls, no faults | are edits made only before a decision | violated |
| `bridge` | 3 calls, 2 possible background loops; fair | one loop, no shared client, calls that never all wait for each other, every call returns | holds |
| `workflow` | 1 ticket, 2 texts, 2 categories, any contents of the caches; fair | who ends in the queue, what the caches hold, does the workflow implement `WorkflowContract` | holds, 1.2 million states |
| `workflow_no_key` | 1 ticket | classifier.py:87, classification "never raises" | violated |
| `deployment` | 2 Alembic commands, 2 seed runs and an earlier one, 1 draft, 1 search; fair | do schema and version agree, are fixtures whole and once, do reviews survive migrations, is whoever waits in a circle or waiting for someone who goes on, do all commands end, are new articles found | holds, 389 thousand states |
| `seed_race` | 1 Alembic command, 2 seed runs | seed.py:13, a race of two runs makes no "duplicate rows" | violated |
| `access` | 3 calls, 2 users | with whose rights a call succeeds | holds, 2.1 million states |

Deadlock checking is on in `deployment`, where searches come again and again. It is off in every
other configuration: the number of requests, calls and tickets is finite and a run ends when all of
them are done. Absence of unwanted stopping is what the liveness properties say.

Why the bounds suffice. *Ticket creation*: a violation needs an owner of the key, a second request
that gets in, and one that observes; with one fault each to lose a reply, delay a command and expire
a claim. Four requests let two of them be on another key or keyless. The account of duplicates is
exercised with a loss and a late failure together, and the proofs cover all other sizes. *End to
end*: two requests are one that fails, crashes or loses its key and one that retries; a failure
after the commit is allowed for each of them, because a workflow that has raised must be able to end
its request. One text and one category are enough: which agent answers is the workflow's own affair,
and its unsureness alone decides here whether a human must see the draft. The run's `VIEW Essential`
leaves out two histories that no step reads (`checkpoint`, `verdicts`) and the variables that a
workflow's place determines when there is one text and one category; every step changes something
that is left. *Queue*: what one call can do to another takes two of them; a third only extends the
sequence of commits, for which the theorems of `ApprovalQueue_proofs` hold at any length. The bounds
on failures are per kind, so that all kinds meet in one run. *Bridge*: three calls give two threads
in the race plus a nested one, two loops give the race something to create twice. *Workflow*:
tickets interact only through the caches, and `Init` starts from every content that other tickets
can have left there; the theorems cover several tickets at once, and `support_ops` runs two. Two
categories are enough to confuse one with another; the amounts are those at and just above the
refund threshold. *Deployment*: two commands race for the version row, two seed runs for the admin
and the articles, and one of each makes a deadlock (in this run every circle is such a pair; longer
ones need more commands); a second draft or search would meet the same tables. *Access*: a token
needs a call that issues it and one that uses it, and a third call may be another user's or a later
one of the same.

Fairness is weak fairness of each request's, call's or workflow's own steps, never of arrivals or of
faults. It is justified so: the event loop resumes every coroutine whose await is over; Redis
clients have 0.5 s socket timeouts (`core/redis_client.py`) and the model a timeout of 30 s; worker
threads are scheduled by the operating system; PostgreSQL is assumed to answer or to drop the
connection (there is no statement timeout in the code, so this one is an assumption), and to grant a
free row lock. In the queue and the bridge a step that waits for a lock is enabled only while the
lock is free; every owner holds it for a few steps and each of a finite number of calls takes it
once, so weak fairness is enough. In `Deployment` fairness is on `Proceed`: as long as some command
can take its next step or waits in a circle, some command takes one or PostgreSQL fails one in a
circle. It excludes every other failure (`MigrationFails` and `SeedFails` are disjuncts of `Next`
only), so a command that waits for a lock is not made to fail by fairness, and without the detection
`CommandsEnd` does not hold. It also covers what a search has read and must store (`Store`) and the
expiry of cache entries, all of which are set with a TTL (`core/cache.py`). Review items, new
commands and new searches are never owed. `FairSystem` asks of each request that has arrived that
it, its workflow included, takes its next step: `ClaimsAreSettled` then follows because every
workflow ends, where `TicketCreation` by itself could only assume it.

### What the violated runs show

* `ticket_duplicate`: `create_ticket` releases the key on any exception of `_execute`, also after
  the ticket's commit. The client gets a 500, retries with the same key, and a second ticket is
  created. `DuplicatesAccounted` says that nothing but this and a lost key can do it, and that each
  such event costs at most one duplicate.
* `workflow_no_key`: the OpenAI client is built outside the `try` block of `classify_ticket` and its
  constructor raises without a key, so the function that "never raises" does, and by the previous
  point the key is released after the commit. With the default settings (empty key) every keyed
  retry then adds a ticket.
* `queue_torn_decision`: of two overlapping decisions, the row can end with the status, reviewer and
  time of one and the comment of the other, because NULL over NULL is not a changed column.
  `SerialDecisionsAreWhole` and `FirstDecisionsAgree` bound the damage: decisions that do not
  overlap are whole, and first decisions are torn only in the comment.
* `queue_edit_after_decision`: no handler looks at the status, so the draft of an approved item can
  be replaced.
* `seed_race`: the docstring of `seed.py` relies on the unique email of the admin, which protects
  only runs that insert users. In a deployment that has users but no articles yet, two runs both
  find the table of articles empty and both fill it. `ArticlesDoubledOnlyByRace` says that this
  takes two runs under way together, and `FixturesOnce` that nothing else is ever doubled.

Four smaller disagreements are left without a run of their own. When a Redis command fails, the
in-progress sentinel can stay behind although no request executes (idempotency.py:60 says that it
means "another request is still executing"), and the key then answers 409 until its TTL;
`NoOrphanClaim` states the case without failures. When the audit write fails the action has no audit
row (README.md:116 says every action writes one); `MissingAuditIsAccounted` is what holds. When the
review item cannot be written, the fallback reply still tells the customer that it "has been queued
for a human" (agents/base.py:40); `EscalationHonoured` says that it is then at least logged. And
`respond` "Never raises" (agents/base.py:108), although its task and crew are built before its
`try`; what follows is what follows from `workflow_no_key`.

## 4. Proofs

TLAPS proves the following for every finite set of requests and keys and any bounds on faults, for
any set of calls and loops, for any tickets, texts and contents, for any number of supervisor calls,
Alembic commands, seed runs, logins and users. The only assumptions are the `ASSUME`s of the
modules: markers differ from real values, `Requests` is finite, bounds are naturals, contents are
texts as the policy sees them, and a background loop can be started (`BackgroundPossible`).

Every invariant that a passing run checks is also a theorem, and so is every refinement, one of them
without its fairness. Some theorems state properties that no run checks: `AnswersAreReal`,
`BridgeNeverBlocked`, `AnswersAreCurrent`, `DecidedLeavesQueue` and `TallyIsHonest` follow from the
same inductive invariants as the others.

**TicketCreation_proofs.** The inductive invariant `IInv` adds to the type invariant:

* `ControlInv`, what each place of the handler implies (keyless requests never reach a Redis
  command, a request that was refused has no ticket, ...);
* `ResponseInv`, stored and given responses belong to finished requests with the same key;
* `ClaimInv`, while no key is lost: one request *holds* a key, under the sentinel. Holding extends
  beyond the handler, to a `complete` or `release` that is still on its way to Redis. This is why
  late commands do no harm: nobody can claim the key before they arrive;
* `TicketInv`, a key with a ticket is never free again unless a key is lost or an execution fails
  late;
* `OrphanInv`, and `AccountInv`: for each key, the tickets and the requests that may still insert
  one (`Open`), the releases under way although a ticket exists (`Doomed`), and 1 if the key is
  free, are together at most 1 + lost keys + late failures. Neither the number of tickets nor any
  part of that sum is inductive alone: a lost key frees the key first and is turned into a second
  executing request later.

Each part is proved on its own, with the earlier ones as hypotheses; the steps are one per action.
From it follow `ExclusiveExecution`, `AnswersAreReal`, `SameAnswerPerKey`, `RefusalCreatesNothing`,
`NoOrphanClaim`, `DuplicatesAccounted` and the action property `StoredResponseStays`.

`Refinement` proves `Spec => ImplementsAtMostOnce` for all bounds: `InsertTicket` and no other step
maps to `Perform`, answers map to `Report`, errors, crashes and lost keys to `Fail`. The guard of
`Perform`, that a key has no more effects than there were lapses, is the hard part: it is
`AccountInv` of the state before the insert, where the inserting request is itself in `Open`, so
that a place is left for its ticket (`RoomForTicket`). `SecondTicketNeedsALapse` reads off the case
without lapses: whatever Redis commands fail or come late and wherever the process dies, no key has
two tickets.

**SupportOps_proofs.** The system is a behaviour of each of its components
(`ImplementsTicketCreation`, `ImplementsSupportWorkflow`), so all that is proved of them holds of it
and only what a handler and its workflow say of each other is new. `EndToEndAtMostOnce` and
`EndToEndContract` are the two refinements for the system as a whole. The module has the workflow's
theorems by `INSTANCE SupportWorkflow_proofs` with the system's substitution; lemmas `Same...` show
definition by definition that this instance and the one the system is built from are the same.

* `LinkInv`: a workflow runs only under a handler that waits for it; a claim is completed, answered
  or replayed only for a workflow that has completed; a handler that gives its key back has a
  workflow that never started or that raised. With the workflow's own `OutcomeInv` (a completed
  workflow has queued or logged what a human must see) it gives `AnsweredMeansTriaged`.
* `ReviewAccountInv`: for each key, the requests that have a review item, are executing or have a
  release on its way, and 1 if the key is free, are at most 1 + lost keys. Late failures do not
  appear, in contrast to the account of tickets: a workflow that raises has not reached its last
  node, so the retry that it invites is the first to reach the queue. Hence `ReviewsAccounted`.
* `FailuresLeaveNoReview` puts the same from the client's side: a ticket whose client was told 500
  is in no queue and never gets there, since its workflow was not started or raised before it had a
  draft. It holds whichever step raised, the client of the classifier or the agent, because no node
  after the draft can.

**RunSyncBridge_proofs.** `IInv`: the lock's holder is the only one between `recheck` and `release`;
a loop is started only by it and only if there is none; a coroutine gets its home once; a blocked
caller has one pending call; a loop runs one coroutine and knows one client. From it
`OneBackgroundLoop`, `ClientsStayHome`, `BridgeNeverBlocked`. `BlockInv` says why whoever waits has
something to wait for: a loop that is not free executes a coroutine, or is FastAPI's and blocked by
a handler; and a coroutine that waits has made a call of its own. `NobodyDeadlocks` follows. A call
that cannot go on waits for the lock, whose holder goes on (`GettingGoesOn`), or for its coroutine
on the background loop. That coroutine runs or will, unless the loop is held by a coroutine that
waits for its own call; but that call would wait for the loop it blocks, which `BridgeNeverBlocked`
excludes.

**SupportWorkflow_proofs.** `ReviewIffSignal` (the policy asks for a human exactly for a keyword, a
confidence below the threshold or the agent's signal), then `IInv` and from it `EscalationHonoured`,
`CacheHoldsVerdicts` and `ContextIsGenuine`. The refund amount only adds a second reason to a text
that already has the keyword, which is why it does not appear in `NeedsHuman`. `RulesMonotone` says
that a text which says more, a lower confidence or an agent's signal never takes a matched rule
back. `Refinement` proves `Spec => KeepsWorkflowContract`: every step is one of the contract or a
stutter. `OutcomeInv` is what it needs: between the draft and the queue, `rules` is non-empty
exactly if the draft needs a human.

**ApprovalQueue_proofs.** The properties speak of the *last* commit of some kind; `IsLast` states
that without a recursive search, and a commit either becomes the last of its kind or leaves the last
where it was. `IInv` adds:

* `CallInv`: what a call has loaded where it stands, and its intent: an edit differs from what it
  loaded in the draft only, a decision never in the draft and with the status, reviewer and time of
  its own call in the others. So neither can disturb the other's columns;
* `RowInv`: the row's `decidedAt` names the last decision to commit, and a snapshot with the same
  `decidedAt` as the row agrees with it in all columns of a decision. This makes serial decisions
  whole: the columns that such a decision does not write have its values already;
* `AuditInv`, a call that is about to write its audit row has none yet and deserves one; and
  `MissingInv`: the calls that were answered after a commit and have no audit row are finitely many
  and no more than the failed writes, and the calls that were told 500 are finitely many and no more
  than the database failures, whichever of them had been committed. The finiteness is part of the
  invariant, so the set of calls itself may be infinite.

`AnswersAreCurrent` combines them for the answers, which are built from the session's object: it is
the row that the commit left, in every column, if the call had loaded what the last decision and the
last edit before it committed.

`Refinement` proves `Spec => ImplementsReviewItem`: every step is one of `ReviewItem`, with the
change in the commit, or leaves it unchanged. The two steps with something to show are a decision's
and an edit's commit. `DecisionTakesEffect` names the columns that are not the decision's own after
its commit and shows that `MayStay` allows each. A column stays only if the decision set it to the
value it had loaded. With the same `decidedAt` loaded and in the row, `RowInv` makes that value the
row's as well. Where a pending item was loaded it had no reviewer and another status, so both are
written. `EditTakesEffect` is the same for the draft: an edit to the very text that was loaded
writes nothing, and does not undo the edit that came in between.

**Deployment_proofs.** `MigrationInv`: no two commands hold the same table, what a command holds
between two revisions are tables of the next one, and while a command has uncommitted revisions the
version row is still what that command found, so the schema it commits is the one of the version it
writes (`Upwards`, `Downwards`: applying or taking back revisions leads from one schema to the
other). That it finds nothing else committed takes the locks: every revision locks
`approval_requests`, so only one command is ever busy (`OneBusy`), and one that has locked the names
of the baseline on its way up cannot be overtaken by a busy one, which holds them. The one exception
is in the invariant as well (`Astray`). If a command that takes the baseline back finds it gone, it
locks nothing; if two others have dropped and restored the baseline since it began, the version row
says again what it found, and it deletes the row and leaves the tables. `SchemaMatchesVersion`
excuses this by the place such a command ends in (`astray`). It takes three commands, so the run,
which has two, checks the property without its excuse.

`ReviewInv`: review items exist only above the second revision, and no command that is taking it
back has passed its first statement. `SeedInv`: what a run has written where it stands, and that a
run that has written users is alone with an empty table. `RaceInv`: runs under way together are on
record, and a run that found no articles has every run that committed some since on record.
`SeedsInTurnAreIdempotent` is the converse of run `seed_race`: without such runs nothing is ever
inserted twice.

`DeadlocksAreFound` is the safety half of `CommandsEnd`, for any number of commands. Who is waited
for is under way itself (`BlockersAreUnderWay`), since no ended command has kept a lock. If nobody
can go on, the commands under way are a finite set whose members wait for members only. A smallest
such set exists, and in it everybody waits, at some remove, for himself: without one who does not,
there would be a smaller one (`SomeoneWaitsForItself`).

**Access_proofs.** `CallInv` says for each place of a call's handling what it must have been granted
by then (`was`) and whose token it carries; `RightsInv`, that the rights a user has now are in the
history of that user's calls under way, so that a call which loads the row finds nothing in it that
the history lacks.

Only model-checked: all liveness (`ClaimsAreSettled`, `CallsFinish`, `EveryCallReturns`,
`CommandsEnd`, `ArticlesGetFound` and the fairness part of `ImplementsWorkflowContract`); fairness
is out of the prover's reach here. `NobodyDeadlocks` and `DeadlocksAreFound` are proved because they
say what the waiting steps wait for (`CanGoOn`, `CanRun`, `Blockers`) instead of saying `ENABLED`.
They show that there is a next step, and the runs that it is taken.

## 5. What is not modelled

* Redis-py may retry a command by itself after a dropped connection. A retried SET NX that had taken
  effect is reported as "not claimed"; the model has only the outcomes the store's code sees.
* The payload of a request: a key reused with another payload replays the first response whatever it
  asks for. Payload and response contents play no part in the decisions.
* Cancellation of a single handler. `CancelledError` is not an `Exception`, so the claim is not
  released; seen from Redis this is a `Crash` of one request.
* CrewAI inside `respond`: it may call the search tool with queries of its own. `respond` is its
  three outcomes.
* TTLs as durations: an entry may expire at any moment. How stale a cached search may be is bounded
  by the TTL only.
* The snapshot inside a checkpoint (nobody reads it), wording, logging, metadata.
* The queue of those that wait for a lock. In PostgreSQL a statement also waits behind an earlier
  one that waits for a conflicting lock; the model lets any of them be next, so it has every order,
  but not the circles that close through such a queue, which PostgreSQL detects as well.
* The counters of the rate limiter, their windows, and the switch between Redis and the in-memory
  ceiling: they are slowapi's and limits' code, which the repository configures but does not
  contain. Password hashing and JWT signatures likewise: a login has the right password or not, a
  token is one that was issued.
* The order in which `_rank_by_keyword_overlap` puts articles: it is a pure function of texts, and
  no other part depends on more than whether it returns any (it does if the category has any).
* Columns and indexes that no other part tells apart, Alembic's offline mode and autogeneration,
  `CREATE TYPE` names.
* The queue as part of `SupportOps`. Their interface is one pending row, which the workflow writes
  and never reads again; `ApprovalQueue` starts with its creation (`CreatePending`), which may fail.
* Read-only endpoints, assembly, configuration and scripts: no state the other parts depend on.

## 6. Plan

Done, in this order: ticket creation with its faults, abstraction and proofs; the bridge; the queue;
policy and workflow; documentation that the code contradicts as runs; the queue's proofs; access;
migrations and seeding with their proofs; the workflow's contract and its refinement; at-most-once
with lapses, proved under all faults; ticket creation and workflow end to end; the absence of
deadlocks in the bridge and in deployments; the abstract review item and the proof that the queue
implements it.

What could follow:

1. `KnowledgeSearch`: the ranking of `knowledge_article.py` as functions against a reference
   definition over bounded inputs.
2. The queue as a third component of `SupportOps`.
3. Cancellation of single handlers, when the client disconnects.
