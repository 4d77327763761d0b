------------------------------ MODULE Deployment ------------------------------
(***************************************************************************)
(* The database around the running application: `alembic upgrade' and      *)
(* `alembic downgrade' commands (alembic/env.py, alembic/versions),        *)
(* `python -m backend.scripts.seed' runs, and what the application does    *)
(* meanwhile with the tables they change: it inserts and decides review    *)
(* items and searches knowledge articles through a cache.                  *)
(*                                                                         *)
(* A command is one PostgreSQL transaction.  Its changes become visible    *)
(* when it commits; until then a migration holds, exclusively, the tables  *)
(* that its statements have come to, and a seed run holds those it has     *)
(* read or written against migrations.                                     *)
(***************************************************************************)
EXTENDS SeedData, FiniteSets

CONSTANTS
    Migrators,   \* alembic commands
    Seeders,     \* seed runs
    Earlier,     \* the seed run of a deployment that predates knowledge articles
    Drafts,      \* drafts for which the workflow wants a review
    Searches,    \* searches of agents, one after the other in each
    Category     \* the category they search

ASSUME EarlierIsNoSeeder == Earlier \notin Seeders

ASSUME CommandsAreFinite ==
    IsFiniteSet(Migrators) /\ IsFiniteSet(Seeders) /\ Migrators \cap Seeders = {}

VARIABLES
    version,     \* alembic_version: how many of the revisions are applied
    catalog,     \* what the committed schema has
    rows,        \* table -> the seed runs whose rows it holds
    reviews,     \* draft -> its approval_requests row
    mpc, from, goal, at,  \* each alembic command: version found, wanted, reached
    held,        \* and how many tables its next revision has locked so far
    spc, wrote,  \* each seed run, and the tables it has written
    raced,       \* history: pairs of seed runs that were under way together
    seen,        \* what each search has read and not stored yet
    cache        \* Redis: the cached result

migrationVars == <<mpc, from, goal, at, held>>
seedVars == <<spc, wrote, raced>>
searchVars == <<seen, cache>>
vars == <<version, catalog, rows, reviews, migrationVars, seedVars, searchVars>>

Fixtures == {"users", "customers", "tickets"}
SeedTables == Fixtures \cup {"knowledge_articles"}

\* What the three revisions 8f0d1bb0d4bb, 757988297d96 and 26f06c6b17b3 add ...
Changes == <<{"baseline"},
             {"knowledge_articles", "draft_columns", "requester_optional"},
             {"decided_at_zoned"}>>
Revisions == 1..3
Features == UNION {Changes[n] : n \in Revisions}

\* ... and the tables that their statements lock on the way up and on the way down,
\* one after the other: a DROP locks the tables that its foreign keys refer to, too.
UpOrder == <<<<"customers", "users", "tickets", "approval_requests">>,
             <<"knowledge_articles", "approval_requests">>,
             <<"approval_requests">>>>
DownOrder == <<<<"tickets", "users", "approval_requests", "customers">>,
               <<"approval_requests", "knowledge_articles">>,
               <<"approval_requests">>>>
Locks == <<Fixtures \cup {"approval_requests"},
           {"approval_requests", "knowledge_articles"},
           {"approval_requests"}>>

SchemaAt(v) == UNION {Changes[n] : n \in 1..v}

TableIn(t, schema) == (IF t = "knowledge_articles" THEN t ELSE "baseline") \in schema
TableExists(t) == TableIn(t, catalog)

Init ==
    /\ version \in {0, 1}
    /\ catalog = SchemaAt(version)
    /\ \E old \in IF version = 0 THEN {{}} ELSE {{}, {Earlier}} :
          rows = [t \in SeedTables |-> IF t \in Fixtures THEN old ELSE {}]
    /\ reviews = [d \in Drafts |-> "none"]
    /\ mpc = [m \in Migrators |-> "idle"]
    /\ from = [m \in Migrators |-> 0]
    /\ goal = [m \in Migrators |-> 0]
    /\ at = [m \in Migrators |-> 0]
    /\ held = [m \in Migrators |-> 0]
    /\ spc = [s \in Seeders |-> "idle"]
    /\ wrote = [s \in Seeders |-> {}]
    /\ raced = {}
    /\ seen = [q \in Searches |-> "nothing"]
    /\ cache = "nothing"

-----------------------------------------------------------------------------
(* Locks *)

\* The revisions a running command has applied or taken back, and whether the next
\* one is to be applied.
Applied(m) == IF mpc[m] = "running" THEN (from[m] + 1 .. at[m]) \cup (at[m] + 1 .. from[m])
                                   ELSE {}
Up(m) == at[m] < goal[m]
NextRevision(m) == IF Up(m) THEN at[m] + 1 ELSE at[m]
Order(m) == IF Up(m) THEN UpOrder[NextRevision(m)] ELSE DownOrder[NextRevision(m)]

LockedBy(m) == (UNION {Locks[n] : n \in Applied(m)}) \cup {Order(m)[i] : i \in 1 .. held[m]}

\* A query on a committed table waits for a migration that holds it.
Waits(t) == TableExists(t) /\ \E m \in Migrators : t \in LockedBy(m)

Active == {"check_users", "users", "customers", "tickets", "check_articles",
           "knowledge_articles", "commit"}

\* Reading locks a table, against migrations, as writing does.
ReadBy(s) ==
    (IF spc[s] \in Active \ {"check_users"} THEN {"users"} ELSE {}) \cup
    (IF spc[s] \in {"knowledge_articles", "commit"} THEN {"knowledge_articles"} ELSE {})
HeldBy(s) == ReadBy(s) \cup wrote[s]

NextTable(s) == IF spc[s] = "check_users" THEN "users"
                ELSE IF spc[s] = "check_articles" THEN "knowledge_articles" ELSE spc[s]

\* The schema as the command's own transaction sees it.
Visible(m) == IF from[m] <= at[m]
              THEN catalog \cup UNION {Changes[n] : n \in Applied(m)}
              ELSE catalog \ UNION {Changes[n] : n \in Applied(m)}

\* CREATE fails at once if the name is taken, ALTER and DROP COLUMN if there is no
\* such table ...
Refused(m) ==
    \/ ("baseline" \in Visible(m)) = (Up(m) /\ NextRevision(m) = 1)
    \/ Up(m) /\ NextRevision(m) = 2 /\ "knowledge_articles" \in Visible(m)

\* ... but the baseline drops its tables IF EXISTS.
NothingToDrop(m) ==
    ~Up(m) /\ NextRevision(m) = 1 /\ held[m] = 0 /\ "baseline" \notin Visible(m)

\* Mutant of Versioned: alembic_version is overwritten, whatever it says.
AnyVersion(m) == mpc[m] # "idle"

\* alembic_version is updated WHERE it still says what the command found.
Versioned(m) == version = from[m]

\* A migration between two revisions has tables left to lock.
Locking(m) ==
    /\ mpc[m] = "running" /\ at[m] # goal[m] /\ held[m] < Len(Order(m))
    /\ ~NothingToDrop(m)

\* Whom a migration waits for: those that have the table its next statement locks,
\* or, if it has none to lock, those that have changed the row of alembic_version.
MigrationBlockers(m) ==
    IF Locking(m) /\ ~Refused(m)
    THEN LET t == Order(m)[held[m] + 1] IN
            {o \in Migrators \ {m} : t \in LockedBy(o)} \cup {s \in Seeders : t \in HeldBy(s)}
    ELSE {o \in Migrators : mpc[m] = "blind" /\ Versioned(m) /\ Applied(o) # {}}

\* Whom a seed run waits for: a migration that has its next table, or a run that has
\* inserted the admin, as users.email is UNIQUE.
SeedBlockers(s) ==
    {m \in Migrators : /\ spc[s] \in Active \ {"knowledge_articles", "commit"}
                       /\ TableExists(NextTable(s)) /\ NextTable(s) \in LockedBy(m)} \cup
    {o \in Seeders \ {s} : spc[s] = "users" /\ "users" \in wrote[o]}

Commands == Migrators \cup Seeders
Blockers(c) == IF c \in Migrators THEN MigrationBlockers(c) ELSE SeedBlockers(c)

-----------------------------------------------------------------------------
(* alembic: one transaction for all revisions of a command *)

\* The process exits, and what it knew is gone.
Ends(m, how) ==
    /\ mpc' = [mpc EXCEPT ![m] = how]
    /\ from' = [from EXCEPT ![m] = 0]
    /\ goal' = [goal EXCEPT ![m] = 0]
    /\ at' = [at EXCEPT ![m] = 0]
    /\ held' = [held EXCEPT ![m] = 0]

\* Mutant of StepTo: every step is one up.
StepUp(m) == at[m] + 1

\* The revision that the command's schema has after it.
StepTo(m) == IF Up(m) THEN at[m] + 1 ELSE at[m] - 1

BeginMigration(m) ==
    /\ mpc[m] = "idle"
    /\ mpc' = [mpc EXCEPT ![m] = "running"]
    /\ from' = [from EXCEPT ![m] = version]
    /\ at' = [at EXCEPT ![m] = version]
    /\ \E v \in {0} \cup Revisions : goal' = [goal EXCEPT ![m] = v]
    /\ UNCHANGED <<version, catalog, rows, reviews, held, seedVars, searchVars>>

\* What a revision creates must not be there, and what it alters must.
UpgradePossible(m) ==
    /\ ("baseline" \in Visible(m)) = (NextRevision(m) # 1)
    /\ NextRevision(m) = 2 => Changes[2] \cap Visible(m) = {}

\* Mutant of DowngradePossible: requested_by is not made NOT NULL again.
DowngradeUnchecked(m) ==
    /\ "baseline" \in Visible(m)
    /\ NextRevision(m) = 2 => Changes[2] \subseteq Visible(m)

\* requested_by can be made NOT NULL only if no row lacks it; create_pending never
\* sets it.
DowngradePossible(m) ==
    /\ "baseline" \in Visible(m)
    /\ NextRevision(m) = 2 => /\ Changes[2] \subseteq Visible(m)
                              /\ \A d \in Drafts : reviews[d] \notin {"pending", "decided"}

Possible(m) == IF Up(m) THEN UpgradePossible(m) ELSE DowngradePossible(m)

\* The statements of a revision up to the next table that it has to lock.
Statement(m) ==
    /\ Locking(m) /\ Blockers(m) = {}
    /\ IF Possible(m)
       THEN held' = [held EXCEPT ![m] = @ + 1] /\ UNCHANGED <<mpc, from, goal, at>>
       ELSE Ends(m, "failed")
    /\ UNCHANGED <<version, catalog, rows, reviews, seedVars, searchVars>>

\* After its statements a revision sets alembic_version.
ApplyRevision(m) ==
    /\ mpc[m] = "running" /\ at[m] # goal[m] /\ held[m] = Len(Order(m))
    /\ IF Versioned(m)
       THEN /\ at' = [at EXCEPT ![m] = StepTo(m)]
            /\ held' = [held EXCEPT ![m] = 0]
            /\ UNCHANGED <<mpc, from, goal>>
       ELSE Ends(m, "failed")
    /\ UNCHANGED <<version, catalog, rows, reviews, seedVars, searchVars>>

\* Another command has taken the baseline back: there is nothing to drop, to lock
\* or to wait for ...
DropNothing(m) ==
    /\ mpc[m] = "running" /\ at[m] # goal[m] /\ NothingToDrop(m)
    /\ mpc' = [mpc EXCEPT ![m] = "blind"]
    /\ UNCHANGED <<version, catalog, rows, reviews, from, goal, at, held, seedVars, searchVars>>

\* ... until the row of alembic_version, which is gone as well, unless a third
\* command has brought both back since: then the row goes and the tables stay.
DeleteVersion(m) ==
    /\ mpc[m] = "blind" /\ Blockers(m) = {}
    /\ IF Versioned(m)
       THEN Ends(m, "astray") /\ version' = 0
       ELSE Ends(m, "failed") /\ UNCHANGED version
    /\ UNCHANGED <<catalog, rows, reviews, seedVars, searchVars>>

\* A dropped table takes its rows with it.
CommitMigration(m) ==
    /\ mpc[m] = "running" /\ at[m] = goal[m]
    /\ Ends(m, "done")
    /\ version' = IF from[m] = at[m] THEN version ELSE at[m]
    /\ catalog' = Visible(m)
    /\ rows' = [t \in SeedTables |-> IF TableIn(t, Visible(m)) THEN rows[t] ELSE {}]
    /\ reviews' = IF "baseline" \in Visible(m) THEN reviews
                  ELSE [d \in Drafts |-> IF reviews[d] = "none" THEN "none" ELSE "lost"]
    /\ UNCHANGED <<seedVars, searchVars>>

\* The connection is lost, or the process dies: everything is rolled back.
MigrationFails(m) ==
    /\ mpc[m] \in {"running", "blind"}
    /\ Ends(m, "failed")
    /\ UNCHANGED <<version, catalog, rows, reviews, seedVars, searchVars>>

-----------------------------------------------------------------------------
(* seed: one transaction per run *)

SeedGoto(s, label) == spc' = [spc EXCEPT ![s] = label]

\* Mutant of RollBack: the connection stays in its transaction.
RollBackHolding(s) == SeedGoto(s, "failed") /\ UNCHANGED wrote

RollBack(s) == SeedGoto(s, "failed") /\ wrote' = [wrote EXCEPT ![s] = {}]

\* In production the script exits unless it is told not to.
StartSeed(s) ==
    /\ spc[s] = "idle"
    /\ \/ /\ SeedGoto(s, "check_users")
          /\ raced' = raced \cup {{s, o} : o \in {r \in Seeders : spc[r] \in Active}}
       \/ SeedGoto(s, "refused") /\ UNCHANGED raced
    /\ UNCHANGED <<version, catalog, rows, reviews, migrationVars, wrote, searchVars>>

\* _already_seeded: the admin's row is there.
CheckUsers(s) ==
    /\ spc[s] = "check_users" /\ Blockers(s) = {}
    /\ IF ~TableExists("users") THEN RollBack(s)
       ELSE /\ SeedGoto(s, IF Admin \in Users /\ rows["users"] # {}
                           THEN "check_articles" ELSE "users")
            /\ UNCHANGED wrote
    /\ UNCHANGED <<version, catalog, rows, reviews, migrationVars, raced, searchVars>>

\* The INSERT raises if the users are there when whoever inserted them has ended.
SeedUsers(s) ==
    /\ spc[s] = "users" /\ Blockers(s) = {}
    /\ IF rows["users"] # {} THEN RollBack(s)
       ELSE SeedGoto(s, "customers") /\ wrote' = [wrote EXCEPT ![s] = @ \cup {"users"}]
    /\ UNCHANGED <<version, catalog, rows, reviews, migrationVars, raced, searchVars>>

SeedCustomers(s) ==
    /\ spc[s] = "customers" /\ Blockers(s) = {}
    /\ SeedGoto(s, "tickets") /\ wrote' = [wrote EXCEPT ![s] = @ \cup {"customers"}]
    /\ UNCHANGED <<version, catalog, rows, reviews, migrationVars, raced, searchVars>>

SeedTickets(s) ==
    /\ spc[s] = "tickets" /\ Blockers(s) = {}
    /\ IF TicketsResolve
       THEN /\ SeedGoto(s, "check_articles")
            /\ wrote' = [wrote EXCEPT ![s] = @ \cup {"tickets"}]
       ELSE RollBack(s)
    /\ UNCHANGED <<version, catalog, rows, reviews, migrationVars, raced, searchVars>>

\* Mutant of CheckArticles: only the users are taken for a mark of an earlier run.
CheckArticlesByUsers(s) ==
    /\ spc[s] = "check_articles" /\ Blockers(s) = {}
    /\ IF ~TableExists("knowledge_articles") THEN RollBack(s)
       ELSE SeedGoto(s, "knowledge_articles") /\ UNCHANGED wrote
    /\ UNCHANGED <<version, catalog, rows, reviews, migrationVars, raced, searchVars>>

\* _knowledge_articles_already_seeded, whatever the first check said.
CheckArticles(s) ==
    /\ spc[s] = "check_articles" /\ Blockers(s) = {}
    /\ IF ~TableExists("knowledge_articles") THEN RollBack(s)
       ELSE /\ SeedGoto(s, IF rows["knowledge_articles"] # {}
                           THEN "commit" ELSE "knowledge_articles")
            /\ UNCHANGED wrote
    /\ UNCHANGED <<version, catalog, rows, reviews, migrationVars, raced, searchVars>>

SeedArticles(s) ==
    /\ spc[s] = "knowledge_articles"
    /\ SeedGoto(s, "commit")
    /\ wrote' = [wrote EXCEPT ![s] = @ \cup {"knowledge_articles"}]
    /\ UNCHANGED <<version, catalog, rows, reviews, migrationVars, raced, searchVars>>

CommitSeed(s) ==
    /\ spc[s] = "commit"
    /\ rows' = [t \in SeedTables |-> IF t \in wrote[s] THEN rows[t] \cup {s} ELSE rows[t]]
    /\ wrote' = [wrote EXCEPT ![s] = {}]
    /\ SeedGoto(s, "done")
    /\ UNCHANGED <<version, catalog, reviews, migrationVars, raced, searchVars>>

\* Mutant of SeedFails: what was flushed so far is committed.
SeedFailsHalfway(s) ==
    /\ spc[s] \in Active
    /\ SeedGoto(s, "failed") /\ wrote' = [wrote EXCEPT ![s] = {}]
    /\ rows' = [t \in SeedTables |-> IF t \in wrote[s] THEN rows[t] \cup {s} ELSE rows[t]]
    /\ UNCHANGED <<version, catalog, reviews, migrationVars, raced, searchVars>>

\* Any exception, or the process dies.
SeedFails(s) ==
    /\ spc[s] \in Active
    /\ RollBack(s)
    /\ UNCHANGED <<version, catalog, rows, reviews, migrationVars, raced, searchVars>>

-----------------------------------------------------------------------------
(* Deadlocks *)

\* c waits, at first or second hand, for itself: it is in every set that has whomever
\* c or a member of the set waits for.
OnCycle(c) ==
    LET for == [x \in Commands |-> Blockers(x)] IN
    \A S \in SUBSET Commands : (\A x \in S \cup {c} : for[x] \subseteq S) => c \in S

\* PostgreSQL finds such a command, and fails it.
DeadlockDetected(c) ==
    /\ Blockers(c) # {} /\ OnCycle(c)
    /\ \/ c \in Migrators /\ Ends(c, "failed") /\ UNCHANGED <<spc, wrote>>
       \/ c \in Seeders /\ RollBack(c) /\ UNCHANGED migrationVars
    /\ UNCHANGED <<version, catalog, rows, reviews, raced, searchVars>>

-----------------------------------------------------------------------------
(* The application *)

\* create_pending names the new columns and leaves requested_by out, and the row
\* refers to a ticket; a failure is swallowed and the draft is in no queue.
EnqueueReview(d) ==
    /\ reviews[d] = "none" /\ "baseline" \in catalog
    /\ \/ /\ Changes[2] \subseteq catalog /\ ~Waits("approval_requests") /\ ~Waits("tickets")
          /\ reviews' = [reviews EXCEPT ![d] = "pending"]
       \/ reviews' = [reviews EXCEPT ![d] = "lost"]
    /\ UNCHANGED <<version, catalog, rows, migrationVars, seedVars, searchVars>>

\* decide binds an aware datetime, which the naive column refuses, and names a user.
Decide(d) ==
    /\ reviews[d] = "pending" /\ ~Waits("approval_requests") /\ ~Waits("users")
    /\ "decided_at_zoned" \in catalog
    /\ reviews' = [reviews EXCEPT ![d] = "decided"]
    /\ UNCHANGED <<version, catalog, rows, migrationVars, seedVars, searchVars>>

\* Mutant of Query: the outage is remembered like an empty result.
QueryRememberingOutage(q) ==
    /\ seen[q] = "nothing" /\ ~Waits("knowledge_articles")
    /\ \E found \in {{}, IF TableExists("knowledge_articles")
                         THEN rows["knowledge_articles"] \X ArticlesOf(Category) ELSE {}} :
          seen' = [seen EXCEPT ![q] = IF found = {} THEN "no results" ELSE "articles"]
    /\ UNCHANGED <<version, catalog, rows, reviews, migrationVars, seedVars, cache>>

\* KnowledgeBaseSearchTool._run.  A hit in the cache changes nothing; a miss, and
\* RedisError is one whatever is cached, leads to KnowledgeArticleRepository.search, in
\* which any exception is an outage and not cached.
Query(q) ==
    /\ seen[q] = "nothing" /\ ~Waits("knowledge_articles")
    /\ \/ /\ TableExists("knowledge_articles")
          /\ LET found == rows["knowledge_articles"] \X ArticlesOf(Category) IN
                seen' = [seen EXCEPT ![q] = IF found = {} THEN "no results" ELSE "articles"]
       \/ UNCHANGED seen
    /\ UNCHANGED <<version, catalog, rows, reviews, migrationVars, seedVars, cache>>

\* The set may fail; an answer is what was seen.
Store(q) ==
    /\ seen[q] # "nothing"
    /\ cache' \in {cache, seen[q]}
    /\ seen' = [seen EXCEPT ![q] = "nothing"]
    /\ UNCHANGED <<version, catalog, rows, reviews, migrationVars, seedVars>>

\* Every entry is set with a TTL.
Expire ==
    /\ cache # "nothing"
    /\ cache' = "nothing"
    /\ UNCHANGED <<version, catalog, rows, reviews, migrationVars, seedVars, seen>>

-----------------------------------------------------------------------------

Migrate(m) ==
    \/ Statement(m) \/ ApplyRevision(m) \/ DropNothing(m) \/ DeleteVersion(m)
    \/ CommitMigration(m)

Seed(s) ==
    \/ CheckUsers(s) \/ SeedUsers(s) \/ SeedCustomers(s) \/ SeedTickets(s)
    \/ CheckArticles(s) \/ SeedArticles(s) \/ CommitSeed(s)

Next ==
    \/ \E m \in Migrators : BeginMigration(m) \/ Migrate(m) \/ MigrationFails(m)
    \/ \E s \in Seeders : StartSeed(s) \/ Seed(s) \/ SeedFails(s)
    \/ \E c \in Commands : DeadlockDetected(c)
    \/ \E d \in Drafts : EnqueueReview(d) \/ Decide(d)
    \/ \E q \in Searches : Query(q) \/ Store(q)
    \/ Expire

Spec == Init /\ [][Next]_vars

\* What a command can do, and what PostgreSQL does if it waits for itself.
Proceed ==
    \/ \E m \in Migrators : Migrate(m)
    \/ \E s \in Seeders : Seed(s)
    \/ \E c \in Commands : DeadlockDetected(c)

\* As long as a command can go on or is in a circle, one goes on or PostgreSQL fails
\* one, and nothing else makes a command fail.  Entries expire.
FairSpec ==
    /\ Spec
    /\ WF_vars(Proceed)
    /\ \A q \in Searches : WF_vars(Store(q))
    /\ WF_vars(Expire)

-----------------------------------------------------------------------------
(* Properties *)

TypeOK ==
    /\ version \in 0..3
    /\ catalog \subseteq Features
    /\ rows \in [SeedTables -> SUBSET (Seeders \cup {Earlier})]
    /\ reviews \in [Drafts -> {"none", "lost", "pending", "decided"}]
    /\ mpc \in [Migrators -> {"idle", "running", "blind", "failed", "done", "astray"}]
    /\ from \in [Migrators -> 0..3] /\ goal \in [Migrators -> 0..3] /\ at \in [Migrators -> 0..3]
    /\ held \in [Migrators -> 0..4]
    /\ spc \in [Seeders -> {"idle", "refused", "failed", "done"} \cup Active]
    /\ wrote \in [Seeders -> SUBSET SeedTables]
    /\ raced \subseteq SUBSET Seeders
    /\ seen \in [Searches -> {"nothing", "no results", "articles"}]
    /\ cache \in {"nothing", "no results", "articles"}

\* The committed schema is exactly the one that alembic_version names, however
\* commands overlap, fail between two revisions or find each other's work done,
\* unless a third one went astray between two that dropped and restored the baseline.
SchemaMatchesVersion ==
    catalog = SchemaAt(version) \/ \E m \in Migrators : mpc[m] = "astray"

\* No migration takes a review item away, or a decision back: the way down ends at
\* the first item that the workflow has created.
ReviewsSurvive ==
    [][\A d \in Drafts :
          /\ reviews[d] = "pending" => reviews'[d] \in {"pending", "decided"}
          /\ reviews[d] = "decided" => reviews'[d] = "decided"]_vars

\* Users, customers and demo tickets are there together or not at all, from one run,
\* although nothing but the admin's email is unique.
FixturesOnce ==
    /\ \A t \in Fixtures : rows[t] = rows["users"]
    /\ \A r, s \in rows["users"] : r = s

\* The articles of two runs stand next to each other only if the runs were under way
\* at the same time.
ArticlesDoubledOnlyByRace ==
    \A r, s \in rows["knowledge_articles"] : r # s => {r, s} \in raced

\* seed.py:13, "a race between two concurrent runs fails safely ... rather than
\* producing duplicate rows".
NoDuplicateRows == \A t \in SeedTables : \A r, s \in rows[t] : r = s

\* A command under way.
UnderWay(c) == \/ c \in Migrators /\ mpc[c] \in {"running", "blind"}
               \/ c \in Seeders /\ spc[c] \in Active

\* Unless a command under way can go on, and without failing, some of them wait for
\* each other in a circle that PostgreSQL finds: nobody waits for a lock that was
\* left behind.
DeadlocksAreFound ==
    (\E c \in Commands : UnderWay(c)) =>
        \E c \in Commands : UnderWay(c) /\ (Blockers(c) = {} \/ OnCycle(c))

\* Migrations and seed runs that wait for each other's tables end all the same.
CommandsEnd == <>[](\A c \in Commands : ~UnderWay(c))

\* "No results" does not outlive the articles' arrival: once they are there to stay,
\* no cached answer and no search under way denies them for good.
ArticlesGetFound ==
    <>[](rows["knowledge_articles"] # {}) => <>[](cache # "no results")
=============================================================================
