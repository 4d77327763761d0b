-------------------------- MODULE Deployment_proofs --------------------------
(***************************************************************************)
(* Theorems about Deployment, for any numbers of commands, drafts and      *)
(* searches.                                                               *)
(***************************************************************************)
EXTENDS Deployment, FiniteSetTheorems, TLAPS

-----------------------------------------------------------------------------
(* The revisions *)

\* The three revisions one by one.
LEMMA RevisionsAre ==
    /\ Changes[1] = {"baseline"}
    /\ Changes[2] = {"knowledge_articles", "draft_columns", "requester_optional"}
    /\ Changes[3] = {"decided_at_zoned"}
    /\ Locks[1] = {"users", "customers", "tickets", "approval_requests"}
    /\ Locks[2] = {"approval_requests", "knowledge_articles"}
    /\ Locks[3] = {"approval_requests"}
  BY DEF Changes, Locks, Fixtures

\* The order in which they lock their tables, up and down.
LEMMA OrdersAre ==
    /\ UpOrder[1] = <<"customers", "users", "tickets", "approval_requests">>
    /\ UpOrder[2] = <<"knowledge_articles", "approval_requests">>
    /\ UpOrder[3] = <<"approval_requests">>
    /\ DownOrder[1] = <<"tickets", "users", "approval_requests", "customers">>
    /\ DownOrder[2] = <<"approval_requests", "knowledge_articles">>
    /\ DownOrder[3] = <<"approval_requests">>
  BY DEF UpOrder, DownOrder

\* What the schema has after each of them.
LEMMA Schemas ==
    /\ SchemaAt(0) = {}
    /\ SchemaAt(1) = Changes[1]
    /\ SchemaAt(2) = Changes[1] \cup Changes[2]
    /\ SchemaAt(3) = Changes[1] \cup Changes[2] \cup Changes[3]
<1>1. 1..0 = {} /\ 1..1 = {1} /\ 1..2 = {1, 2} /\ 1..3 = {1, 2, 3}
  OBVIOUS
<1> QED
  BY <1>1 DEF SchemaAt

\* A schema consists of known features.
LEMMA SchemaFeatures ==
    ASSUME NEW v \in 0..3
    PROVE  SchemaAt(v) \subseteq Features
  BY DEF SchemaAt, Features, Revisions

\* A revision needs no feature of another twice.
LEMMA Disjoint ==
    ASSUME NEW i \in Revisions, NEW j \in Revisions, i # j
    PROVE  Changes[i] \cap Changes[j] = {}
<1>1. i \in {1, 2, 3} /\ j \in {1, 2, 3}
  BY DEF Revisions
<1> QED
  BY <1>1, RevisionsAre

\* Applying the revisions from v + 1 to w leads from one schema to the other ...
LEMMA Upwards ==
    ASSUME NEW v \in 0..3, NEW w \in 0..3, v <= w
    PROVE  SchemaAt(v) \cup UNION {Changes[n] : n \in v + 1 .. w} = SchemaAt(w)
<1>1. 1..w = (1..v) \cup (v + 1 .. w)
  OBVIOUS
<1> QED
  BY <1>1 DEF SchemaAt

\* ... and taking them back leads back.
LEMMA Downwards ==
    ASSUME NEW v \in 0..3, NEW w \in 0..3, v <= w
    PROVE  SchemaAt(w) \ UNION {Changes[n] : n \in v + 1 .. w} = SchemaAt(v)
<1>1. SchemaAt(w) = SchemaAt(v) \cup UNION {Changes[n] : n \in v + 1 .. w}
  BY Upwards
<1>2. ASSUME NEW i \in 1..v, NEW j \in v + 1 .. w PROVE Changes[i] \cap Changes[j] = {}
  BY Disjoint DEF Revisions
<1>3. SchemaAt(v) \cap UNION {Changes[n] : n \in v + 1 .. w} = {}
  BY <1>2 DEF SchemaAt
<1> QED
  BY <1>1, <1>3

-----------------------------------------------------------------------------
(* The inductive invariant *)

\* A command that has something to commit.
Busy(m) == mpc[m] = "running" /\ from[m] # at[m]

\* A command that went astray has left the tables of the baseline without a version.
Astray ==
    (\E m \in Migrators : mpc[m] = "astray") /\ version = 0 /\ catalog = SchemaAt(1)

\* Nobody has committed since a busy command began; no two commands hold a table;
\* what a command holds between two revisions are tables of the next one, and the
\* names of the baseline are free when it creates them.
MigrationInv ==
    /\ catalog = SchemaAt(version) \/ Astray
    /\ \A m \in Migrators :
          /\ Busy(m) => version = from[m] /\ catalog = SchemaAt(version)
          /\ \A o \in Migrators \ {m} : LockedBy(m) \cap LockedBy(o) = {}
          /\ held[m] > 0 => mpc[m] = "running" /\ at[m] # goal[m] /\ held[m] <= Len(Order(m))
          /\ held[m] > 0 /\ ~Busy(m) /\ Up(m) /\ at[m] = 0 => "baseline" \notin catalog
          /\ mpc[m] = "blind" => from[m] = 1

Reviewed(d) == reviews[d] \in {"pending", "decided"}

\* Review items exist only above revision 2, and none while it is being taken back.
ReviewInv ==
    \A d \in Drafts : Reviewed(d) =>
        /\ version >= 2
        /\ \A m \in Migrators : mpc[m] = "running" =>
              /\ from[m] >= 2 => at[m] >= 2
              /\ at[m] = 2 /\ ~Up(m) => held[m] = 0

\* What a seed run has written where it stands, and that it does so alone.
SeedInv ==
    /\ FixturesOnce
    /\ \A s \in Seeders :
          /\ spc[s] \notin Active \/ spc[s] \in {"check_users", "users"} => wrote[s] = {}
          /\ spc[s] = "customers" => wrote[s] = {"users"}
          /\ spc[s] = "tickets" => wrote[s] = {"users", "customers"}
          /\ spc[s] \in {"check_articles", "knowledge_articles"} => wrote[s] \in {{}, Fixtures}
          /\ spc[s] = "commit" => wrote[s] \cap Fixtures \in {{}, Fixtures}
          /\ "users" \in wrote[s] =>
                rows["users"] = {} /\ \A o \in Seeders \ {s} : "users" \notin wrote[o]

\* Runs under way together are known to be, and a run that found no articles knows
\* every run that has committed some since.
RaceInv ==
    /\ ArticlesDoubledOnlyByRace
    /\ \A r, s \in Seeders : r # s /\ spc[r] \in Active /\ spc[s] \in Active => {r, s} \in raced
    /\ \A s \in Seeders :
          /\ "knowledge_articles" \in wrote[s] => spc[s] = "commit"
          /\ spc[s] = "knowledge_articles" \/ "knowledge_articles" \in wrote[s] =>
                \A r \in rows["knowledge_articles"] : {r, s} \in raced

IInv == TypeOK /\ MigrationInv /\ ReviewInv /\ SeedInv /\ RaceInv

\* The revisions between two.
LEMMA Between ==
    ASSUME NEW v \in 0..3, NEW w \in 0..3
    PROVE  /\ v + 1 .. w \subseteq {1, 2, 3}
           /\ v < w <=> v + 1 .. w # {}
<1>1. v < w => w \in v + 1 .. w
  OBVIOUS
<1> QED
  BY <1>1

\* The locks of a revision are those of its statements, and there are some.
LEMMA Orders ==
    ASSUME TypeOK, NEW m \in Migrators, at[m] # goal[m]
    PROVE  /\ NextRevision(m) \in 1..3
           /\ Len(Order(m)) \in 1..4
           /\ {Order(m)[i] : i \in 1 .. Len(Order(m))} = Locks[NextRevision(m)]
<1>1. at[m] \in 0..3 /\ goal[m] \in 0..3
  BY DEF TypeOK
<1>2. NextRevision(m) = 1 \/ NextRevision(m) = 2 \/ NextRevision(m) = 3
  BY <1>1 DEF NextRevision, Up
<1>3. 1..1 = {1} /\ 1..2 = {1, 2} /\ 1..4 = {1, 2, 3, 4}
  OBVIOUS
<1>4. CASE NextRevision(m) = 1
  <2>1. \/ Order(m) = <<"customers", "users", "tickets", "approval_requests">>
        \/ Order(m) = <<"tickets", "users", "approval_requests", "customers">>
    BY <1>4, OrdersAre DEF Order
  <2> QED
    BY <1>3, <1>4, <2>1, RevisionsAre
<1>5. CASE NextRevision(m) = 2
  <2>1. \/ Order(m) = <<"knowledge_articles", "approval_requests">>
        \/ Order(m) = <<"approval_requests", "knowledge_articles">>
    BY <1>5, OrdersAre DEF Order
  <2> QED
    BY <1>3, <1>5, <2>1, RevisionsAre
<1>6. CASE NextRevision(m) = 3
  <2>1. Order(m) = <<"approval_requests">>
    BY <1>6, OrdersAre DEF Order
  <2> QED
    BY <1>3, <1>6, <2>1, RevisionsAre
<1> QED
  BY <1>2, <1>4, <1>5, <1>6

\* A command is busy as long as there are revisions that it has applied or taken back.
LEMMA AppliedBusy ==
    ASSUME TypeOK, NEW m \in Migrators
    PROVE  Applied(m) \subseteq {1, 2, 3} /\ (Applied(m) # {} <=> Busy(m))
<1>1. from[m] \in 0..3 /\ at[m] \in 0..3
  BY DEF TypeOK
<1> QED
  BY <1>1, Between DEF Applied, Busy

\* A command that has changed nothing and is between two tables of no revision holds
\* no locks; a busy one holds that of the review items.
LEMMA BusyLocks ==
    ASSUME TypeOK, NEW m \in Migrators
    PROVE  /\ ~Busy(m) => Applied(m) = {}
           /\ ~Busy(m) /\ held[m] = 0 => LockedBy(m) = {}
           /\ Busy(m) => "approval_requests" \in LockedBy(m)
           /\ Busy(m) /\ from[m] = 0 => "customers" \in LockedBy(m)
<1>1. from[m] \in 0..3 /\ at[m] \in 0..3
  BY DEF TypeOK
<1>2. Applied(m) \subseteq {1, 2, 3} /\ (Applied(m) # {} <=> Busy(m))
  BY AppliedBusy
<1>3. \A n \in {1, 2, 3} : "approval_requests" \in Locks[n]
  BY RevisionsAre
<1>4. held[m] = 0 => {Order(m)[i] : i \in 1 .. held[m]} = {}
  OBVIOUS
<1>5. Busy(m) /\ from[m] = 0 => 1 \in Applied(m)
  BY <1>1 DEF Busy, Applied
<1> QED
  BY <1>2, <1>3, <1>4, <1>5, RevisionsAre DEF LockedBy

\* A command that is not between two revisions holds no table for the next one.
LEMMA IdleHolds ==
    ASSUME TypeOK, MigrationInv, NEW m \in Migrators, mpc[m] # "running"
    PROVE  held[m] = 0
<1>1. held[m] \in 0..4
  BY DEF TypeOK
<1>2. ~(held[m] > 0)
  BY DEF MigrationInv
<1> QED
  BY <1>1, <1>2

\* Only one command can be busy.
LEMMA OneBusy ==
    ASSUME TypeOK, MigrationInv, NEW m \in Migrators, NEW o \in Migrators, Busy(m), Busy(o)
    PROVE  m = o
  BY BusyLocks DEF MigrationInv

\* What a command sees is the schema of the revision it has reached.
LEMMA Sees ==
    ASSUME TypeOK, MigrationInv, NEW m \in Migrators, mpc[m] = "running"
    PROVE  Visible(m) = IF Busy(m) THEN SchemaAt(at[m]) ELSE catalog
<1>1. from[m] \in 0..3 /\ at[m] \in 0..3
  BY DEF TypeOK
<1>2. Applied(m) = (from[m] + 1 .. at[m]) \cup (at[m] + 1 .. from[m])
  BY DEF Applied
<1>3. CASE from[m] = at[m]
  <2>1. Applied(m) = {}
    BY <1>1, <1>2, <1>3, Between
  <2> QED
    BY <1>3, <2>1 DEF Visible, Busy
<1>4. CASE from[m] < at[m]
  <2>1. Applied(m) = from[m] + 1 .. at[m] /\ from[m] <= at[m] /\ from[m] # at[m]
    BY <1>1, <1>2, <1>4, Between
  <2>2. catalog = SchemaAt(from[m])
    BY <2>1 DEF MigrationInv, Busy
  <2>3. Visible(m) = SchemaAt(from[m]) \cup UNION {Changes[n] : n \in from[m] + 1 .. at[m]}
    BY <2>1, <2>2 DEF Visible
  <2> QED
    BY <1>1, <2>1, <2>3, Upwards DEF Busy
<1>5. CASE at[m] < from[m]
  <2>1. Applied(m) = at[m] + 1 .. from[m] /\ ~(from[m] <= at[m]) /\ from[m] # at[m]
        /\ at[m] <= from[m]
    BY <1>1, <1>2, <1>5, Between
  <2>2. catalog = SchemaAt(from[m])
    BY <2>1 DEF MigrationInv, Busy
  <2>3. Visible(m) = SchemaAt(from[m]) \ UNION {Changes[n] : n \in at[m] + 1 .. from[m]}
    BY <2>1, <2>2 DEF Visible
  <2> QED
    BY <1>1, <2>1, <2>3, Downwards DEF Busy
<1> QED
  BY <1>1, <1>3, <1>4, <1>5

-----------------------------------------------------------------------------
(* Steps *)

\* A step of alembic changes its commands, and when it commits the schema.
MigrationStep ==
    \E m \in Migrators :
        \/ BeginMigration(m) \/ Statement(m) \/ ApplyRevision(m) \/ DropNothing(m)
        \/ DeleteVersion(m) \/ CommitMigration(m) \/ MigrationFails(m)

\* A step of a seed run.
SeedStep == \E s \in Seeders : StartSeed(s) \/ Seed(s) \/ SeedFails(s)

\* A step of the application.
ApplicationStep ==
    (\E d \in Drafts : EnqueueReview(d) \/ Decide(d)) \/ (\E q \in Searches : Query(q) \/ Store(q))
    \/ Expire \/ UNCHANGED vars

\* What a deadlock does to a command may happen to it at any time.
LEMMA DeadlockIsFailure ==
    ASSUME NEW c \in Commands, DeadlockDetected(c)
    PROVE  \/ c \in Migrators /\ MigrationFails(c)
           \/ c \in Seeders /\ SeedFails(c)
<1>1. Blockers(c) # {}
  BY DEF DeadlockDetected
<1>2. ASSUME c \in Migrators, Ends(c, "failed"), UNCHANGED <<spc, wrote>>
      PROVE  MigrationFails(c)
  <2>1. mpc[c] \in {"running", "blind"}
    BY <1>1, <1>2 DEF Blockers, MigrationBlockers, Locking
  <2> QED
    BY <1>2, <2>1 DEF DeadlockDetected, MigrationFails, seedVars
<1>3. ASSUME c \in Seeders, RollBack(c), UNCHANGED migrationVars
      PROVE  SeedFails(c)
  <2>1. spc[c] \in Active
    BY <1>1, <1>3, CommandsAreFinite DEF Blockers, SeedBlockers, Active
  <2> QED
    BY <1>3, <2>1 DEF DeadlockDetected, SeedFails
<1> QED
  BY <1>2, <1>3 DEF DeadlockDetected

\* What the steps leave alone.
LEMMA Footprints ==
    ASSUME [Next]_vars
    PROVE  \/ MigrationStep /\ UNCHANGED <<spc, wrote, raced, seen, cache>>
           \/ /\ SeedStep
              /\ UNCHANGED <<version, catalog, reviews, mpc, from, goal, at, held,
                             seen, cache>>
           \/ /\ ApplicationStep
              /\ UNCHANGED <<version, catalog, rows, mpc, from, goal, at, held,
                             spc, wrote, raced>>
<1> USE DEF migrationVars, seedVars, searchVars
<1>1. ASSUME MigrationStep PROVE UNCHANGED <<spc, wrote, raced, seen, cache>>
  BY <1>1 DEF MigrationStep, BeginMigration, Statement, ApplyRevision, DropNothing,
     DeleteVersion, CommitMigration, MigrationFails
<1>2. ASSUME SeedStep
      PROVE  UNCHANGED <<version, catalog, reviews, mpc, from, goal, at, held,
                         seen, cache>>
  BY <1>2 DEF SeedStep, StartSeed, Seed, CheckUsers, SeedUsers, SeedCustomers, SeedTickets,
     CheckArticles, SeedArticles, CommitSeed, SeedFails
<1>3. ASSUME ApplicationStep
      PROVE  UNCHANGED <<version, catalog, rows, mpc, from, goal, at, held, spc, wrote, raced>>
  BY <1>3 DEF ApplicationStep, EnqueueReview, Decide, Query, Store, Expire, vars
<1>4. (\E c \in Commands : DeadlockDetected(c)) => MigrationStep \/ SeedStep
  BY DeadlockIsFailure DEF MigrationStep, SeedStep
<1> QED
  BY <1>1, <1>2, <1>3, <1>4 DEF Next, Migrate, MigrationStep, SeedStep, ApplicationStep

\* A function with one value replaced.
LEMMA Updated ==
    ASSUME NEW S, NEW T, NEW f \in [S -> T], NEW x \in S, NEW v \in T
    PROVE  [f EXCEPT ![x] = v] \in [S -> T]
  OBVIOUS

\* The types of the commands.
CommandTypes ==
    /\ mpc \in [Migrators -> {"idle", "running", "blind", "failed", "done", "astray"}]
    /\ from \in [Migrators -> 0..3] /\ goal \in [Migrators -> 0..3] /\ at \in [Migrators -> 0..3]
    /\ held \in [Migrators -> 0..4]

\* A command that has ended has forgotten everything.
LEMMA EndsTyped ==
    ASSUME TypeOK, NEW m \in Migrators, NEW how \in {"failed", "done", "astray"}, Ends(m, how)
    PROVE  CommandTypes'
<1>1. mpc' \in [Migrators -> {"idle", "running", "blind", "failed", "done", "astray"}]
  BY Updated DEF Ends, TypeOK
<1>2. /\ from' \in [Migrators -> 0..3] /\ goal' \in [Migrators -> 0..3]
      /\ at' \in [Migrators -> 0..3] /\ held' \in [Migrators -> 0..4]
  <2>1. 0 \in 0..3 /\ 0 \in 0..4
    OBVIOUS
  <2> QED
    BY <2>1, Updated DEF Ends, TypeOK
<1> QED
  BY <1>1, <1>2 DEF CommandTypes

\* Commands keep their types.
LEMMA CommandTypesStep ==
    ASSUME IInv, [Next]_vars
    PROVE  CommandTypes'
<1> USE DEF IInv
<1>1. ASSUME UNCHANGED <<mpc, from, goal, at, held>> PROVE CommandTypes'
  BY <1>1 DEF TypeOK, CommandTypes
<1>2. ASSUME NEW m \in Migrators, BeginMigration(m) PROVE CommandTypes'
  <2>1. PICK v \in {0} \cup Revisions : goal' = [goal EXCEPT ![m] = v]
    BY <1>2, Zenon DEF BeginMigration
  <2>2. version \in 0..3 /\ mpc' = [mpc EXCEPT ![m] = "running"] /\ held' = held
        /\ from' = [from EXCEPT ![m] = version] /\ at' = [at EXCEPT ![m] = version]
    BY <1>2 DEF BeginMigration, TypeOK
  <2>3. v \in 0..3
    BY DEF Revisions
  <2> QED
    BY <2>1, <2>2, <2>3, Updated DEF CommandTypes, TypeOK
<1>3. ASSUME NEW m \in Migrators, Statement(m) PROVE CommandTypes'
  <2>1. CASE held' = [held EXCEPT ![m] = held[m] + 1] /\ UNCHANGED <<mpc, from, goal, at>>
    <3>1. at[m] # goal[m] /\ held[m] < Len(Order(m)) /\ held[m] \in 0..4
      BY <1>3 DEF TypeOK, Statement, Locking
    <3>2. Len(Order(m)) \in 1..4
      BY <3>1, Orders
    <3>3. \A h \in 0..4, n \in 1..4 : h < n => h + 1 \in 0..4
      OBVIOUS
    <3>4. held[m] + 1 \in 0..4
      BY <3>1, <3>2, <3>3, Zenon
    <3> QED
      BY <2>1, <3>4, Updated DEF CommandTypes, TypeOK
  <2>2. CASE Ends(m, "failed")
    BY <2>2, EndsTyped
  <2> QED
    BY <1>3, <2>1, <2>2 DEF Statement
<1>4. ASSUME NEW m \in Migrators, ApplyRevision(m) PROVE CommandTypes'
  <2>1. CASE /\ at' = [at EXCEPT ![m] = StepTo(m)] /\ held' = [held EXCEPT ![m] = 0]
             /\ UNCHANGED <<mpc, from, goal>>
    <3>1. at[m] \in 0..3 /\ goal[m] \in 0..3 /\ at[m] # goal[m]
      BY <1>4 DEF TypeOK, ApplyRevision
    <3>2. StepTo(m) \in 0..3 /\ 0 \in 0..4
      BY <3>1 DEF StepTo, Up
    <3> QED
      BY <2>1, <3>2, Updated DEF CommandTypes, TypeOK
  <2>2. CASE Ends(m, "failed")
    BY <2>2, EndsTyped
  <2> QED
    BY <1>4, <2>1, <2>2 DEF ApplyRevision
<1>5. ASSUME NEW m \in Migrators, DropNothing(m) PROVE CommandTypes'
  BY <1>5, Updated DEF DropNothing, CommandTypes, TypeOK
<1>6. ASSUME NEW m \in Migrators, DeleteVersion(m) \/ CommitMigration(m) \/ MigrationFails(m)
      PROVE  CommandTypes'
  BY <1>6, EndsTyped DEF DeleteVersion, CommitMigration, MigrationFails
<1> QED
  BY <1>1, <1>2, <1>3, <1>4, <1>5, <1>6, Footprints DEF MigrationStep

\* The types of the seed runs, and of the rows they write.
SeedTypes ==
    /\ rows \in [SeedTables -> SUBSET (Seeders \cup {Earlier})]
    /\ spc \in [Seeders -> {"idle", "refused", "failed", "done"} \cup Active]
    /\ wrote \in [Seeders -> SUBSET SeedTables]
    /\ raced \subseteq SUBSET Seeders

\* A run goes on to a known place, having written known tables.
LEMMA Moves ==
    ASSUME TypeOK, NEW s \in Seeders, NEW l \in {"refused", "failed", "done"} \cup Active,
           NEW T \in SUBSET SeedTables, rows' = rows, raced' = raced,
           spc' = [spc EXCEPT ![s] = l], wrote' = [wrote EXCEPT ![s] = T]
    PROVE  SeedTypes'
<1>1. spc' \in [Seeders -> {"idle", "refused", "failed", "done"} \cup Active]
  BY Updated DEF TypeOK
<1>2. wrote' \in [Seeders -> SUBSET SeedTables]
  BY Updated DEF TypeOK
<1>3. /\ rows' \in [SeedTables -> SUBSET (Seeders \cup {Earlier})]
      /\ raced' \subseteq SUBSET Seeders
  BY DEF TypeOK
<1> QED
  BY <1>1, <1>2, <1>3 DEF SeedTypes

\* A run that rolls back, too.
LEMMA RollsBack ==
    ASSUME TypeOK, NEW s \in Seeders, RollBack(s), rows' = rows, raced' = raced
    PROVE  SeedTypes'
<1>1. "failed" \in {"refused", "failed", "done"} \cup Active /\ {} \in SUBSET SeedTables
  OBVIOUS
<1>2. spc' = [spc EXCEPT ![s] = "failed"] /\ wrote' = [wrote EXCEPT ![s] = {}]
  BY DEF RollBack, SeedGoto
<1> QED
  BY <1>1, <1>2, Moves

\* Seed runs keep their types.
LEMMA SeedTypesStep ==
    ASSUME IInv, [Next]_vars
    PROVE  SeedTypes'
<1> USE DEF IInv
<1>1. ASSUME UNCHANGED <<rows, spc, wrote, raced>> PROVE SeedTypes'
  BY <1>1 DEF TypeOK, SeedTypes
<1>2. ASSUME NEW s \in Seeders, StartSeed(s) PROVE SeedTypes'
  <2>1. raced' \subseteq SUBSET Seeders
    <3>1. {{s, o} : o \in {r \in Seeders : spc[r] \in Active}} \subseteq SUBSET Seeders
      OBVIOUS
    <3>2. raced \subseteq SUBSET Seeders
      BY DEF TypeOK
    <3> QED
      BY <1>2, <3>1, <3>2, Zenon DEF StartSeed
  <2>2. PICK l \in {"refused", "check_users"} : spc' = [spc EXCEPT ![s] = l]
    BY <1>2 DEF StartSeed, SeedGoto
  <2>3. l \in {"idle", "refused", "failed", "done"} \cup Active
    BY DEF Active
  <2>4. spc' \in [Seeders -> {"idle", "refused", "failed", "done"} \cup Active]
    BY <2>2, <2>3, Updated DEF TypeOK
  <2> QED
    BY <1>2, <2>1, <2>4 DEF StartSeed, TypeOK, SeedTypes
<1>3. ASSUME NEW s \in Seeders,
             \/ CheckUsers(s) \/ SeedUsers(s) \/ SeedCustomers(s) \/ SeedTickets(s)
             \/ CheckArticles(s) \/ SeedArticles(s) \/ SeedFails(s)
      PROVE  SeedTypes'
  <2>1. UNCHANGED <<rows, raced>>
    BY <1>3 DEF CheckUsers, SeedUsers, SeedCustomers, SeedTickets, CheckArticles, SeedArticles,
       SeedFails
  <2>2. wrote = [wrote EXCEPT ![s] = wrote[s]] /\ wrote[s] \in SUBSET SeedTables
    BY DEF TypeOK
  <2>3. \/ RollBack(s)
        \/ \E l \in Active : spc' = [spc EXCEPT ![s] = l] /\ \E T \in SUBSET SeedTables : wrote' = [wrote EXCEPT ![s] = T]
    <3>1. CASE CheckUsers(s) \/ CheckArticles(s)
      BY <2>2, <3>1 DEF CheckUsers, CheckArticles, SeedGoto, Active
    <3>2. CASE SeedUsers(s)
      BY <2>2, <3>2 DEF SeedUsers, SeedGoto, Active, SeedTables, Fixtures
    <3>3. CASE SeedCustomers(s)
      BY <2>2, <3>3 DEF SeedCustomers, SeedGoto, Active, SeedTables, Fixtures
    <3>4. CASE SeedTickets(s)
      BY <2>2, <3>4 DEF SeedTickets, SeedGoto, Active, SeedTables, Fixtures
    <3>5. CASE SeedArticles(s)
      BY <2>2, <3>5 DEF SeedArticles, SeedGoto, Active, SeedTables
    <3>6. CASE SeedFails(s)
      BY <3>6 DEF SeedFails
    <3> QED
      BY <1>3, <3>1, <3>2, <3>3, <3>4, <3>5, <3>6
  <2> QED
    BY <2>1, <2>3, Moves, RollsBack
<1>4. ASSUME NEW s \in Seeders, CommitSeed(s) PROVE SeedTypes'
  <2>1. rows' = [t \in SeedTables |-> IF t \in wrote[s] THEN rows[t] \cup {s} ELSE rows[t]]
    BY <1>4 DEF CommitSeed
  <2>2. ASSUME NEW t \in SeedTables
        PROVE  (IF t \in wrote[s] THEN rows[t] \cup {s} ELSE rows[t])
                  \in SUBSET (Seeders \cup {Earlier})
    <3>1. rows[t] \in SUBSET (Seeders \cup {Earlier})
      BY DEF TypeOK
    <3> QED
      BY <3>1
  <2>3. rows' \in [SeedTables -> SUBSET (Seeders \cup {Earlier})]
    BY <2>1, <2>2
  <2> QED
    BY <1>4, <2>3 DEF CommitSeed, SeedGoto, TypeOK, SeedTypes
<1>5. ASSUME MigrationStep, UNCHANGED <<spc, wrote, raced>> PROVE SeedTypes'
  <2>1. rows' \in [SeedTables -> SUBSET (Seeders \cup {Earlier})]
    BY <1>5 DEF MigrationStep, BeginMigration, Statement, ApplyRevision, DropNothing,
       DeleteVersion, CommitMigration, MigrationFails, TypeOK
  <2> QED
    BY <1>5, <2>1 DEF TypeOK, SeedTypes
<1> QED
  BY <1>1, <1>2, <1>3, <1>4, <1>5, Footprints DEF SeedStep, Seed

\* Everything else keeps its type.
LEMMA TypeStep ==
    ASSUME IInv, [Next]_vars
    PROVE  TypeOK'
<1> USE DEF IInv
<1>1. version' \in 0..3 /\ catalog' \subseteq Features
  <2>1. ASSUME NEW m \in Migrators, CommitMigration(m)
        PROVE  version' \in 0..3 /\ catalog' \subseteq Features
    <3>1. mpc[m] = "running" /\ at[m] \in 0..3 /\ catalog \subseteq Features
      BY <2>1 DEF CommitMigration, TypeOK
    <3>2. Visible(m) \subseteq Features
      BY <3>1, Sees, SchemaFeatures
    <3> QED
      BY <2>1, <3>1, <3>2 DEF CommitMigration, TypeOK
  <2>2. \/ UNCHANGED catalog /\ version' \in {version, 0}
        \/ \E m \in Migrators : CommitMigration(m)
    BY Footprints DEF MigrationStep, BeginMigration, Statement, ApplyRevision, DropNothing,
       DeleteVersion, MigrationFails
  <2>3. version \in 0..3 /\ catalog \subseteq Features
    BY DEF TypeOK
  <2>4. 0 \in 0..3
    OBVIOUS
  <2> QED
    BY <2>1, <2>2, <2>3, <2>4
<1>2. reviews' \in [Drafts -> {"none", "lost", "pending", "decided"}]
  <2>1. CASE MigrationStep
    BY <2>1 DEF MigrationStep, BeginMigration, Statement, ApplyRevision, DropNothing,
       DeleteVersion, CommitMigration, MigrationFails, TypeOK
  <2>2. ASSUME NEW d \in Drafts, EnqueueReview(d) \/ Decide(d)
        PROVE  \E v \in {"lost", "pending", "decided"} : reviews' = [reviews EXCEPT ![d] = v]
    <3>1. CASE EnqueueReview(d)
      BY <3>1 DEF EnqueueReview
    <3>2. CASE Decide(d)
      BY <3>2 DEF Decide
    <3> QED
      BY <2>2, <3>1, <3>2
  <2>3. ASSUME NEW q \in Searches, Query(q) \/ Store(q) PROVE UNCHANGED reviews
    BY <2>3 DEF Query, Store
  <2>4. CASE ApplicationStep
    <3>1. CASE \E d \in Drafts : EnqueueReview(d) \/ Decide(d)
      BY <2>2, <3>1 DEF TypeOK
    <3>2. CASE \E q \in Searches : Query(q) \/ Store(q)
      BY <2>3, <3>2 DEF TypeOK
    <3>3. CASE Expire \/ UNCHANGED vars
      BY <3>3 DEF Expire, vars, TypeOK
    <3> QED
      BY <2>4, <3>1, <3>2, <3>3 DEF ApplicationStep
  <2> QED
    BY <2>1, <2>4, Footprints DEF TypeOK
<1>3. /\ seen' \in [Searches -> {"nothing", "no results", "articles"}]
      /\ cache' \in {"nothing", "no results", "articles"}
  <2>1. CASE ApplicationStep
    BY <2>1 DEF ApplicationStep, EnqueueReview, Decide, Query, Store, Expire,
       vars, TypeOK, searchVars
  <2> QED
    BY <2>1, Footprints DEF TypeOK, searchVars
<1> QED
  BY <1>1, <1>2, <1>3, CommandTypesStep, SeedTypesStep DEF TypeOK, CommandTypes, SeedTypes

\* What one command has of the locks and of the schema does not depend on the others.
LEMMA Others ==
    ASSUME NEW o, mpc'[o] = mpc[o], from'[o] = from[o], goal'[o] = goal[o], at'[o] = at[o],
           held'[o] = held[o]
    PROVE  /\ Busy(o)' <=> Busy(o)
           /\ LockedBy(o)' = LockedBy(o)
           /\ Order(o)' = Order(o)
           /\ Up(o)' <=> Up(o)
<1>1. Applied(o)' = Applied(o) /\ (Up(o)' <=> Up(o))
  BY DEF Applied, Up
<1>2. Order(o)' = Order(o)
  BY <1>1 DEF Order, UpOrder, DownOrder, NextRevision, Up
<1> QED
  BY <1>1, <1>2 DEF LockedBy, Locks, Fixtures, Busy

\* When a command ends, the others are what they were.
LEMMA EndsIdle ==
    ASSUME TypeOK, NEW m \in Migrators, NEW how \in {"failed", "done", "astray"}, Ends(m, how)
    PROVE  /\ mpc'[m] = how /\ held'[m] = 0 /\ ~Busy(m)' /\ LockedBy(m)' = {}
           /\ \A o \in Migrators \ {m} :
                 /\ mpc'[o] = mpc[o] /\ from'[o] = from[o] /\ goal'[o] = goal[o]
                 /\ at'[o] = at[o] /\ held'[o] = held[o]
<1>1. /\ mpc'[m] = how /\ from'[m] = 0 /\ at'[m] = 0 /\ held'[m] = 0
      /\ \A o \in Migrators \ {m} :
            /\ mpc'[o] = mpc[o] /\ from'[o] = from[o] /\ goal'[o] = goal[o]
            /\ at'[o] = at[o] /\ held'[o] = held[o]
  BY DEF Ends, TypeOK
<1>2. Applied(m)' = {}
  BY <1>1 DEF Applied
<1> QED
  BY <1>1, <1>2 DEF Busy, LockedBy

\* What is said of one command.
Migrates(m) ==
    /\ Busy(m) => version = from[m] /\ catalog = SchemaAt(version)
    /\ \A o \in Migrators \ {m} : LockedBy(m) \cap LockedBy(o) = {}
    /\ held[m] > 0 => mpc[m] = "running" /\ at[m] # goal[m] /\ held[m] <= Len(Order(m))
    /\ held[m] > 0 /\ ~Busy(m) /\ Up(m) /\ at[m] = 0 => "baseline" \notin catalog
    /\ mpc[m] = "blind" => from[m] = 1

\* Who goes astray stays there.
LEMMA AstrayStays ==
    ASSUME TypeOK, MigrationStep
    PROVE  \A m \in Migrators : mpc[m] = "astray" => mpc'[m] = "astray"
<1> SUFFICES ASSUME NEW m \in Migrators, mpc[m] = "astray" PROVE mpc'[m] = "astray"
  OBVIOUS
<1>1. PICK o \in Migrators :
         \/ BeginMigration(o) \/ Statement(o) \/ ApplyRevision(o) \/ DropNothing(o)
         \/ DeleteVersion(o) \/ CommitMigration(o) \/ MigrationFails(o)
  BY DEF MigrationStep
<1>2. mpc[o] \in {"idle", "running", "blind"}
  BY <1>1 DEF BeginMigration, Statement, Locking, ApplyRevision, DropNothing, DeleteVersion,
     CommitMigration, MigrationFails
<1>3. \E l : mpc' = [mpc EXCEPT ![o] = l]
  <2>1. mpc = [mpc EXCEPT ![o] = mpc[o]]
    BY DEF TypeOK
  <2> QED
    BY <1>1, <2>1 DEF BeginMigration, Statement, ApplyRevision, DropNothing, DeleteVersion,
       CommitMigration, MigrationFails, Ends
<1> QED
  BY <1>2, <1>3 DEF TypeOK

\* A step of one command that leaves the schema alone keeps what is said of the others,
\* if it locks only what is free.
LEMMA OthersMigrate ==
    ASSUME TypeOK, MigrationInv, NEW m \in Migrators, version' = version, catalog' = catalog,
           \A o \in Migrators \ {m} :
              /\ mpc'[o] = mpc[o] /\ from'[o] = from[o] /\ goal'[o] = goal[o]
              /\ at'[o] = at[o] /\ held'[o] = held[o]
              /\ LockedBy(m)' \cap LockedBy(o) = {}
    PROVE  /\ \A o \in Migrators \ {m} : Migrates(o)' /\ LockedBy(m)' \cap LockedBy(o)' = {}
           /\ SchemaAt(version)' = SchemaAt(version)
<1>1. SchemaAt(version)' = SchemaAt(version)
  BY DEF SchemaAt, Changes
<1>2. \A o \in Migrators \ {m} : /\ Busy(o)' <=> Busy(o)
                                 /\ LockedBy(o)' = LockedBy(o)
                                 /\ Order(o)' = Order(o)
                                 /\ Up(o)' <=> Up(o)
  BY Others
<1>3. ASSUME NEW o \in Migrators \ {m} PROVE Migrates(o)'
  <2>1. \A p \in Migrators \ {o} : LockedBy(o)' \cap LockedBy(p)' = {}
    BY <1>2 DEF MigrationInv
  <2> QED
    BY <1>1, <1>2, <2>1 DEF MigrationInv, Migrates
<1> QED
  BY <1>1, <1>2, <1>3

\* A command that ends without committing keeps what is said of all.
LEMMA EndsMigration ==
    ASSUME TypeOK, MigrationInv, NEW m \in Migrators, NEW how \in {"failed", "done", "astray"},
           Ends(m, how), version' = version, catalog' = catalog
    PROVE  \A o \in Migrators : Migrates(o)'
<1>1. /\ mpc'[m] = how /\ held'[m] = 0 /\ ~Busy(m)' /\ LockedBy(m)' = {}
      /\ \A o \in Migrators \ {m} :
            /\ mpc'[o] = mpc[o] /\ from'[o] = from[o] /\ goal'[o] = goal[o]
            /\ at'[o] = at[o] /\ held'[o] = held[o]
  BY EndsIdle
<1>2. Migrates(m)'
  BY <1>1 DEF Migrates
<1> QED
  BY <1>1, <1>2, OthersMigrate

\* A revision that has its next table, or refuses to go on.
LEMMA StatementStep ==
    ASSUME TypeOK, MigrationInv, NEW m \in Migrators, Statement(m)
    PROVE  \A o \in Migrators : Migrates(o)'
<1>1. version' = version /\ catalog' = catalog /\ Locking(m) /\ Blockers(m) = {}
  BY DEF Statement
<1>2. CASE ~Possible(m)
  BY <1>1, <1>2, EndsMigration DEF Statement
<1>3. CASE Possible(m)
  <2>1. held' = [held EXCEPT ![m] = held[m] + 1] /\ UNCHANGED <<mpc, from, goal, at>>
    BY <1>3 DEF Statement
  <2>2. /\ mpc[m] = "running" /\ at[m] # goal[m] /\ held[m] < Len(Order(m))
        /\ at[m] \in 0..3 /\ goal[m] \in 0..3 /\ from[m] \in 0..3 /\ held[m] \in 0..4
        /\ Len(Order(m)) \in 1..4
    BY <1>1, Orders DEF Locking, TypeOK
  <2>3. ~Refused(m)
    <3>1. CASE Up(m)
      BY <1>3, <3>1, RevisionsAre DEF Possible, UpgradePossible, Refused
    <3>2. CASE ~Up(m)
      BY <1>3, <3>2 DEF Possible, DowngradePossible, Refused
    <3> QED
      BY <3>1, <3>2
  <2>4. \A o \in Migrators \ {m} : Order(m)[held[m] + 1] \notin LockedBy(o)
    BY <1>1, <2>3 DEF Blockers, MigrationBlockers
  <2>5. held'[m] = held[m] + 1 /\ \A o \in Migrators \ {m} : held'[o] = held[o]
    BY <2>1 DEF TypeOK
  <2>6. /\ Applied(m)' = Applied(m) /\ (Up(m)' <=> Up(m)) /\ Order(m)' = Order(m)
        /\ Busy(m)' <=> Busy(m)
    BY <2>1 DEF Applied, Up, Order, NextRevision, UpOrder, DownOrder, Busy
  <2>7. LockedBy(m)' = LockedBy(m) \cup {Order(m)[held[m] + 1]}
    <3>1. 1 .. held[m] + 1 = (1 .. held[m]) \cup {held[m] + 1}
      BY <2>2
    <3>2. {Order(m)'[i] : i \in 1 .. held'[m]}
             = {Order(m)[i] : i \in 1 .. held[m]} \cup {Order(m)[held[m] + 1]}
      BY <2>5, <2>6, <3>1
    <3>3. LockedBy(m)' = (UNION {Locks[n] : n \in Applied(m)})
                            \cup {Order(m)'[i] : i \in 1 .. held'[m]}
      BY <2>6 DEF LockedBy, Locks, Fixtures
    <3> QED
      BY <3>2, <3>3 DEF LockedBy
  <2>8. \A o \in Migrators \ {m} : LockedBy(m)' \cap LockedBy(o) = {}
    BY <2>4, <2>7 DEF MigrationInv
  <2>9. /\ \A o \in Migrators \ {m} : Migrates(o)' /\ LockedBy(m)' \cap LockedBy(o)' = {}
        /\ SchemaAt(version)' = SchemaAt(version)
    BY <1>1, <2>1, <2>5, <2>8, OthersMigrate
  <2>10. ~Busy(m) /\ Up(m) /\ at[m] = 0 => "baseline" \notin catalog
    BY <1>3, <2>2 DEF Possible, UpgradePossible, NextRevision, Visible, Applied, Busy
  <2>11. Migrates(m)'
    BY <1>1, <2>1, <2>2, <2>5, <2>6, <2>9, <2>10 DEF MigrationInv, Migrates
  <2> QED
    BY <2>9, <2>11
<1> QED
  BY <1>2, <1>3

\* The schema is that of the version as long as a command is busy, or it has locked
\* the names of the baseline in vain.
LEMMA ApplyStep ==
    ASSUME TypeOK, MigrationInv, NEW m \in Migrators, ApplyRevision(m)
    PROVE  \A o \in Migrators : Migrates(o)'
<1>1. version' = version /\ catalog' = catalog /\ mpc[m] = "running" /\ at[m] # goal[m]
      /\ held[m] = Len(Order(m))
  BY DEF ApplyRevision
<1>2. CASE ~Versioned(m)
  BY <1>1, <1>2, EndsMigration DEF ApplyRevision
<1>3. CASE Versioned(m)
  <2>1. /\ at' = [at EXCEPT ![m] = StepTo(m)] /\ held' = [held EXCEPT ![m] = 0]
        /\ UNCHANGED <<mpc, from, goal>> /\ version = from[m]
    BY <1>3 DEF ApplyRevision, Versioned
  <2>2. /\ at[m] \in 0..3 /\ goal[m] \in 0..3 /\ from[m] \in 0..3 /\ Len(Order(m)) \in 1..4
        /\ {Order(m)[i] : i \in 1 .. Len(Order(m))} = Locks[NextRevision(m)]
    BY <1>1, Orders DEF TypeOK
  <2>3. /\ at'[m] = StepTo(m) /\ held'[m] = 0
        /\ \A o \in Migrators \ {m} : at'[o] = at[o] /\ held'[o] = held[o]
    BY <2>1 DEF TypeOK
  <2>4. Applied(m)' \subseteq Applied(m) \cup {NextRevision(m)}
    <3>1. mpc'[m] = "running" /\ from'[m] = from[m]
      BY <1>1, <2>1
    <3> QED
      BY <1>1, <2>2, <2>3, <3>1 DEF Applied, StepTo, NextRevision, Up
  <2>5. LockedBy(m)' \subseteq LockedBy(m)
    <3>1. LockedBy(m)' = UNION {Locks[n] : n \in Applied(m)'}
      BY <2>3 DEF LockedBy, Locks, Fixtures
    <3>2. LockedBy(m) = (UNION {Locks[n] : n \in Applied(m)}) \cup Locks[NextRevision(m)]
      BY <1>1, <2>2 DEF LockedBy
    <3> QED
      BY <2>4, <3>1, <3>2
  <2>6. /\ \A o \in Migrators \ {m} : Migrates(o)' /\ LockedBy(m)' \cap LockedBy(o)' = {}
        /\ SchemaAt(version)' = SchemaAt(version)
    <3>1. \A o \in Migrators \ {m} : LockedBy(m)' \cap LockedBy(o) = {}
      BY <2>5 DEF MigrationInv
    <3> QED
      BY <1>1, <2>1, <2>3, <3>1, OthersMigrate
  <2>7. catalog = SchemaAt(version)
    <3>1. CASE Busy(m)
      BY <3>1 DEF MigrationInv
    <3>2. CASE ~Busy(m) /\ Astray
      <4>1. at[m] = 0 /\ Up(m)
        BY <1>1, <2>1, <2>2, <3>2 DEF Busy, Astray, Up
      <4>2. "baseline" \in catalog
        BY <3>2, Schemas, RevisionsAre DEF Astray
      <4>3. held[m] \in 1..4
        BY <1>1, <2>2, Zenon
      <4>4. held[m] > 0
        BY <4>3
      <4> QED
        BY <3>2, <4>1, <4>2, <4>4 DEF MigrationInv
    <3> QED
      BY <3>1, <3>2 DEF MigrationInv
  <2>8. Migrates(m)'
    BY <1>1, <2>1, <2>3, <2>6, <2>7 DEF Migrates
  <2> QED
    BY <2>6, <2>8
<1> QED
  BY <1>2, <1>3

\* A busy command that commits finds no other, and leaves the names of the baseline
\* to nobody who has locked them.
LEMMA CommitStep ==
    ASSUME TypeOK, MigrationInv, NEW m \in Migrators, CommitMigration(m), Busy(m)
    PROVE  (\A o \in Migrators : Migrates(o)') /\ (catalog = SchemaAt(version))'
<1>1. /\ Ends(m, "done") /\ mpc[m] = "running"
      /\ version' = at[m] /\ version = from[m] /\ catalog = SchemaAt(version)
      /\ from[m] \in 0..3
    BY DEF CommitMigration, Busy, MigrationInv, TypeOK
<1>2. catalog' = SchemaAt(at[m])
  BY <1>1, Sees DEF CommitMigration
<1>3. (catalog = SchemaAt(version))'
  BY <1>1, <1>2 DEF SchemaAt, Changes
<1>4. /\ mpc'[m] = "done" /\ held'[m] = 0 /\ ~Busy(m)' /\ LockedBy(m)' = {}
      /\ \A o \in Migrators \ {m} :
            /\ mpc'[o] = mpc[o] /\ from'[o] = from[o] /\ goal'[o] = goal[o]
            /\ at'[o] = at[o] /\ held'[o] = held[o]
  BY <1>1, EndsIdle
<1>5. ASSUME NEW o \in Migrators \ {m} PROVE Migrates(o)'
  <2>1. \A p \in Migrators \ {m} : /\ Busy(p)' <=> Busy(p)
                                   /\ LockedBy(p)' = LockedBy(p)
                                   /\ Order(p)' = Order(p)
                                   /\ Up(p)' <=> Up(p)
    BY <1>4, Others
  <2>2. ~Busy(o)'
    BY <2>1, OneBusy
  <2>3. \A p \in Migrators \ {o} : LockedBy(o)' \cap LockedBy(p)' = {}
    BY <1>4, <2>1 DEF MigrationInv
  <2>4. ASSUME held[o] > 0, ~Busy(o), Up(o), at[o] = 0 PROVE FALSE
    <3>1. "baseline" \notin catalog
      BY <2>4 DEF MigrationInv
    <3>2. from[m] = 0
      BY <1>1, <3>1, Schemas, RevisionsAre
    <3>3. "customers" \in LockedBy(m)
      BY <3>2, BusyLocks
    <3>4. Order(o)[1] = "customers"
      BY <2>4, OrdersAre DEF Order, NextRevision
    <3>5. held[o] \in 0..4
      BY DEF TypeOK
    <3>6. "customers" \in LockedBy(o)
      BY <2>4, <3>4, <3>5 DEF LockedBy
    <3> QED
      BY <3>3, <3>6 DEF MigrationInv
  <2> QED
    BY <1>4, <2>1, <2>2, <2>3, <2>4 DEF MigrationInv, Migrates
<1>6. Migrates(m)'
  BY <1>4 DEF Migrates
<1> QED
  BY <1>3, <1>5, <1>6

\* The steps preserve what is said of each command.
LEMMA MigratesStep ==
    ASSUME IInv, [Next]_vars
    PROVE  \A m \in Migrators : Migrates(m)'
<1> USE DEF IInv
<1>1. ASSUME UNCHANGED <<version, catalog, mpc, from, goal, at, held>>
      PROVE  \A m \in Migrators : Migrates(m)'
  <2>1. \A o \in Migrators : /\ Busy(o)' <=> Busy(o)
                             /\ LockedBy(o)' = LockedBy(o)
                             /\ Order(o)' = Order(o)
                             /\ Up(o)' <=> Up(o)
    BY <1>1, Others
  <2>2. SchemaAt(version)' = SchemaAt(version)
    BY <1>1 DEF SchemaAt, Changes
  <2> QED
    BY <1>1, <2>1, <2>2 DEF MigrationInv, Migrates
<1>2. ASSUME NEW m \in Migrators, BeginMigration(m) PROVE \A o \in Migrators : Migrates(o)'
  <2>1. /\ version' = version /\ catalog' = catalog /\ held' = held
        /\ mpc'[m] = "running" /\ from'[m] = version /\ at'[m] = version
        /\ \A o \in Migrators \ {m} :
              /\ mpc'[o] = mpc[o] /\ from'[o] = from[o] /\ goal'[o] = goal[o] /\ at'[o] = at[o]
    BY <1>2 DEF BeginMigration, TypeOK
  <2>2. held[m] = 0
    BY <1>2, IdleHolds DEF BeginMigration
  <2>3. ~Busy(m)' /\ LockedBy(m)' = {}
    <3>1. version \in 0..3
      BY DEF TypeOK
    <3>2. version + 1 .. version = {}
      BY <3>1
    <3>3. Applied(m)' = {}
      BY <2>1, <3>2 DEF Applied
    <3> QED
      BY <2>1, <2>2, <3>3 DEF Busy, LockedBy
  <2>4. Migrates(m)'
    BY <2>1, <2>2, <2>3 DEF Migrates
  <2> QED
    BY <2>1, <2>3, <2>4, OthersMigrate
<1>3. ASSUME NEW m \in Migrators, DropNothing(m) PROVE \A o \in Migrators : Migrates(o)'
  <2>1. /\ version' = version /\ catalog' = catalog /\ held' = held /\ mpc'[m] = "blind"
        /\ from' = from /\ goal' = goal /\ at' = at /\ held[m] = 0 /\ mpc[m] = "running"
        /\ \A o \in Migrators \ {m} : mpc'[o] = mpc[o]
    BY <1>3 DEF DropNothing, NothingToDrop, TypeOK
  <2>2. ~Busy(m)' /\ LockedBy(m)' = {}
    <3>1. Applied(m)' = {}
      BY <2>1 DEF Applied
    <3> QED
      BY <2>1, <3>1 DEF Busy, LockedBy
  <2>3. at[m] = 1 /\ "baseline" \notin Visible(m)
    BY <1>3 DEF DropNothing, NothingToDrop, NextRevision
  <2>4. from[m] = 1
    BY <2>1, <2>3, Sees, Schemas, RevisionsAre DEF Busy
  <2>5. Migrates(m)'
    BY <2>1, <2>2, <2>4 DEF Migrates
  <2> QED
    BY <2>1, <2>2, <2>5, OthersMigrate
<1>4. ASSUME NEW m \in Migrators, DeleteVersion(m) PROVE \A o \in Migrators : Migrates(o)'
  <2>1. CASE version' = version
    BY <1>4, <2>1, EndsMigration DEF DeleteVersion
  <2>2. CASE Versioned(m) /\ Ends(m, "astray")
    <3>1. \A o \in Migrators : ~Busy(o)
      <4>1. ~Locking(m) /\ mpc[m] = "blind" /\ Blockers(m) = {}
        BY <1>4 DEF DeleteVersion, Locking
      <4>2. \A o \in Migrators : Applied(o) = {}
        BY <2>2, <4>1 DEF Blockers, MigrationBlockers
      <4> QED
        BY <4>2, AppliedBusy
    <3>2. /\ catalog' = catalog /\ mpc'[m] = "astray" /\ held'[m] = 0 /\ ~Busy(m)'
          /\ LockedBy(m)' = {}
          /\ \A o \in Migrators \ {m} :
                /\ mpc'[o] = mpc[o] /\ from'[o] = from[o] /\ goal'[o] = goal[o]
                /\ at'[o] = at[o] /\ held'[o] = held[o]
      BY <1>4, <2>2, EndsIdle DEF DeleteVersion
    <3>3. ASSUME NEW o \in Migrators \ {m} PROVE Migrates(o)'
      <4>1. \A p \in Migrators \ {m} : /\ Busy(p)' <=> Busy(p)
                                       /\ LockedBy(p)' = LockedBy(p)
                                       /\ Order(p)' = Order(p)
                                       /\ Up(p)' <=> Up(p)
        BY <3>2, Others
      <4>2. \A p \in Migrators \ {o} : LockedBy(o)' \cap LockedBy(p)' = {}
        BY <3>2, <4>1 DEF MigrationInv
      <4> QED
        BY <3>1, <3>2, <4>1, <4>2 DEF MigrationInv, Migrates
    <3>4. Migrates(m)'
      BY <3>2 DEF Migrates
    <3> QED
      BY <3>3, <3>4
  <2> QED
    BY <1>4, <2>1, <2>2 DEF DeleteVersion
<1>5. ASSUME NEW m \in Migrators, CommitMigration(m) PROVE \A o \in Migrators : Migrates(o)'
  <2>1. CASE ~Busy(m)
    BY <1>5, <2>1, Sees, EndsMigration DEF CommitMigration, Busy
  <2> QED
    BY <1>5, <2>1, CommitStep
<1>6. ASSUME NEW m \in Migrators, MigrationFails(m) PROVE \A o \in Migrators : Migrates(o)'
  BY <1>6, EndsMigration DEF MigrationFails
<1> QED
  BY <1>1, <1>2, <1>3, <1>4, <1>5, <1>6, StatementStep, ApplyStep, Footprints DEF MigrationStep

\* The steps preserve the invariant of the commands.
LEMMA MigrationInvStep ==
    ASSUME IInv, [Next]_vars
    PROVE  MigrationInv'
<1> USE DEF IInv
<1>1. (catalog = SchemaAt(version))' \/ Astray'
  <2>1. ASSUME UNCHANGED <<version, catalog>>,
               \A m \in Migrators : mpc[m] = "astray" => mpc'[m] = "astray"
        PROVE  (catalog = SchemaAt(version))' \/ Astray'
    <3>1. SchemaAt(version)' = SchemaAt(version) /\ SchemaAt(1)' = SchemaAt(1)
      BY <2>1 DEF SchemaAt, Changes
    <3> QED
      BY <2>1, <3>1 DEF MigrationInv, Astray
  <2>2. ASSUME NEW m \in Migrators, CommitMigration(m)
        PROVE  (catalog = SchemaAt(version))' \/ Astray'
    <3>1. CASE Busy(m)
      BY <2>2, <3>1, CommitStep
    <3>2. CASE ~Busy(m)
      BY <2>1, <2>2, <3>2, Sees, AstrayStays DEF CommitMigration, Busy, MigrationStep
    <3> QED
      BY <3>1, <3>2
  <2>3. ASSUME NEW m \in Migrators, DeleteVersion(m), version' # version
        PROVE  Astray'
    <3>1. version' = 0 /\ version = from[m] /\ from[m] = 1 /\ catalog' = catalog
      BY <2>3 DEF DeleteVersion, Versioned, MigrationInv
    <3>2. mpc'[m] = "astray"
      BY <2>3 DEF DeleteVersion, Ends, TypeOK
    <3>3. SchemaAt(1)' = SchemaAt(1)
      BY DEF SchemaAt, Changes
    <3> QED
      BY <3>1, <3>2, <3>3 DEF MigrationInv, Astray
  <2>4. CASE MigrationStep
    BY <2>1, <2>2, <2>3, <2>4, AstrayStays DEF MigrationStep, BeginMigration, Statement,
       ApplyRevision, DropNothing, DeleteVersion, MigrationFails
  <2> QED
    BY <2>1, <2>4, Footprints
<1> QED
  BY <1>1, MigratesStep DEF MigrationInv, Migrates

-----------------------------------------------------------------------------
(* Review items *)

\* Which schemas have what the review items need.
LEMMA ReviewSchemas ==
    ASSUME NEW v \in 0..3
    PROVE  /\ Changes[2] \subseteq SchemaAt(v) => v >= 2
           /\ v >= 2 => "baseline" \in SchemaAt(v)
<1>1. v = 0 \/ v = 1 \/ v = 2 \/ v = 3
  OBVIOUS
<1>2. Changes[1] = {"baseline"} /\ "draft_columns" \in Changes[2]
  BY RevisionsAre
<1> QED
  BY <1>1, <1>2, Schemas

\* A command takes no table of a review item away.
LEMMA ReviewedKept ==
    ASSUME TypeOK, MigrationInv, ReviewInv, NEW m \in Migrators, mpc[m] = "running",
           NEW d \in Drafts, Reviewed(d)
    PROVE  /\ "baseline" \in Visible(m)
           /\ Busy(m) => at[m] >= 2
<1>1. version \in 0..3 /\ at[m] \in 0..3 /\ version >= 2
  BY DEF TypeOK, ReviewInv
<1>2. Busy(m) => at[m] >= 2
  BY <1>1 DEF ReviewInv, MigrationInv, Busy
<1>3. Visible(m) = IF Busy(m) THEN SchemaAt(at[m]) ELSE SchemaAt(version)
  BY <1>1, Sees DEF MigrationInv, Astray
<1> QED
  BY <1>1, <1>2, <1>3, ReviewSchemas

\* A command that ends without changing the version keeps what is said of review items.
LEMMA EndsReviews ==
    ASSUME TypeOK, ReviewInv, NEW m \in Migrators, NEW how \in {"failed", "done", "astray"},
           Ends(m, how), \A d \in Drafts : Reviewed(d)' => Reviewed(d) /\ version' >= 2
    PROVE  ReviewInv'
<1>1. /\ mpc'[m] = how
      /\ \A o \in Migrators \ {m} :
            /\ mpc'[o] = mpc[o] /\ from'[o] = from[o] /\ goal'[o] = goal[o]
            /\ at'[o] = at[o] /\ held'[o] = held[o]
  BY EndsIdle
<1> QED
  BY <1>1 DEF ReviewInv, Up

\* The steps of alembic preserve the invariant of the review items.
LEMMA ReviewInvMigration ==
    ASSUME IInv, MigrationStep
    PROVE  ReviewInv'
<1> USE DEF IInv
<1>1. ASSUME NEW m \in Migrators, BeginMigration(m) PROVE ReviewInv'
  <2>1. /\ version' = version /\ reviews' = reviews /\ held' = held /\ from'[m] = at'[m]
        /\ \A o \in Migrators \ {m} :
              /\ mpc'[o] = mpc[o] /\ from'[o] = from[o] /\ goal'[o] = goal[o] /\ at'[o] = at[o]
    BY <1>1 DEF BeginMigration, TypeOK
  <2>2. held[m] = 0
    BY <1>1, IdleHolds DEF BeginMigration
  <2> QED
    BY <2>1, <2>2 DEF ReviewInv, Reviewed, Up
<1>2. ASSUME NEW m \in Migrators, Statement(m) PROVE ReviewInv'
  <2>1. version' = version /\ reviews' = reviews
    BY <1>2 DEF Statement
  <2>2. CASE Possible(m)
    <3>1. /\ held' = [held EXCEPT ![m] = held[m] + 1] /\ UNCHANGED <<mpc, from, goal, at>>
      BY <1>2, <2>2 DEF Statement
    <3>2. at[m] = 2 /\ ~Up(m) => \A d \in Drafts : ~Reviewed(d)
      BY <2>2 DEF Possible, DowngradePossible, NextRevision, Reviewed
    <3>3. \A o \in Migrators \ {m} : held'[o] = held[o]
      BY <3>1 DEF TypeOK
    <3> QED
      BY <2>1, <3>1, <3>2, <3>3 DEF ReviewInv, Reviewed, Up
  <2>3. CASE ~Possible(m)
    BY <1>2, <2>1, <2>3, EndsReviews DEF Statement, Reviewed, ReviewInv
  <2> QED
    BY <2>2, <2>3
<1>3. ASSUME NEW m \in Migrators, ApplyRevision(m) PROVE ReviewInv'
  <2>1. version' = version /\ reviews' = reviews
    BY <1>3 DEF ApplyRevision
  <2>2. CASE Versioned(m)
    <3>1. /\ at' = [at EXCEPT ![m] = StepTo(m)] /\ held' = [held EXCEPT ![m] = 0]
          /\ UNCHANGED <<mpc, from, goal>> /\ mpc[m] = "running"
          /\ at[m] # goal[m] /\ held[m] = Len(Order(m))
      BY <1>3, <2>2 DEF ApplyRevision
    <3>2. at[m] \in 0..3 /\ goal[m] \in 0..3 /\ from[m] \in 0..3 /\ held[m] \in 1..4
      BY <3>1, Orders DEF TypeOK
    <3>3. ASSUME NEW d \in Drafts, Reviewed(d), from[m] >= 2 PROVE at'[m] >= 2
      <4>1. at[m] >= 2 /\ ~(at[m] = 2 /\ ~Up(m))
        <5>1. at[m] >= 2 /\ (at[m] = 2 /\ ~Up(m) => held[m] = 0)
          BY <3>1, <3>3 DEF ReviewInv
        <5> QED
          BY <3>2, <5>1
      <4>2. at'[m] = StepTo(m)
        BY <3>1 DEF TypeOK
      <4> QED
        BY <3>2, <4>1, <4>2 DEF StepTo
    <3>4. held'[m] = 0 /\ \A o \in Migrators \ {m} : at'[o] = at[o] /\ held'[o] = held[o]
      BY <3>1 DEF TypeOK
    <3> QED
      BY <2>1, <3>1, <3>3, <3>4 DEF ReviewInv, Reviewed, Up
  <2>3. CASE ~Versioned(m)
    BY <1>3, <2>1, <2>3, EndsReviews DEF ApplyRevision, Reviewed, ReviewInv
  <2> QED
    BY <2>2, <2>3
<1>4. ASSUME NEW m \in Migrators, DropNothing(m) PROVE ReviewInv'
  <2>1. /\ UNCHANGED <<version, reviews, from, goal, at, held>> /\ mpc'[m] = "blind"
        /\ \A o \in Migrators \ {m} : mpc'[o] = mpc[o]
    BY <1>4 DEF DropNothing, TypeOK
  <2> QED
    BY <2>1 DEF ReviewInv, Reviewed, Up
<1>5. ASSUME NEW m \in Migrators, DeleteVersion(m) PROVE ReviewInv'
  <2>1. reviews' = reviews
    BY <1>5 DEF DeleteVersion
  <2>2. CASE version' = version
    BY <1>5, <2>1, <2>2, EndsReviews DEF DeleteVersion, Reviewed, ReviewInv
  <2>3. CASE version' # version
    <3>1. version = 1
      BY <1>5, <2>3 DEF DeleteVersion, Versioned, MigrationInv
    <3>2. \A d \in Drafts : ~Reviewed(d)
      BY <3>1 DEF ReviewInv
    <3> QED
      BY <2>1, <3>2 DEF ReviewInv, Reviewed
  <2> QED
    BY <2>2, <2>3
<1>6. ASSUME NEW m \in Migrators, CommitMigration(m) PROVE ReviewInv'
  <2>1. mpc[m] = "running" /\ Ends(m, "done")
        /\ version' = IF from[m] = at[m] THEN version ELSE at[m]
    BY <1>6 DEF CommitMigration
  <2>2. ASSUME NEW d \in Drafts, Reviewed(d)' PROVE Reviewed(d)
    BY <1>6, <2>2 DEF CommitMigration, Reviewed, TypeOK
  <2>3. ASSUME NEW d \in Drafts, Reviewed(d) PROVE version' >= 2
    BY <2>1, <2>3, ReviewedKept DEF ReviewInv, Busy
  <2> QED
    BY <2>1, <2>2, <2>3, EndsReviews
<1>7. ASSUME NEW m \in Migrators, MigrationFails(m) PROVE ReviewInv'
  BY <1>7, EndsReviews DEF MigrationFails, Reviewed, ReviewInv
<1> QED
  BY <1>1, <1>2, <1>3, <1>4, <1>5, <1>6, <1>7 DEF MigrationStep

\* All steps do.
LEMMA ReviewInvStep ==
    ASSUME IInv, [Next]_vars
    PROVE  ReviewInv'
<1> USE DEF IInv
<1>1. ASSUME UNCHANGED <<version, reviews, mpc, from, goal, at, held>> PROVE ReviewInv'
  BY <1>1 DEF ReviewInv, Reviewed, Up
<1>2. ASSUME NEW d \in Drafts, EnqueueReview(d) PROVE ReviewInv'
  <2>1. UNCHANGED <<version, mpc, from, goal, at, held>> /\ version \in 0..3
    BY <1>2 DEF EnqueueReview, migrationVars, TypeOK
  <2>2. \A o \in Drafts \ {d} : reviews'[o] = reviews[o]
    BY <1>2 DEF EnqueueReview, TypeOK
  <2>3. ASSUME Reviewed(d)'
        PROVE  /\ version >= 2
               /\ \A m \in Migrators : mpc[m] = "running" =>
                     /\ from[m] >= 2 => at[m] >= 2
                     /\ at[m] = 2 /\ ~Up(m) => held[m] = 0
    <3>1. Changes[2] \subseteq catalog /\ "baseline" \in catalog /\ ~Waits("approval_requests")
      BY <1>2, <2>3 DEF EnqueueReview, Reviewed, TypeOK
    <3>2. version >= 2
      <4>1. ~Astray
        BY <3>1, ReviewSchemas DEF Astray
      <4> QED
        BY <2>1, <3>1, <4>1, ReviewSchemas DEF MigrationInv
    <3>3. \A m \in Migrators : "approval_requests" \notin LockedBy(m)
      BY <3>1 DEF Waits, TableExists, TableIn
    <3>4. ASSUME NEW m \in Migrators, at[m] = 2, ~Up(m), held[m] # 0
          PROVE  FALSE
      <4>1. Order(m)[1] = "approval_requests"
        BY <3>4, OrdersAre DEF Order, NextRevision
      <4>2. held[m] \in 0..4
        BY DEF TypeOK
      <4>3. Order(m)[1] \in LockedBy(m)
        BY <3>4, <4>2 DEF LockedBy
      <4> QED
        BY <3>3, <4>1, <4>3
    <3>5. \A m \in Migrators : ~Busy(m)
      BY <3>3, BusyLocks
    <3> QED
      BY <3>2, <3>4, <3>5 DEF Busy
  <2> QED
    BY <2>1, <2>2, <2>3 DEF ReviewInv, Reviewed, Up
<1>3. ASSUME NEW d \in Drafts, Decide(d) PROVE ReviewInv'
  <2>1. UNCHANGED <<version, mpc, from, goal, at, held>> /\ Reviewed(d)
        /\ \A o \in Drafts \ {d} : reviews'[o] = reviews[o]
    BY <1>3 DEF Decide, migrationVars, Reviewed, TypeOK
  <2> QED
    BY <2>1 DEF ReviewInv, Reviewed, Up
<1>4. ASSUME ApplicationStep, UNCHANGED <<version, mpc, from, goal, at, held>> PROVE ReviewInv'
  <2>1. ASSUME UNCHANGED reviews PROVE ReviewInv'
    BY <1>1, <1>4, <2>1
  <2> QED
    BY <1>2, <1>3, <1>4, <2>1 DEF ApplicationStep, Query, Store, Expire, vars
<1> QED
  BY <1>1, <1>4, ReviewInvMigration, Footprints

-----------------------------------------------------------------------------
(* Seed runs *)

\* What is said of one run, where it stands.
Placed(s) ==
    /\ spc[s] \notin Active \/ spc[s] \in {"check_users", "users"} => wrote[s] = {}
    /\ spc[s] = "customers" => wrote[s] = {"users"}
    /\ spc[s] = "tickets" => wrote[s] = {"users", "customers"}
    /\ spc[s] \in {"check_articles", "knowledge_articles"} => wrote[s] \in {{}, Fixtures}
    /\ spc[s] = "commit" => wrote[s] \cap Fixtures \in {{}, Fixtures}
    /\ "knowledge_articles" \in wrote[s] => spc[s] = "commit"

\* A run that writes articles knows every run that has committed some.
Knows(s) ==
    spc[s] = "knowledge_articles" \/ "knowledge_articles" \in wrote[s] =>
        \A r \in rows["knowledge_articles"] : {r, s} \in raced

\* Where a run goes in a step, and what is then said of it.
LEMMA RunStep ==
    ASSUME IInv, NEW s \in Seeders,
           \/ StartSeed(s) \/ CheckUsers(s) \/ SeedUsers(s) \/ SeedCustomers(s) \/ SeedTickets(s)
           \/ CheckArticles(s) \/ SeedArticles(s) \/ CommitSeed(s) \/ RollBack(s)
    PROVE  Placed(s)' /\ \A o \in Seeders \ {s} : spc'[o] = spc[o] /\ wrote'[o] = wrote[o]
<1> USE DEF IInv
<1>1. Placed(s) /\ spc \in [Seeders -> {"idle", "refused", "failed", "done"} \cup Active]
      /\ wrote \in [Seeders -> SUBSET SeedTables]
  BY DEF Placed, SeedInv, RaceInv, TypeOK
<1>2. CASE StartSeed(s)
  BY <1>1, <1>2 DEF StartSeed, SeedGoto, Placed, Active
<1>3. CASE CheckUsers(s)
  BY <1>1, <1>3 DEF CheckUsers, SeedGoto, RollBack, Placed, Active
<1>4. CASE SeedUsers(s)
  BY <1>1, <1>4 DEF SeedUsers, SeedGoto, RollBack, Placed, Active
<1>5. CASE SeedCustomers(s)
  BY <1>1, <1>5 DEF SeedCustomers, SeedGoto, Placed, Active
<1>6. CASE SeedTickets(s)
  BY <1>1, <1>6 DEF SeedTickets, SeedGoto, RollBack, Placed, Active, Fixtures
<1>7. CASE CheckArticles(s)
  BY <1>1, <1>7 DEF CheckArticles, SeedGoto, RollBack, Placed, Active, Fixtures
<1>8. CASE SeedArticles(s)
  BY <1>1, <1>8 DEF SeedArticles, SeedGoto, Placed, Active, Fixtures
<1>9. CASE CommitSeed(s)
  BY <1>1, <1>9 DEF CommitSeed, SeedGoto, Placed, Active
<1>10. CASE RollBack(s)
  BY <1>1, <1>10 DEF RollBack, SeedGoto, Placed, Active
<1> QED
  BY <1>2, <1>3, <1>4, <1>5, <1>6, <1>7, <1>8, <1>9, <1>10

\* Which steps change the rows, and how; the others leave them alone.
LEMMA RowsStep ==
    ASSUME IInv, [Next]_vars
    PROVE  \/ rows' = rows
           \/ \E s \in Seeders : CommitSeed(s)
           \/ \E m \in Migrators :
                 rows' = [t \in SeedTables |-> IF TableIn(t, Visible(m)) THEN rows[t] ELSE {}]
                 /\ UNCHANGED <<spc, wrote, raced>>
  BY Footprints DEF MigrationStep, BeginMigration, Statement, ApplyRevision, DropNothing,
     DeleteVersion, CommitMigration, MigrationFails, SeedStep, Seed, StartSeed, CheckUsers,
     SeedUsers, SeedCustomers, SeedTickets, CheckArticles, SeedArticles, SeedFails

\* Every step is one of a run, or changes none.
LEMMA RunOrNot ==
    ASSUME IInv, [Next]_vars
    PROVE  \/ UNCHANGED <<spc, wrote, raced>>
           \/ \E s \in Seeders :
                 \/ StartSeed(s) \/ CheckUsers(s) \/ SeedUsers(s) \/ SeedCustomers(s)
                 \/ SeedTickets(s) \/ CheckArticles(s) \/ SeedArticles(s) \/ CommitSeed(s)
                 \/ RollBack(s) /\ rows' = rows /\ raced' = raced
  BY Footprints DEF SeedStep, Seed, SeedFails

\* Every run stays what it is said to be.
LEMMA PlacedStep ==
    ASSUME IInv, [Next]_vars
    PROVE  \A s \in Seeders : Placed(s)'
<1>1. \A s \in Seeders : Placed(s)
  BY DEF IInv, SeedInv, RaceInv, Placed
<1>2. CASE UNCHANGED <<spc, wrote, raced>>
  BY <1>1, <1>2 DEF Placed
<1>3. ASSUME NEW s \in Seeders,
             \/ StartSeed(s) \/ CheckUsers(s) \/ SeedUsers(s) \/ SeedCustomers(s)
             \/ SeedTickets(s) \/ CheckArticles(s) \/ SeedArticles(s) \/ CommitSeed(s)
             \/ RollBack(s)
      PROVE  \A o \in Seeders : Placed(o)'
  <2>1. Placed(s)' /\ \A o \in Seeders \ {s} : spc'[o] = spc[o] /\ wrote'[o] = wrote[o]
    BY <1>3, RunStep
  <2> QED
    BY <1>1, <2>1 DEF Placed
<1> QED
  BY <1>2, <1>3, RunOrNot

\* The fixtures of the tables, and the run that writes them.
LEMMA FixturesStep ==
    ASSUME IInv, [Next]_vars
    PROVE  /\ FixturesOnce'
           /\ \A s \in Seeders : "users" \in wrote'[s] =>
                 rows'["users"] = {} /\ \A o \in Seeders \ {s} : "users" \notin wrote'[o]
<1> USE DEF IInv
<1> DEFINE Alone(s) == "users" \in wrote[s] =>
               rows["users"] = {} /\ \A o \in Seeders \ {s} : "users" \notin wrote[o]
<1>1. FixturesOnce /\ \A s \in Seeders : Alone(s) /\ Placed(s)
  BY DEF SeedInv, RaceInv, Placed
<1>2. rows \in [SeedTables -> SUBSET (Seeders \cup {Earlier})]
      /\ wrote \in [Seeders -> SUBSET SeedTables]
  BY DEF TypeOK
<1>3. Fixtures = {"users", "customers", "tickets"} /\ Fixtures \subseteq SeedTables
  BY DEF SeedTables, Fixtures
<1>4. FixturesOnce'
  <2>1. CASE rows' = rows
    BY <1>1, <2>1 DEF FixturesOnce
  <2>2. ASSUME NEW s \in Seeders, CommitSeed(s) PROVE FixturesOnce'
    <3>1. spc[s] = "commit"
          /\ rows' = [t \in SeedTables |-> IF t \in wrote[s] THEN rows[t] \cup {s} ELSE rows[t]]
      BY <2>2 DEF CommitSeed
    <3>2. wrote[s] \cap Fixtures \in {{}, Fixtures}
      BY <1>1, <3>1 DEF Placed
    <3>3. CASE wrote[s] \cap Fixtures = {}
      <4>1. \A t \in Fixtures : rows'[t] = rows[t]
        BY <1>3, <3>1, <3>3
      <4> QED
        BY <1>1, <1>3, <4>1 DEF FixturesOnce
    <3>4. CASE wrote[s] \cap Fixtures = Fixtures
      <4>1. rows["users"] = {}
        BY <1>1, <1>3, <3>4
      <4>2. \A t \in Fixtures : rows'[t] = {s}
        BY <1>1, <1>3, <3>1, <3>4, <4>1 DEF FixturesOnce
      <4> QED
        BY <1>3, <4>2 DEF FixturesOnce
    <3> QED
      BY <3>2, <3>3, <3>4
  <2>3. ASSUME NEW m \in Migrators,
               rows' = [t \in SeedTables |-> IF TableIn(t, Visible(m)) THEN rows[t] ELSE {}]
        PROVE  FixturesOnce'
    <3>1. \A t \in Fixtures : TableIn(t, Visible(m)) <=> "baseline" \in Visible(m)
      BY <1>3 DEF TableIn
    <3>2. \A t \in Fixtures : rows'[t] = IF "baseline" \in Visible(m) THEN rows[t] ELSE {}
      BY <1>3, <2>3, <3>1
    <3> QED
      BY <1>1, <1>3, <3>2 DEF FixturesOnce
  <2> QED
    BY <2>1, <2>2, <2>3, RowsStep
<1>5. \A s \in Seeders : Alone(s)'
  <2>1. ASSUME rows'["users"] \subseteq rows["users"],
               \A o \in Seeders : wrote'[o] \subseteq wrote[o]
        PROVE  \A s \in Seeders : Alone(s)'
    BY <1>1, <2>1
  <2>2. CASE UNCHANGED <<spc, wrote, raced>>
    <3>1. ~ \E s \in Seeders : CommitSeed(s)
      BY <2>2 DEF CommitSeed, SeedGoto, TypeOK, Active
    <3>2. rows'["users"] \subseteq rows["users"]
      BY <1>3, <3>1, RowsStep
    <3> QED
      BY <2>1, <2>2, <3>2
  <2>3. ASSUME NEW s \in Seeders, SeedUsers(s) PROVE \A o \in Seeders : Alone(o)'
    <3>1. rows' = rows /\ \A o \in Seeders \ {s} : "users" \notin wrote[o]
      BY <2>3, CommandsAreFinite DEF SeedUsers, Blockers, SeedBlockers
    <3>2. \/ rows["users"] = {} /\ \A o \in Seeders \ {s} : wrote'[o] = wrote[o]
          \/ \A o \in Seeders : wrote'[o] \subseteq wrote[o]
      BY <1>2, <2>3 DEF SeedUsers, RollBack
    <3> QED
      BY <1>1, <3>1, <3>2
  <2>4. ASSUME NEW s \in Seeders,
               SeedCustomers(s) \/ SeedTickets(s) \/ SeedArticles(s)
        PROVE  \A o \in Seeders : Alone(o)'
    <3>1. rows' = rows /\ \A o \in Seeders \ {s} : wrote'[o] = wrote[o]
      BY <1>2, <2>4 DEF SeedCustomers, SeedTickets, SeedArticles, RollBack
    <3>2. "users" \in wrote'[s] => "users" \in wrote[s]
      BY <1>2, <2>4 DEF SeedCustomers, SeedTickets, SeedArticles, RollBack
    <3> QED
      BY <1>1, <3>1, <3>2
  <2>5. ASSUME NEW s \in Seeders, CommitSeed(s) PROVE \A o \in Seeders : Alone(o)'
    <3>1. wrote'[s] = {} /\ \A o \in Seeders \ {s} : wrote'[o] = wrote[o]
          /\ rows'["users"] = IF "users" \in wrote[s] THEN rows["users"] \cup {s} ELSE rows["users"]
      BY <1>2, <1>3, <2>5 DEF CommitSeed
    <3> QED
      BY <1>1, <3>1
  <2>6. ASSUME NEW s \in Seeders,
               \/ StartSeed(s) \/ CheckUsers(s) \/ CheckArticles(s)
               \/ RollBack(s) /\ rows' = rows
        PROVE  \A o \in Seeders : Alone(o)'
    BY <1>2, <2>1, <2>6 DEF StartSeed, CheckUsers, CheckArticles, RollBack
  <2> QED
    BY <2>2, <2>3, <2>4, <2>5, <2>6, RunOrNot
<1> QED
  BY <1>4, <1>5

\* The steps preserve the invariant of the seed runs.
LEMMA SeedInvStep ==
    ASSUME IInv, [Next]_vars
    PROVE  SeedInv'
  BY FixturesStep, PlacedStep DEF SeedInv, Placed

-----------------------------------------------------------------------------
(* Runs under way together *)

\* Two runs under way are a known pair.
Together == \A r, s \in Seeders :
    r # s /\ spc[r] \in Active /\ spc[s] \in Active => {r, s} \in raced

\* They stay one.
LEMMA TogetherStep ==
    ASSUME IInv, [Next]_vars
    PROVE  Together' /\ raced \subseteq raced'
<1> USE DEF IInv
<1>1. Together /\ spc \in [Seeders -> {"idle", "refused", "failed", "done"} \cup Active]
  BY DEF RaceInv, Together, TypeOK
<1>2. CASE UNCHANGED <<spc, wrote, raced>>
  BY <1>1, <1>2 DEF Together
<1>3. ASSUME NEW s \in Seeders, StartSeed(s) PROVE Together' /\ raced \subseteq raced'
  <2>1. CASE spc' = [spc EXCEPT ![s] = "refused"] /\ raced' = raced
    <3>1. \A r \in Seeders : spc'[r] \in Active => spc[r] \in Active
      BY <1>1, <2>1 DEF Active
    <3> QED
      BY <1>1, <2>1, <3>1 DEF Together
  <2>2. CASE /\ spc' = [spc EXCEPT ![s] = "check_users"]
             /\ raced' = raced \cup {{s, o} : o \in {r \in Seeders : spc[r] \in Active}}
    <3>1. \A r \in Seeders \ {s} : spc'[r] = spc[r]
      BY <1>1, <2>2
    <3>2. \A r \in Seeders : spc[r] \in Active => {s, r} \in raced'
      BY <2>2
    <3>3. \A r \in Seeders : {s, r} = {r, s}
      OBVIOUS
    <3>4. raced \subseteq raced'
      BY <2>2
    <3>5. ASSUME NEW r \in Seeders, NEW o \in Seeders, r # o, spc'[r] \in Active, spc'[o] \in Active
          PROVE  {r, o} \in raced'
      <4>1. CASE r = s
        BY <3>1, <3>2, <3>5, <4>1
      <4>2. CASE o = s
        BY <3>1, <3>2, <3>3, <3>5, <4>2
      <4>3. CASE r # s /\ o # s
        BY <1>1, <3>1, <3>4, <3>5, <4>3 DEF Together
      <4> QED
        BY <4>1, <4>2, <4>3
    <3> QED
      BY <3>4, <3>5 DEF Together
  <2> QED
    BY <1>3, <2>1, <2>2 DEF StartSeed, SeedGoto
<1>4. ASSUME NEW s \in Seeders, raced' = raced,
             \/ CheckUsers(s) \/ SeedUsers(s) \/ SeedCustomers(s) \/ SeedTickets(s)
             \/ CheckArticles(s) \/ SeedArticles(s) \/ CommitSeed(s) \/ RollBack(s)
      PROVE  Together' /\ raced \subseteq raced'
  <2>1. \A r \in Seeders : spc'[r] \in Active => spc[r] \in Active
    BY <1>1, <1>4 DEF CheckUsers, SeedUsers, SeedCustomers, SeedTickets, CheckArticles,
       SeedArticles, CommitSeed, RollBack, SeedGoto, Active
  <2> QED
    BY <1>1, <1>4, <2>1 DEF Together
<1>5. ASSUME NEW s \in Seeders,
             \/ CheckUsers(s) \/ SeedUsers(s) \/ SeedCustomers(s) \/ SeedTickets(s)
             \/ CheckArticles(s) \/ SeedArticles(s) \/ CommitSeed(s)
      PROVE  raced' = raced
  BY <1>5 DEF CheckUsers, SeedUsers, SeedCustomers, SeedTickets, CheckArticles, SeedArticles,
     CommitSeed
<1> QED
  BY <1>2, <1>3, <1>4, <1>5, RunOrNot

\* Every run about to write articles knows those that have.
LEMMA KnowsStep ==
    ASSUME IInv, [Next]_vars
    PROVE  ArticlesDoubledOnlyByRace' /\ \A s \in Seeders : Knows(s)'
<1> USE DEF IInv
<1>1. ArticlesDoubledOnlyByRace /\ \A s \in Seeders : Knows(s) /\ Placed(s)
  BY DEF RaceInv, SeedInv, Knows, Placed
<1>2. raced \subseteq raced' /\ Together
  BY TogetherStep DEF RaceInv, Together
<1>3. "knowledge_articles" \in SeedTables
  BY DEF SeedTables
<1>4. /\ spc \in [Seeders -> {"idle", "refused", "failed", "done"} \cup Active]
      /\ wrote \in [Seeders -> SUBSET SeedTables]
  BY DEF TypeOK
<1>5. ASSUME NEW s \in Seeders, CommitSeed(s)
      PROVE  ArticlesDoubledOnlyByRace' /\ \A o \in Seeders : Knows(o)'
  <2>1. /\ spc[s] = "commit" /\ wrote'[s] = {} /\ spc'[s] = "done" /\ raced' = raced
        /\ \A o \in Seeders \ {s} : spc'[o] = spc[o] /\ wrote'[o] = wrote[o]
        /\ rows'["knowledge_articles"] = IF "knowledge_articles" \in wrote[s]
                                         THEN rows["knowledge_articles"] \cup {s}
                                         ELSE rows["knowledge_articles"]
    BY <1>3, <1>4, <1>5 DEF CommitSeed, SeedGoto
  <2>2. "knowledge_articles" \in wrote[s] => \A r \in rows["knowledge_articles"] : {r, s} \in raced
    BY <1>1 DEF Knows
  <2>3. \A r : {r, s} = {s, r}
    OBVIOUS
  <2>4. ArticlesDoubledOnlyByRace'
    BY <1>1, <2>1, <2>2, <2>3 DEF ArticlesDoubledOnlyByRace
  <2>5. ASSUME NEW o \in Seeders \ {s},
               spc[o] = "knowledge_articles" \/ "knowledge_articles" \in wrote[o]
        PROVE  {s, o} \in raced
    BY <1>1, <1>2, <2>1, <2>5 DEF Together, Placed, Active
  <2> QED
    BY <1>1, <2>1, <2>4, <2>5 DEF Knows
<1>6. ASSUME rows'["knowledge_articles"] \subseteq rows["knowledge_articles"],
             NEW s \in Seeders, NEW l \in Seeders,
             spc'[l] = "knowledge_articles" \/ "knowledge_articles" \in wrote'[l],
             spc[l] = "knowledge_articles" \/ "knowledge_articles" \in wrote[l]
      PROVE  Knows(l)'
  BY <1>1, <1>2, <1>6 DEF Knows
<1>7. ASSUME rows'["knowledge_articles"] \subseteq rows["knowledge_articles"]
      PROVE  ArticlesDoubledOnlyByRace'
  BY <1>1, <1>2, <1>7 DEF ArticlesDoubledOnlyByRace
<1>8. ASSUME UNCHANGED <<spc, wrote, raced>>
      PROVE  ArticlesDoubledOnlyByRace' /\ \A s \in Seeders : Knows(s)'
  <2>1. ~ \E s \in Seeders : CommitSeed(s)
    BY <1>4, <1>8 DEF CommitSeed, SeedGoto
  <2>2. rows'["knowledge_articles"] \subseteq rows["knowledge_articles"]
    BY <1>3, <2>1, RowsStep
  <2> QED
    BY <1>1, <1>7, <1>8, <2>2 DEF Knows
<1>9. ASSUME NEW s \in Seeders, rows' = rows,
             \/ StartSeed(s) \/ CheckUsers(s) \/ SeedUsers(s) \/ SeedCustomers(s) \/ SeedTickets(s)
             \/ CheckArticles(s) \/ SeedArticles(s) \/ RollBack(s)
      PROVE  ArticlesDoubledOnlyByRace' /\ \A o \in Seeders : Knows(o)'
  <2>1. \A o \in Seeders \ {s} : spc'[o] = spc[o] /\ wrote'[o] = wrote[o]
    BY <1>9, RunStep
  <2>2. \/ spc[s] = "knowledge_articles" \/ "knowledge_articles" \in wrote[s]
        \/ spc'[s] # "knowledge_articles" /\ "knowledge_articles" \notin wrote'[s]
        \/ rows["knowledge_articles"] = {}
    <3>1. CASE StartSeed(s) \/ CheckUsers(s) \/ SeedUsers(s) \/ RollBack(s)
      BY <1>4, <3>1 DEF StartSeed, CheckUsers, SeedUsers, RollBack, SeedGoto
    <3>2. CASE SeedCustomers(s) \/ SeedTickets(s)
      BY <1>4, <3>2 DEF SeedCustomers, SeedTickets, RollBack, SeedGoto
    <3>3. CASE CheckArticles(s) \/ SeedArticles(s)
      BY <1>4, <3>3 DEF CheckArticles, SeedArticles, RollBack, SeedGoto
    <3> QED
      BY <1>9, <3>1, <3>2, <3>3
  <2>3. Knows(s)'
    BY <1>1, <1>2, <1>9, <2>2 DEF Knows
  <2>4. \A o \in Seeders \ {s} : Knows(o)'
    BY <1>1, <1>2, <1>9, <2>1 DEF Knows
  <2> QED
    BY <1>7, <1>9, <2>3, <2>4
<1>10. ASSUME NEW s \in Seeders,
              \/ StartSeed(s) \/ CheckUsers(s) \/ SeedUsers(s) \/ SeedCustomers(s)
              \/ SeedTickets(s) \/ CheckArticles(s) \/ SeedArticles(s)
       PROVE  rows' = rows
  BY <1>10 DEF StartSeed, CheckUsers, SeedUsers, SeedCustomers, SeedTickets, CheckArticles,
     SeedArticles
<1> QED
  BY <1>5, <1>8, <1>9, <1>10, RunOrNot

\* The steps preserve the invariant of the races.
LEMMA RaceInvStep ==
    ASSUME IInv, [Next]_vars
    PROVE  RaceInv'
  BY TogetherStep, KnowsStep, PlacedStep DEF RaceInv, Together, Knows, Placed

-----------------------------------------------------------------------------
(* The theorems *)

\* The first state.
LEMMA InitInv == Init => IInv
<1> SUFFICES ASSUME Init PROVE IInv
  OBVIOUS
<1>1. version \in 0..3 /\ catalog = SchemaAt(version)
  BY DEF Init
<1>2. catalog \subseteq Features
  BY <1>1, SchemaFeatures
<1>3. PICK old \in SUBSET {Earlier} : rows = [t \in SeedTables |-> IF t \in Fixtures THEN old ELSE {}]
  BY DEF Init
<1>4. TypeOK
  BY <1>1, <1>2, <1>3 DEF Init, TypeOK
<1>5. MigrationInv /\ ReviewInv
  <2>1. \A m \in Migrators : mpc[m] = "idle" /\ held[m] = 0 /\ ~Busy(m)
    BY DEF Init, Busy
  <2>2. \A m \in Migrators : LockedBy(m) = {}
    BY <1>4, <2>1, BusyLocks
  <2> QED
    BY <1>1, <2>1, <2>2 DEF Init, MigrationInv, ReviewInv, Reviewed
<1>6. FixturesOnce /\ ArticlesDoubledOnlyByRace
  BY <1>3 DEF FixturesOnce, ArticlesDoubledOnlyByRace, SeedTables, Fixtures
<1>7. SeedInv /\ RaceInv
  BY <1>6 DEF Init, SeedInv, RaceInv, Active
<1> QED
  BY <1>4, <1>5, <1>7 DEF IInv

\* Every step keeps it.
LEMMA NextInv == IInv /\ [Next]_vars => IInv'
  BY TypeStep, MigrationInvStep, ReviewInvStep, SeedInvStep, RaceInvStep DEF IInv

\* Alembic commands, seed runs and the application keep their common invariant.
THEOREM Invariance == Spec => []IInv
  BY InitInv, NextInv, PTL DEF Spec

\* Every variable has its type.
THEOREM TypeCorrect == Spec => []TypeOK
<1>1. IInv => TypeOK
  BY DEF IInv
<1> QED
  BY <1>1, Invariance, PTL

\* alembic_version tells the truth about the schema, for any number of commands, as
\* long as none takes back a baseline that two others have dropped and restored.
THEOREM SchemaMatchesVersionHolds == Spec => []SchemaMatchesVersion
<1>1. IInv => SchemaMatchesVersion
  BY DEF IInv, MigrationInv, Astray, SchemaMatchesVersion
<1> QED
  BY <1>1, Invariance, PTL

\* Any number of seed runs leave one set of users, customers and tickets.
THEOREM FixturesOnceHolds == Spec => []FixturesOnce
<1>1. IInv => FixturesOnce
  BY DEF IInv, SeedInv
<1> QED
  BY <1>1, Invariance, PTL

\* Runs that were not under way together do not both add articles.
THEOREM ArticlesDoubledOnlyByRaceHolds == Spec => []ArticlesDoubledOnlyByRace
<1>1. IInv => ArticlesDoubledOnlyByRace
  BY DEF IInv, RaceInv
<1> QED
  BY <1>1, Invariance, PTL

\* Seed runs that are not under way together leave no row twice, however often seed is
\* run: NoDuplicateRows is violated by a race alone.
THEOREM SeedsInTurnAreIdempotent == Spec => [](raced = {} => NoDuplicateRows)
<1>1. IInv /\ raced = {} => NoDuplicateRows
  <2> SUFFICES ASSUME IInv, raced = {}, NEW t \in SeedTables, NEW r \in rows[t], NEW s \in rows[t]
               PROVE  r = s
    BY DEF NoDuplicateRows
  <2>1. CASE t \in Fixtures
    BY <2>1 DEF IInv, SeedInv, FixturesOnce
  <2>2. CASE t = "knowledge_articles"
    BY <2>2 DEF IInv, RaceInv, ArticlesDoubledOnlyByRace
  <2> QED
    BY <2>1, <2>2 DEF SeedTables
<1> QED
  BY <1>1, Invariance, PTL

\* No command takes a review item or a decision away.
THEOREM ReviewsSurviveHolds == Spec => ReviewsSurvive
<1> DEFINE Kept == \A d \in Drafts :
                      /\ reviews[d] = "pending" => reviews'[d] \in {"pending", "decided"}
                      /\ reviews[d] = "decided" => reviews'[d] = "decided"
<1>1. ASSUME IInv, [Next]_vars PROVE Kept
  <2>1. CASE UNCHANGED reviews
    BY <2>1
  <2>2. ASSUME NEW m \in Migrators, CommitMigration(m) PROVE Kept
    <3>1. mpc[m] = "running" /\ ("baseline" \in Visible(m) => reviews' = reviews)
      BY <2>2 DEF CommitMigration
    <3>2. \A d \in Drafts : Reviewed(d) => reviews' = reviews
      BY <1>1, <3>1, ReviewedKept DEF IInv
    <3> QED
      BY <3>2 DEF Reviewed
  <2>3. CASE ApplicationStep
    BY <1>1, <2>3 DEF ApplicationStep, EnqueueReview, Decide, Query, Store,
       Expire, vars, IInv, TypeOK
  <2> QED
    BY <1>1, <2>1, <2>2, <2>3, Footprints DEF MigrationStep, BeginMigration, Statement,
       ApplyRevision, DropNothing, DeleteVersion, MigrationFails
<1>2. IInv /\ [Next]_vars => [Kept]_vars
  BY <1>1
<1> QED
  BY <1>2, Invariance, PTL DEF Spec, ReviewsSurvive

-----------------------------------------------------------------------------
(* Waiting *)

\* Who holds a table, or has changed the row of alembic_version, is under way.
LEMMA HoldersAreUnderWay ==
    ASSUME IInv
    PROVE  /\ \A m \in Migrators : Applied(m) # {} \/ LockedBy(m) # {} => UnderWay(m)
           /\ \A s \in Seeders : HeldBy(s) # {} => UnderWay(s)
<1>1. ASSUME NEW m \in Migrators, Applied(m) # {} \/ LockedBy(m) # {} PROVE UnderWay(m)
  <2>1. CASE Applied(m) # {}
    BY <2>1 DEF Applied, UnderWay
  <2>2. CASE held[m] > 0
    BY <2>2 DEF IInv, MigrationInv, UnderWay
  <2>3. CASE Applied(m) = {} /\ ~(held[m] > 0)
    <3>1. held[m] \in 0..4
      BY DEF IInv, TypeOK
    <3>2. 1 .. held[m] = {}
      BY <2>3, <3>1
    <3> QED
      BY <1>1, <2>3, <3>2 DEF LockedBy
  <2> QED
    BY <2>1, <2>2, <2>3
<1>2. ASSUME NEW s \in Seeders, HeldBy(s) # {} PROVE UnderWay(s)
  <2>1. spc[s] \notin Active => wrote[s] = {}
    BY DEF IInv, SeedInv
  <2> QED
    BY <1>2, <2>1 DEF HeldBy, ReadBy, UnderWay, Active
<1> QED
  BY <1>1, <1>2

\* So nobody waits for a lock that a command has left behind.
LEMMA BlockersAreUnderWay ==
    ASSUME IInv, NEW c \in Commands
    PROVE  Blockers(c) \subseteq {o \in Commands : UnderWay(o)}
<1>1. ASSUME c \in Migrators, NEW o \in MigrationBlockers(c)
      PROVE  o \in Commands /\ UnderWay(o)
  <2>1. \/ o \in Migrators /\ (LockedBy(o) # {} \/ Applied(o) # {})
        \/ o \in Seeders /\ HeldBy(o) # {}
    BY <1>1 DEF MigrationBlockers
  <2> QED
    BY <2>1, HoldersAreUnderWay DEF Commands
<1>2. ASSUME c \in Seeders, NEW o \in SeedBlockers(c)
      PROVE  o \in Commands /\ UnderWay(o)
  <2>1. \/ o \in Migrators /\ LockedBy(o) # {}
        \/ o \in Seeders /\ HeldBy(o) # {}
    BY <1>2 DEF SeedBlockers, HeldBy
  <2> QED
    BY <2>1, HoldersAreUnderWay DEF Commands
<1> QED
  BY <1>1, <1>2 DEF Blockers, Commands

\* A finite set of commands that all wait, and for none but each other, has one that
\* waits for itself: a smallest such set would lose any member that does not.
LEMMA SomeoneWaitsForItself ==
    ASSUME NEW D \in SUBSET Commands, D # {},
           \A c \in D : Blockers(c) # {} /\ Blockers(c) \subseteq D
    PROVE  \E c \in D : OnCycle(c)
<1> DEFINE Closed == {E \in SUBSET D : E # {} /\ \A c \in E : Blockers(c) \subseteq E}
           Smaller == StrictSubsetOrdering(Commands)
<1>1. IsFiniteSet(Commands)
  BY CommandsAreFinite, FS_Union DEF Commands
<1>2. IsWellFoundedOn(Smaller, SUBSET Commands)
  BY <1>1, FS_FiniteSubsetsOfFinite, FS_StrictSubsetOrderingWellFounded
<1>3. D \in Closed /\ Closed \subseteq SUBSET Commands
  OBVIOUS
<1>4. PICK E \in Closed : \A F \in Closed : <<F, E>> \notin Smaller
  <2> HIDE DEF Closed, Smaller
  <2> QED
    BY <1>2, <1>3, WFMin
<1>5. PICK c \in E : TRUE
  OBVIOUS
<1>6. SUFFICES ASSUME ~OnCycle(c) PROVE FALSE
  BY <1>5
<1>7. PICK S \in SUBSET Commands :
         (\A x \in S \cup {c} : Blockers(x) \subseteq S) /\ c \notin S
  BY <1>5, <1>6 DEF OnCycle
<1>8. E \cap S \in Closed
  BY <1>5, <1>7
<1>9. <<E \cap S, E>> \in Smaller
  BY <1>5, <1>7 DEF StrictSubsetOrdering
<1> QED
  BY <1>4, <1>8, <1>9

\* However many migrations and seed runs wait for each other, one of them can go on
\* or waits in a circle that PostgreSQL detects.
THEOREM DeadlocksAreFoundHolds == Spec => []DeadlocksAreFound
<1>1. IInv => DeadlocksAreFound
  <2> DEFINE Busies == {c \in Commands : UnderWay(c)}
  <2> SUFFICES ASSUME IInv, Busies # {}, \A c \in Busies : Blockers(c) # {}
               PROVE  \E c \in Busies : OnCycle(c)
    BY DEF DeadlocksAreFound
  <2>1. \A c \in Busies : Blockers(c) \subseteq Busies
    BY BlockersAreUnderWay
  <2>2. Busies \in SUBSET Commands
    OBVIOUS
  <2> HIDE DEF Busies
  <2> QED
    BY <2>1, <2>2, SomeoneWaitsForItself
<1> QED
  BY <1>1, Invariance, PTL
=============================================================================
