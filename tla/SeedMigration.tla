----------------------------- MODULE SeedMigration -----------------------------
(***************************************************************************)
(* Schemas and seed data: the services of docker-compose.yml, which migrate one *)
(* database each, once per `up`, and scripts/migrate.sh, which does TiDB and  *)
(* then Postgres and is started by hand, perhaps beside them, perhaps again.  *)
(*                                                                         *)
(* A seed file is a single INSERT, all or nothing; what guards both files is  *)
(* the count of clients.  Deployment runs these actions beside the consumers. *)
(***************************************************************************)
EXTENDS Integers

CONSTANTS
    Runs,           \* runs of the migration
    ComposeRuns,    \* the runs that are services; the others are scripts
    Parts,          \* Parts[r]: the databases r migrates
    Topics, Groups, \* the rows of the configuration
    Objects,        \* statements CREATE ... IF NOT EXISTS for Postgres: six
    MaxAttempts,    \* bound on the attempts of a script
    MaxDeaths       \* bound on attempts cut short

ASSUME MigrationAssumption ==
    /\ Parts \in [Runs -> (SUBSET {"tidb", "postgres"}) \ {{}}]
    /\ ComposeRuns \subseteq Runs
    /\ {Objects, MaxAttempts} \subseteq Nat \ {0} /\ MaxDeaths \in Nat

VARIABLES
    clients, loans,     \* the two seeded tables in TiDB
    config,             \* how many of the objects of pipeline_config there are
    topics, groups,     \* kafka_topics and feature_groups in Postgres
    pc,                 \* the next statement of each run
    seen,               \* seen[r]: how many there were when r looked for the next
    counted,            \* counted[r]: CLIENTS, "200" or not
    attempt,
    deaths

postgres == <<config, seen, topics, groups>>
vars == <<clients, loans, postgres, pc, counted, attempt, deaths>>

Tables == {"absent", "empty", "seeded"}
Rows == {"absent", "active", "inactive"}
Steps == {"schema", "guard", "clients", "loans", "recount",
          "config", "create", "topics", "groups", "summary"}
Ends == {"complete", "unexpected", "failed"}

TypeOK ==
    /\ {clients, loans} \subseteq Tables
    /\ config \in 0 .. Objects /\ seen \in [Runs -> 0 .. Objects - 1]
    /\ topics \in [Topics -> Rows] /\ groups \in [Groups -> Rows]
    /\ pc \in [Runs -> Steps \union Ends] /\ counted \in [Runs -> BOOLEAN]
    /\ attempt \in [Runs -> 1 .. MaxAttempts] /\ deaths \in 0 .. MaxDeaths

First(r) == IF "tidb" \in Parts[r] THEN "schema" ELSE "config"
AfterTidb(r) == IF "postgres" \in Parts[r] THEN "config" ELSE "summary"

Init ==
    /\ clients = "absent" /\ loans = "absent"
    /\ config = 0 /\ seen = [r \in Runs |-> 0]
    /\ topics = [t \in Topics |-> "absent"] /\ groups = [g \in Groups |-> "absent"]
    /\ pc = [r \in Runs |-> First(r)] /\ counted = [r \in Runs |-> FALSE]
    /\ attempt = [r \in Runs |-> 1] /\ deaths = 0

Goto(r, l) == pc' = [pc EXCEPT ![r] = l]
Created(table) == IF table = "absent" THEN "empty" ELSE table

-----------------------------------------------------------------------------
\* CREATE TABLE IF NOT EXISTS
Schema(r) ==
    /\ pc[r] = "schema"
    /\ clients' = Created(clients) /\ loans' = Created(loans)
    /\ Goto(r, "guard")
    /\ UNCHANGED <<postgres, counted, attempt, deaths>>

\* Variant: the guard counts the table that is filled last.
GuardOnLoans(r) ==
    /\ pc[r] = "guard"
    /\ counted' = [counted EXCEPT ![r] = clients = "seeded"]
    /\ Goto(r, IF loans = "seeded" THEN AfterTidb(r) ELSE "clients")
    /\ UNCHANGED <<clients, loans, postgres, attempt, deaths>>

Guard(r) ==
    /\ pc[r] = "guard"
    /\ counted' = [counted EXCEPT ![r] = clients = "seeded"]
    /\ Goto(r, IF clients = "seeded" THEN AfterTidb(r) ELSE "clients")
    /\ UNCHANGED <<clients, loans, postgres, attempt, deaths>>

\* Variant: rows that are there already are passed over.
SeedClientsIgnore(r) ==
    /\ pc[r] = "clients"
    /\ clients' = "seeded"
    /\ Goto(r, "loans")
    /\ UNCHANGED <<loans, postgres, counted, attempt, deaths>>

\* A second insert of the same rows ends in a duplicate key and, with set -e, the run.
SeedClients(r) ==
    /\ pc[r] = "clients"
    /\ clients' = "seeded"
    /\ Goto(r, IF clients = "empty" THEN "loans" ELSE "failed")
    /\ UNCHANGED <<loans, postgres, counted, attempt, deaths>>

SeedLoans(r) ==
    /\ pc[r] = "loans"
    /\ loans' = "seeded"
    /\ Goto(r, IF loans = "empty" THEN "recount" ELSE "failed")
    /\ UNCHANGED <<clients, postgres, counted, attempt, deaths>>

Recount(r) ==
    /\ pc[r] = "recount"
    /\ counted' = [counted EXCEPT ![r] = clients = "seeded"]
    /\ Goto(r, AfterTidb(r))
    /\ UNCHANGED <<clients, loans, postgres, attempt, deaths>>

-----------------------------------------------------------------------------
\* CREATE ... IF NOT EXISTS of Postgres: it looks for the object in the catalog,
FindObject(r) ==
    /\ pc[r] = "config"
    /\ IF config = Objects THEN UNCHANGED seen /\ Goto(r, "topics")
                           ELSE seen' = [seen EXCEPT ![r] = config] /\ Goto(r, "create")
    /\ UNCHANGED <<clients, loans, config, topics, groups, counted, attempt, deaths>>

\* and creates it, which is a duplicate key of the catalog, and with ON_ERROR_STOP the end,
\* when another run has created it in between.
CreateObject(r) ==
    /\ pc[r] = "create"
    /\ IF config = seen[r] THEN config' = config + 1 /\ Goto(r, "config")
                           ELSE UNCHANGED config /\ Goto(r, "failed")
    /\ seen' = [seen EXCEPT ![r] = 0]
    /\ UNCHANGED <<clients, loans, topics, groups, counted, attempt, deaths>>

\* Variant: ON CONFLICT DO UPDATE.
Replaced(rows) == [x \in DOMAIN rows |-> "active"]

\* INSERT ... ON CONFLICT DO NOTHING, each a transaction of its own.
Inserted(rows) == [x \in DOMAIN rows |-> IF rows[x] = "absent" THEN "active" ELSE rows[x]]

SeedTopics(r) ==
    /\ pc[r] = "topics"
    /\ topics' = Inserted(topics)
    /\ Goto(r, "groups")
    /\ UNCHANGED <<clients, loans, config, seen, groups, counted, attempt, deaths>>

SeedGroups(r) ==
    /\ pc[r] = "groups"
    /\ groups' = Inserted(groups)
    /\ Goto(r, "summary")
    /\ UNCHANGED <<clients, loans, config, seen, topics, counted, attempt, deaths>>

\* Only the script, which does both, compares the counts with what it expects.
CountsExpected(r) ==
    Parts[r] = {"tidb", "postgres"} =>
        /\ counted[r]
        /\ \A t \in Topics : topics[t] # "absent"
        /\ \A g \in Groups : groups[g] # "absent"

Summary(r) ==
    /\ pc[r] = "summary"
    /\ Goto(r, IF CountsExpected(r) THEN "complete" ELSE "unexpected")
    /\ UNCHANGED <<clients, loans, postgres, counted, attempt, deaths>>

\* The container is stopped, the connection lost, the terminal closed.
Die(r) ==
    /\ pc[r] \in Steps /\ deaths < MaxDeaths
    /\ deaths' = deaths + 1
    /\ Goto(r, "failed")
    /\ UNCHANGED <<clients, loans, postgres, counted, attempt>>

\* Variant: the script is started over and over.
RetryAlways(r) ==
    /\ pc[r] \in Ends
    /\ attempt' = [attempt EXCEPT ![r] = @ + 1]
    /\ Goto(r, First(r))
    /\ UNCHANGED <<clients, loans, postgres, counted, deaths>>

\* make migrate once more; the services have no restart policy, and one attempt per `up`.
Retry(r) ==
    /\ r \notin ComposeRuns /\ pc[r] = "failed" /\ attempt[r] < MaxAttempts
    /\ attempt' = [attempt EXCEPT ![r] = @ + 1]
    /\ Goto(r, First(r))
    /\ UNCHANGED <<clients, loans, postgres, counted, deaths>>

Run(r) == \/ Schema(r) \/ Guard(r) \/ SeedClients(r) \/ SeedLoans(r) \/ Recount(r)
          \/ FindObject(r) \/ CreateObject(r) \/ SeedTopics(r) \/ SeedGroups(r) \/ Summary(r)

-----------------------------------------------------------------------------
\* Runs that pass the guard together do not both seed: the duplicate key of the first
\* insert lets one of them on, and loans follow clients.
OneSeeder ==
    /\ \A r, q \in Runs : pc[r] = "loans" /\ pc[q] = "loans" => r = q
    /\ (\E r \in Runs : pc[r] = "loans") => clients = "seeded" /\ loans = "empty"
    /\ loans = "seeded" => clients = "seeded"

\* "Idempotent: safe to run repeatedly" (scripts/migrate.sh): when every run has reported
\* success in the end, the seed data is there.
CompleteMeansSeeded ==
    (\A r \in Runs : pc[r] = "complete") => clients = "seeded" /\ loans = "seeded"

=============================================================================
