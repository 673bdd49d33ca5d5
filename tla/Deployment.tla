------------------------------ MODULE Deployment ------------------------------
(***************************************************************************)
(* docker compose up: the broker's topics and the two migrations first, then  *)
(* one consumer per topic, which reads its configuration from Postgres once   *)
(* (load_config, main) and keeps it until the process ends.                   *)
(*                                                                         *)
(* `down` and `up` start again with a new TiDB and a new broker; Postgres has *)
(* a volume and keeps its rows.                                              *)
(***************************************************************************)
EXTENDS SeedMigration

CONSTANTS
    MaxChanges      \* bound on what the operator does, and on crashes of consumers

ASSUME DeploymentAssumption == MaxChanges \in Nat
\* Each database is migrated by one of the services (migrate-tidb, migrate-postgres).
ASSUME ComposeAssumption ==
    \A d \in {"tidb", "postgres"} : \E r \in ComposeRuns : d \in Parts[r]

VARIABLES
    kafka,          \* topics that exist at the broker
    svc,            \* svc[t]: where the consumer of t is in main()
    found,          \* found[t]: load_config has seen the row of t
    conf,           \* conf[t]: the feature groups of the consumer's PipelineConfig
    switchedOff,    \* ghost: groups the operator has ever made inactive
    changes

consumers == <<svc, found, conf>>
deployVars == <<vars, kafka, consumers, switchedOff, changes>>

Places == {"created", "topics", "groups", "running", "exited"}

DeployTypeOK ==
    /\ TypeOK
    /\ kafka \subseteq Topics /\ svc \in [Topics -> Places]
    /\ found \in [Topics -> BOOLEAN] /\ conf \in [Topics -> SUBSET Groups]
    /\ switchedOff \subseteq Groups /\ changes \in 0 .. MaxChanges

DeployInit ==
    /\ Init
    /\ kafka = {} /\ svc = [t \in Topics |-> "created"]
    /\ found = [t \in Topics |-> FALSE] /\ conf = [t \in Topics |-> {}]
    /\ switchedOff = {} /\ changes = 0

-----------------------------------------------------------------------------
\* A run of the migration, beside whatever has been started already.
Migrate(r) ==
    /\ Run(r) \/ Die(r) \/ Retry(r)
    /\ UNCHANGED <<kafka, consumers, switchedOff, changes>>

\* kafka-init: kafka-topics --create --if-not-exists, one topic after the other.
CreateTopic(t) ==
    /\ t \notin kafka
    /\ kafka' = kafka \union {t}
    /\ UNCHANGED <<vars, consumers, switchedOff, changes>>

\* Variant: nothing waits for migrate-postgres.
ReadyWithoutPostgres ==
    kafka = Topics /\ \A r \in ComposeRuns : "tidb" \in Parts[r] => pc[r] = "complete"

\* depends_on: condition service_completed_successfully
Ready == kafka = Topics /\ \A r \in ComposeRuns : pc[r] = "complete"

GotoPlace(t, l) == svc' = [svc EXCEPT ![t] = l]

StartConsumer(t) ==
    /\ svc[t] = "created" /\ Ready
    /\ GotoPlace(t, "topics")
    /\ UNCHANGED <<vars, kafka, found, conf, switchedOff, changes>>

Active(rows) == {x \in DOMAIN rows : rows[x] = "active"}

\* load_config: two statements, each with a snapshot of its own, and the SQL files.
ReadTopics(t) ==
    /\ svc[t] = "topics"
    /\ found' = [found EXCEPT ![t] = t \in Active(topics)]
    /\ GotoPlace(t, "groups")
    /\ UNCHANGED <<vars, kafka, conf, switchedOff, changes>>

\* Then main looks its topic up, and leaves with sys.exit(1) if it is not there.
ReadGroups(t) ==
    /\ svc[t] = "groups"
    /\ conf' = [conf EXCEPT ![t] = Active(groups)]
    /\ GotoPlace(t, IF found[t] THEN "running" ELSE "exited")
    /\ UNCHANGED <<vars, kafka, found, switchedOff, changes>>

\* Variant: docker's default, restart: "no".
RestartNever(t) == FALSE /\ svc[t] = "exited" /\ UNCHANGED deployVars

\* restart: unless-stopped, which does not look at depends_on again.
RestartConsumer(t) ==
    /\ svc[t] = "exited"
    /\ GotoPlace(t, "topics")
    /\ UNCHANGED <<vars, kafka, found, conf, switchedOff, changes>>

-----------------------------------------------------------------------------
Act == changes < MaxChanges /\ changes' = changes + 1

CrashConsumer(t) ==
    /\ svc[t] \notin {"created", "exited"} /\ Act
    /\ GotoPlace(t, "exited")
    /\ UNCHANGED <<vars, kafka, found, conf, switchedOff>>

\* The operator switches a row off or on again.  Nothing tells the consumers: SIGHUP
\* has no handler, and a process that is the first of its container ignores it.
Toggled(rows, x) ==
    [rows EXCEPT ![x] = IF @ = "active" THEN "inactive" ELSE "active"]

SwitchTopic(t) ==
    /\ topics[t] # "absent" /\ Act
    /\ topics' = Toggled(topics, t)
    /\ UNCHANGED <<clients, loans, config, seen, groups, pc, counted, attempt, deaths, kafka,
                   consumers, switchedOff>>

SwitchGroup(g) ==
    /\ groups[g] # "absent" /\ Act
    /\ groups' = Toggled(groups, g)
    /\ switchedOff' = switchedOff \union {g}
    /\ UNCHANGED <<clients, loans, config, seen, topics, pc, counted, attempt, deaths, kafka,
                   consumers>>

\* docker compose up once more: the services that have ended are started again.
UpAgain ==
    /\ Act
    /\ LET again == {r \in ComposeRuns : pc[r] \in Ends} IN
        /\ pc' = [r \in Runs |-> IF r \in again THEN First(r) ELSE pc[r]]
        /\ attempt' = [r \in Runs |-> IF r \in again THEN 1 ELSE attempt[r]]
    /\ UNCHANGED <<clients, loans, postgres, counted, deaths, kafka, consumers, switchedOff>>

\* docker compose down, and up again; what was running by hand is started again too.
Recreate ==
    /\ Act
    /\ clients' = "absent" /\ loans' = "absent" /\ kafka' = {}
    /\ pc' = [r \in Runs |-> First(r)] /\ attempt' = [r \in Runs |-> 1]
    /\ svc' = [t \in Topics |-> "created"]
    /\ UNCHANGED <<postgres, counted, deaths, found, conf, switchedOff>>

Serve(t) == StartConsumer(t) \/ ReadTopics(t) \/ ReadGroups(t) \/ RestartConsumer(t)

Operate == \/ UpAgain \/ Recreate
           \/ \E t \in Topics : SwitchTopic(t)
           \/ \E g \in Groups : SwitchGroup(g)

DeployNext == \/ \E r \in Runs : Migrate(r)
              \/ \E t \in Topics : CreateTopic(t) \/ Serve(t) \/ CrashConsumer(t)
              \/ Operate

DeploySpec == DeployInit /\ [][DeployNext]_deployVars

\* An attempt that has begun goes on to its end, compose starts a consumer whose dependencies
\* have succeeded, docker starts it again.  Nobody has to migrate once more, or to switch a
\* topic on; nor need kafka-init, which like the migrations has no restart policy, succeed.
\* As every run has a bounded number of steps, fairness to all of them together is enough.
DeployFairSpec ==
    /\ DeploySpec
    /\ WF_deployVars(\E r \in Runs : Run(r) /\ Migrate(r))
    /\ \A t \in Topics : WF_deployVars(Serve(t))

-----------------------------------------------------------------------------
\* A consumer that runs has the tables it writes to, its topic, and every feature group
\* but those the operator has switched off at some time: none starts so early that it
\* would recompute nothing for as long as it lives.
RunsConfigured ==
    \A t \in Topics : svc[t] = "running" =>
        /\ kafka = Topics /\ clients # "absent"
        /\ Groups \ conf[t] \subseteq switchedOff

\* Seeding again never brings back what the operator has switched off.
OperatorDecides ==
    [][\/ changes' # changes
       \/ Active(topics') \intersect {t \in Topics : topics[t] = "inactive"} = {}
          /\ Active(groups') \intersect {g \in Groups : groups[g] = "inactive"} = {}]_deployVars

\* Once its dependencies have succeeded, a consumer comes up, and comes up again, for as
\* long as its topic is switched on: crashes, a topic that was off for a while and a change
\* between the two statements of load_config leave none of them down.
Waits(t) == svc[t] = "created" /\ ~Ready
EveryConsumerRuns ==
    \A t \in Topics : []<>(svc[t] = "running" \/ topics[t] # "active" \/ Waits(t))

\* When nothing is cut short any more, an attempt that no other run disturbs succeeds,
\* whatever earlier ones have left half done: no lost race or interruption makes the
\* migration fail for ever.
UnderWay(r) == pc[r] \in Steps
AttemptsSucceed ==
    \A r \in Runs : (pc[r] = First(r) /\ deaths = MaxDeaths)
                        ~> (pc[r] = "complete" \/ \E q \in Runs \ {r} : UnderWay(q))

=============================================================================
