--------------------------- MODULE DeploymentProofs ---------------------------
(***************************************************************************)
(* Proofs about Deployment and the SeedMigration inside it, for every set of *)
(* runs, topics and feature groups, every number of attempts and every       *)
(* sequence of the operator's changes.                                       *)
(***************************************************************************)
EXTENDS Deployment, TLAPS

LEMMA PlacesOfRuns ==
    ASSUME NEW r \in Runs
    PROVE  First(r) \in Steps /\ AfterTidb(r) \in Steps
  BY DEF First, AfterTidb, Steps

\* What a step of a run leaves of the types.
LEMMA RunTypes ==
    ASSUME TypeOK, NEW r \in Runs, Run(r) \/ Die(r) \/ Retry(r)
    PROVE  TypeOK'
<1> USE DEF Goto, postgres
<1>1. CASE Schema(r)
  BY <1>1 DEF TypeOK, Schema, Created, Tables, Steps
<1>2. CASE Guard(r)
  <2>1. pc' \in [Runs -> Steps \union Ends]
    BY <1>2, PlacesOfRuns DEF TypeOK, Guard, Steps
  <2>2. counted' \in [Runs -> BOOLEAN]
    BY <1>2 DEF TypeOK, Guard
  <2> QED BY <1>2, <2>1, <2>2 DEF TypeOK, Guard
<1>3. CASE SeedClients(r) \/ SeedLoans(r)
  BY <1>3 DEF TypeOK, SeedClients, SeedLoans, Tables, Steps, Ends
<1>4. CASE Recount(r)
  <2>1. pc' \in [Runs -> Steps \union Ends]
    BY <1>4, PlacesOfRuns DEF TypeOK, Recount
  <2>2. counted' \in [Runs -> BOOLEAN]
    BY <1>4 DEF TypeOK, Recount
  <2> QED BY <1>4, <2>1, <2>2 DEF TypeOK, Recount
<1>5. CASE SeedTopics(r) \/ SeedGroups(r)
  <2>1. /\ topics \in [Topics -> Rows] => Inserted(topics) \in [Topics -> Rows]
        /\ groups \in [Groups -> Rows] => Inserted(groups) \in [Groups -> Rows]
    BY DEF Inserted, Rows
  <2> QED BY <1>5, <2>1 DEF TypeOK, SeedTopics, SeedGroups, Steps
<1>6. CASE Summary(r)
  <2>1. pc' \in [Runs -> Steps \union Ends]
    BY <1>6 DEF TypeOK, Summary, Ends
  <2> QED BY <1>6, <2>1 DEF TypeOK, Summary
<1>7. CASE Retry(r)
  <2>1. attempt' \in [Runs -> 1 .. MaxAttempts]
    BY <1>7, MigrationAssumption DEF TypeOK, Retry
  <2> QED BY <1>7, <2>1, PlacesOfRuns DEF TypeOK, Retry
<1>8. CASE Die(r)
  <2>1. deaths' \in 0 .. MaxDeaths
    BY <1>8, MigrationAssumption DEF TypeOK, Die
  <2> QED BY <1>8, <2>1 DEF TypeOK, Die, Ends
<1>9. CASE FindObject(r)
  <2>1. seen' \in [Runs -> 0 .. Objects - 1]
    BY <1>9, MigrationAssumption DEF TypeOK, FindObject
  <2>2. pc' \in [Runs -> Steps \union Ends]
    BY <1>9 DEF TypeOK, FindObject, Steps
  <2> QED BY <1>9, <2>1, <2>2 DEF TypeOK, FindObject
<1>10. CASE CreateObject(r)
  <2>1. config' \in 0 .. Objects
    BY <1>10, MigrationAssumption DEF TypeOK, CreateObject
  <2>2. seen' \in [Runs -> 0 .. Objects - 1]
    BY <1>10, MigrationAssumption DEF TypeOK, CreateObject
  <2>3. pc' \in [Runs -> Steps \union Ends]
    BY <1>10 DEF TypeOK, CreateObject, Steps, Ends
  <2> QED BY <1>10, <2>1, <2>2, <2>3 DEF TypeOK, CreateObject
<1> QED BY <1>1, <1>2, <1>3, <1>4, <1>5, <1>6, <1>7, <1>8, <1>9, <1>10 DEF Run

LEMMA DeployTypesInit == DeployInit => DeployTypeOK
<1> SUFFICES ASSUME DeployInit PROVE DeployTypeOK
  OBVIOUS
<1>1. TypeOK
  <2>1. pc \in [Runs -> Steps \union Ends]
    BY PlacesOfRuns DEF DeployInit, Init
  <2>2. attempt \in [Runs -> 1 .. MaxAttempts] /\ deaths \in 0 .. MaxDeaths
    BY MigrationAssumption DEF DeployInit, Init
  <2>3. config \in 0 .. Objects /\ seen \in [Runs -> 0 .. Objects - 1]
    BY MigrationAssumption DEF DeployInit, Init
  <2> QED BY <2>1, <2>2, <2>3 DEF DeployInit, Init, TypeOK, Tables, Rows
<1>2. changes \in 0 .. MaxChanges
  BY DeploymentAssumption DEF DeployInit
<1> QED BY <1>1, <1>2 DEF DeployInit, DeployTypeOK, Places

LEMMA DeployTypesStep ==
    ASSUME DeployTypeOK, [DeployNext]_deployVars
    PROVE  DeployTypeOK'
<1> USE DEF consumers, vars, postgres, GotoPlace
<1>1. ASSUME NEW r \in Runs, Migrate(r) PROVE DeployTypeOK'
  BY <1>1, RunTypes DEF DeployTypeOK, Migrate
<1>2. ASSUME NEW t \in Topics, CreateTopic(t) PROVE DeployTypeOK'
  BY <1>2 DEF DeployTypeOK, CreateTopic, TypeOK
<1>3. ASSUME NEW t \in Topics, StartConsumer(t) \/ RestartConsumer(t) PROVE DeployTypeOK'
  BY <1>3 DEF DeployTypeOK, StartConsumer, RestartConsumer, Places, TypeOK
<1>4. ASSUME NEW t \in Topics, ReadTopics(t) PROVE DeployTypeOK'
  <2>1. found' \in [Topics -> BOOLEAN]
    BY <1>4 DEF DeployTypeOK, ReadTopics
  <2> QED BY <1>4, <2>1 DEF DeployTypeOK, ReadTopics, Places, TypeOK
<1>5. ASSUME NEW t \in Topics, ReadGroups(t) PROVE DeployTypeOK'
  <2>1. Active(groups) \subseteq Groups
    BY DEF DeployTypeOK, TypeOK, Active
  <2> QED BY <1>5, <2>1 DEF DeployTypeOK, ReadGroups, Places, TypeOK
<1>6. ASSUME Act PROVE changes' \in 0 .. MaxChanges
  BY <1>6, DeploymentAssumption DEF Act, DeployTypeOK
<1>7. ASSUME NEW t \in Topics, CrashConsumer(t) PROVE DeployTypeOK'
  BY <1>6, <1>7 DEF DeployTypeOK, CrashConsumer, Places, TypeOK
<1>8. ASSUME NEW t \in Topics, SwitchTopic(t) PROVE DeployTypeOK'
  <2>1. topics' \in [Topics -> Rows]
    BY <1>8 DEF DeployTypeOK, SwitchTopic, TypeOK, Toggled, Rows
  <2> QED BY <1>6, <1>8, <2>1 DEF DeployTypeOK, SwitchTopic, TypeOK
<1>9. ASSUME NEW g \in Groups, SwitchGroup(g) PROVE DeployTypeOK'
  <2>1. groups' \in [Groups -> Rows]
    BY <1>9 DEF DeployTypeOK, SwitchGroup, TypeOK, Toggled, Rows
  <2> QED BY <1>6, <1>9, <2>1 DEF DeployTypeOK, SwitchGroup, TypeOK
<1>10. 1 \in 1 .. MaxAttempts
  BY MigrationAssumption
<1>11. CASE UpAgain
  <2>1. pc' \in [Runs -> Steps \union Ends] /\ attempt' \in [Runs -> 1 .. MaxAttempts]
    BY <1>10, <1>11, PlacesOfRuns DEF UpAgain, DeployTypeOK, TypeOK
  <2> QED BY <1>6, <1>11, <2>1 DEF DeployTypeOK, UpAgain, TypeOK
<1>12. CASE Recreate
  <2>1. pc' \in [Runs -> Steps \union Ends] /\ attempt' \in [Runs -> 1 .. MaxAttempts]
    BY <1>10, <1>12, PlacesOfRuns DEF Recreate
  <2> QED BY <1>6, <1>12, <2>1 DEF DeployTypeOK, Recreate, TypeOK, Tables, Places
<1>13. CASE UNCHANGED deployVars
  BY <1>13 DEF DeployTypeOK, TypeOK, deployVars
<1> QED
  BY <1>1, <1>2, <1>3, <1>4, <1>5, <1>7, <1>8, <1>9, <1>11, <1>12, <1>13
  DEF DeployNext, Serve, Operate

\* The types of the migration, the configuration and the consumers' places, whatever the
\* operator does and whatever is cut short.
THEOREM DeploymentTypes == DeploySpec => []DeployTypeOK
<1>1. DeployTypeOK /\ [DeployNext]_deployVars => DeployTypeOK'
  BY DeployTypesStep
<1> QED BY <1>1, DeployTypesInit, PTL DEF DeploySpec

-----------------------------------------------------------------------------
\* The tables are created together, and clients are filled first.
SeedOrder == OneSeeder /\ (clients = "empty" => loans = "empty")

LEMMA SeederStep ==
    ASSUME TypeOK, SeedOrder, NEW r \in Runs, Run(r) \/ Die(r) \/ Retry(r)
    PROVE  SeedOrder'
<1> USE DEF Goto
<1>1. pc \in [Runs -> Steps \union Ends]
  BY DEF TypeOK
<1>2. First(r) # "loans" /\ AfterTidb(r) # "loans"
  BY DEF First, AfterTidb
<1>3. \A q \in Runs : q # r => pc'[q] = pc[q]
  BY <1>1 DEF Run, Die, Schema, Guard, SeedClients, SeedLoans, Recount,
        FindObject, CreateObject, SeedTopics, SeedGroups, Summary, Retry
<1>4. CASE Schema(r)
  <2>1. pc'[r] # "loans" /\ clients' = Created(clients) /\ loans' = Created(loans)
    BY <1>1, <1>4 DEF Schema
  <2>2. \A q \in Runs : pc'[q] = "loans" => pc[q] = "loans"
    BY <1>3, <2>1
  <2>3. ASSUME NEW q \in Runs, pc[q] = "loans"
        PROVE  clients' = "seeded" /\ loans' = "empty"
    BY <2>1, <2>3 DEF SeedOrder, OneSeeder, Created
  <2>4. clients' = "empty" => loans' = "empty"
    BY <2>1 DEF SeedOrder, OneSeeder, Created, TypeOK, Tables
  <2>5. \A q1, q2 \in Runs : pc'[q1] = "loans" /\ pc'[q2] = "loans" => q1 = q2
    BY <2>2 DEF SeedOrder, OneSeeder
  <2>6. loans' = "seeded" => clients' = "seeded"
    BY <2>1 DEF SeedOrder, OneSeeder, Created
  <2> QED BY <2>2, <2>3, <2>4, <2>5, <2>6 DEF SeedOrder, OneSeeder
<1>5. CASE SeedClients(r)
  <2>1. clients' = "seeded" /\ loans' = loans
    BY <1>5 DEF SeedClients
  <2>2. CASE clients = "empty"
    <3>1. \A q \in Runs : pc[q] # "loans"
      BY <2>2 DEF SeedOrder, OneSeeder
    <3>3. \A q \in Runs : pc'[q] = "loans" => q = r
      BY <1>3, <3>1
    <3>2. loans = "empty"
      BY <2>2 DEF SeedOrder
    <3> QED BY <2>1, <3>3, <3>2 DEF SeedOrder, OneSeeder
  <2>3. CASE clients # "empty"
    <3>1. pc'[r] # "loans"
      BY <1>1, <1>5, <2>3 DEF SeedClients
    <3> QED BY <1>3, <2>1, <3>1 DEF SeedOrder, OneSeeder
  <2> QED BY <2>2, <2>3
<1>6. CASE SeedLoans(r)
  <2>1. \A q \in Runs : pc'[q] # "loans"
    BY <1>1, <1>3, <1>6 DEF SeedLoans, SeedOrder, OneSeeder
  <2>2. loans' = "seeded" /\ clients' = "seeded"
    BY <1>6 DEF SeedLoans, SeedOrder, OneSeeder
  <2> QED BY <2>1, <2>2 DEF SeedOrder, OneSeeder
<1>7. CASE \/ Guard(r) \/ Recount(r) \/ FindObject(r) \/ CreateObject(r) \/ SeedTopics(r)
           \/ SeedGroups(r) \/ Summary(r) \/ Retry(r) \/ Die(r)
  <2>1. pc'[r] # "loans" /\ UNCHANGED <<clients, loans>>
    BY <1>1, <1>2, <1>7 DEF Guard, Recount, FindObject, CreateObject, SeedTopics, SeedGroups,
                           Summary, Retry, Die
  <2> QED BY <1>3, <2>1 DEF SeedOrder, OneSeeder
<1> QED BY <1>4, <1>5, <1>6, <1>7 DEF Run

LEMMA SeederDeployStep ==
    ASSUME DeployTypeOK, SeedOrder, [DeployNext]_deployVars
    PROVE  SeedOrder'
<1> USE DEF consumers, vars, postgres
<1>1. ASSUME NEW r \in Runs, Migrate(r) PROVE SeedOrder'
  BY <1>1, SeederStep DEF Migrate, DeployTypeOK
<1>2. ASSUME UNCHANGED <<clients, loans, pc>> PROVE SeedOrder'
  BY <1>2 DEF SeedOrder, OneSeeder
<1>3. ASSUME NEW t \in Topics, CreateTopic(t) \/ Serve(t) \/ CrashConsumer(t) \/ SwitchTopic(t)
      PROVE  SeedOrder'
  BY <1>2, <1>3 DEF CreateTopic, Serve, StartConsumer, ReadTopics, ReadGroups, RestartConsumer,
                    CrashConsumer, SwitchTopic
<1>4. ASSUME NEW g \in Groups, SwitchGroup(g) PROVE SeedOrder'
  BY <1>2, <1>4 DEF SwitchGroup
<1>5. \A r \in Runs : First(r) # "loans"
  BY DEF First
<1>6. CASE UpAgain
  <2>1. UNCHANGED <<clients, loans>> /\ \A q \in Runs : pc'[q] = "loans" => pc[q] = "loans"
    BY <1>5, <1>6 DEF UpAgain
  <2> QED BY <2>1 DEF SeedOrder, OneSeeder
<1>7. CASE Recreate
  BY <1>5, <1>7 DEF Recreate, SeedOrder, OneSeeder
<1>8. CASE UNCHANGED deployVars
  BY <1>2, <1>8 DEF deployVars
<1> QED BY <1>1, <1>3, <1>4, <1>6, <1>7, <1>8 DEF DeployNext, Operate

\* However many runs of the migration pass its guard together, at most one of them goes on
\* to seed, and never into a table that has been filled.
THEOREM AtMostOneSeeder == DeploySpec => []OneSeeder
<1>1. DeployInit => SeedOrder
  BY PlacesOfRuns DEF DeployInit, Init, SeedOrder, OneSeeder, First
<1>2. DeployTypeOK /\ SeedOrder /\ [DeployNext]_deployVars => SeedOrder'
  BY SeederDeployStep
<1>3. SeedOrder => OneSeeder
  BY DEF SeedOrder
<1> QED BY <1>1, <1>2, <1>3, DeploymentTypes, PTL DEF DeploySpec

-----------------------------------------------------------------------------
\* Migrating again leaves what the operator has switched off as it is.
THEOREM SeedingRespectsOperator == DeploySpec => OperatorDecides
<1> USE DEF consumers, vars, postgres
<1>1. ASSUME DeployTypeOK, [DeployNext]_deployVars
      PROVE  [\/ changes' # changes
              \/ /\ Active(topics') \intersect {t \in Topics : topics[t] = "inactive"} = {}
                 /\ Active(groups') \intersect {g \in Groups : groups[g] = "inactive"} = {}]_deployVars
  <2>1. topics \in [Topics -> Rows] /\ groups \in [Groups -> Rows] /\ changes \in Nat
    BY <1>1, DeploymentAssumption DEF DeployTypeOK, TypeOK
  <2>2. CASE Operate \/ \E t \in Topics : CrashConsumer(t)
    <3>1. Act
      BY <2>2 DEF Operate, UpAgain, Recreate, SwitchTopic, SwitchGroup, CrashConsumer
    <3> QED BY <2>1, <3>1 DEF Act
  <2>3. ASSUME topics' \in {topics, Inserted(topics)}, groups' \in {groups, Inserted(groups)}
        PROVE  /\ Active(topics') \intersect {t \in Topics : topics[t] = "inactive"} = {}
               /\ Active(groups') \intersect {g \in Groups : groups[g] = "inactive"} = {}
    <3>1. \A t \in Topics : topics[t] = "inactive" => topics'[t] = "inactive"
      BY <2>1, <2>3 DEF Inserted
    <3>2. \A g \in Groups : groups[g] = "inactive" => groups'[g] = "inactive"
      BY <2>1, <2>3 DEF Inserted
    <3> QED BY <3>1, <3>2 DEF Active
  <2>4. ASSUME NEW r \in Runs, Migrate(r)
        PROVE  topics' \in {topics, Inserted(topics)} /\ groups' \in {groups, Inserted(groups)}
    BY <2>4 DEF Migrate, Run, Die, Schema, Guard, SeedClients, SeedLoans, Recount,
          FindObject, CreateObject, SeedTopics, SeedGroups, Summary, Retry
  <2>5. CASE \E t \in Topics : CreateTopic(t) \/ Serve(t)
    BY <2>3, <2>5 DEF CreateTopic, Serve, StartConsumer, ReadTopics, ReadGroups, RestartConsumer
  <2> QED BY <1>1, <2>2, <2>3, <2>4, <2>5 DEF DeployNext
<1>2. DeployTypeOK /\ [DeployNext]_deployVars
        => [\/ changes' # changes
            \/ /\ Active(topics') \intersect {t \in Topics : topics[t] = "inactive"} = {}
               /\ Active(groups') \intersect {g \in Groups : groups[g] = "inactive"} = {}]_deployVars
  BY <1>1
<1> QED BY <1>2, DeploymentTypes, PTL DEF DeploySpec, OperatorDecides

-----------------------------------------------------------------------------
\* What the services a consumer depends on have left behind, and nothing takes away
\* as long as the consumers have been started.
Present(rows) == \A x \in DOMAIN rows : rows[x] # "absent"
Prepared == kafka = Topics /\ clients # "absent" /\ Present(groups)
SchemaDone(r) ==
    "tidb" \in Parts[r] /\ pc[r] \notin {"schema", "failed"} => clients # "absent"
GroupsDone(r) ==
    "postgres" \in Parts[r] /\ pc[r] \in {"summary", "complete", "unexpected"} => Present(groups)
OnlyOperator == \A g \in Groups : groups[g] = "inactive" => g \in switchedOff

Foundations ==
    /\ \A t \in Topics : svc[t] # "created" => Prepared
    /\ \A t \in Topics : svc[t] = "running" => Groups \ conf[t] \subseteq switchedOff
    /\ OnlyOperator
    /\ \A r \in Runs : SchemaDone(r) /\ GroupsDone(r)

\* A run of the migration never takes away what is there, and leaves its own part.
LEMMA FoundationsRun ==
    ASSUME DeployTypeOK, Foundations, NEW r \in Runs, Migrate(r)
    PROVE  Foundations'
<1> USE DEF Goto, consumers, postgres
<1>1. /\ pc \in [Runs -> Steps \union Ends] /\ groups \in [Groups -> Rows]
      /\ clients \in Tables
  BY DEF DeployTypeOK, TypeOK
<1>2. groups' \in {groups, Inserted(groups)}
  BY DEF Migrate, Run, Die, Schema, Guard, SeedClients, SeedLoans, Recount,
         FindObject, CreateObject, SeedTopics, SeedGroups, Summary, Retry
<1>3. groups' \in [Groups -> Rows] /\ (Present(groups) => Present(groups'))
  BY <1>1, <1>2 DEF Inserted, Present, Rows
<1>4. \A g \in Groups : groups'[g] = "inactive" => groups[g] = "inactive"
  BY <1>1, <1>2 DEF Inserted
<1>5. clients # "absent" => clients' # "absent"
  BY <1>1 DEF Migrate, Run, Die, Schema, Guard, SeedClients, SeedLoans, Recount,
         FindObject, CreateObject, SeedTopics, SeedGroups, Summary, Retry, Created
<1>6. \A q \in Runs : q # r => pc'[q] = pc[q]
  BY <1>1 DEF Migrate, Run, Die, Schema, Guard, SeedClients, SeedLoans, Recount,
         FindObject, CreateObject, SeedTopics, SeedGroups, Summary, Retry
<1>7. SchemaDone(r)'
  <2>1. CASE Schema(r) \/ SeedClients(r)
    BY <1>1, <2>1 DEF SchemaDone, Schema, SeedClients, Created
  <2>2. CASE \/ Guard(r) \/ SeedLoans(r) \/ Recount(r) \/ FindObject(r) \/ CreateObject(r)
             \/ SeedTopics(r) \/ SeedGroups(r) \/ Summary(r)
    <3>1. \/ pc[r] \notin {"schema", "failed"} /\ clients' = clients
          \/ clients' # "absent"
      BY <2>2 DEF Guard, SeedLoans, Recount, FindObject, CreateObject, SeedTopics, SeedGroups,
                  Summary
    <3> QED BY <3>1 DEF Foundations, SchemaDone
  <2>3. CASE Retry(r)
    BY <1>1, <2>3 DEF Retry, SchemaDone, First
  <2>4. CASE Die(r)
    BY <1>1, <2>4 DEF Die, SchemaDone
  <2> QED BY <2>1, <2>2, <2>3, <2>4 DEF Migrate, Run
<1>8. GroupsDone(r)'
  <2>1. CASE SeedGroups(r)
    BY <1>1, <2>1 DEF SeedGroups, GroupsDone, Present, Inserted
  <2>2. CASE Summary(r)
    BY <1>1, <1>3, <2>2 DEF Summary, GroupsDone, Foundations
  <2>3. CASE Guard(r) \/ Recount(r)
    BY <1>1, <2>3 DEF Guard, Recount, GroupsDone, AfterTidb
  <2>4. CASE \/ Schema(r) \/ SeedClients(r) \/ SeedLoans(r) \/ FindObject(r) \/ CreateObject(r)
             \/ SeedTopics(r) \/ Die(r)
    BY <1>1, <2>4 DEF Schema, SeedClients, SeedLoans, FindObject, CreateObject, SeedTopics, Die,
                      GroupsDone
  <2>5. CASE Retry(r)
    BY <1>1, <2>5 DEF Retry, GroupsDone, First
  <2> QED BY <2>1, <2>2, <2>3, <2>4, <2>5 DEF Migrate, Run
<1>9. \A q \in Runs : SchemaDone(q)' /\ GroupsDone(q)'
  BY <1>3, <1>5, <1>6, <1>7, <1>8 DEF Foundations, SchemaDone, GroupsDone
<1> QED BY <1>3, <1>4, <1>5, <1>9 DEF Foundations, Prepared, OnlyOperator, Migrate

\* Compose starts a consumer when its dependencies have succeeded, and so have left
\* their parts; main reads them after that.
LEMMA FoundationsServe ==
    ASSUME DeployTypeOK, Foundations, NEW t \in Topics, Serve(t) \/ CrashConsumer(t)
    PROVE  Foundations'
<1> USE DEF GotoPlace
<1>1. svc \in [Topics -> Places] /\ groups \in [Groups -> Rows] /\ conf \in [Topics -> SUBSET Groups]
  BY DEF DeployTypeOK, TypeOK
<1>2. UNCHANGED <<kafka, clients, groups, pc, switchedOff>>
  BY DEF Serve, StartConsumer, ReadTopics, ReadGroups, RestartConsumer, CrashConsumer, vars, postgres
<1>3. \A u \in Topics : u # t => svc'[u] = svc[u] /\ conf'[u] = conf[u]
  BY <1>1 DEF Serve, StartConsumer, ReadTopics, ReadGroups, RestartConsumer, CrashConsumer
<1>4. Prepared
  <2>1. CASE StartConsumer(t)
    <3>1. Ready
      BY <2>1 DEF StartConsumer
    <3>2. PICK r \in ComposeRuns : "tidb" \in Parts[r]
      BY ComposeAssumption
    <3>3. PICK q \in ComposeRuns : "postgres" \in Parts[q]
      BY ComposeAssumption
    <3>4. SchemaDone(r) /\ GroupsDone(q)
      BY <3>2, <3>3, MigrationAssumption DEF Foundations
    <3> QED BY <3>1, <3>2, <3>3, <3>4 DEF Ready, SchemaDone, GroupsDone, Prepared
  <2>2. CASE svc[t] # "created"
    BY <2>2 DEF Foundations
  <2> QED
    BY <2>1, <2>2 DEF Serve, ReadTopics, ReadGroups, RestartConsumer, CrashConsumer
<1>5. Prepared' /\ OnlyOperator' /\ \A r \in Runs : SchemaDone(r)' /\ GroupsDone(r)'
  BY <1>2, <1>4 DEF Foundations, Prepared, Present, OnlyOperator, SchemaDone, GroupsDone
<1>6. svc'[t] = "running" => Groups \ conf'[t] \subseteq switchedOff'
  <2>1. CASE ReadGroups(t)
    <3>1. conf'[t] = Active(groups)
      BY <1>1, <2>1 DEF ReadGroups
    <3>2. \A g \in Groups : g \notin Active(groups) => groups[g] = "inactive"
      BY <1>1, <1>4 DEF Active, Prepared, Present, Rows
    <3> QED BY <1>2, <3>1, <3>2 DEF Foundations, OnlyOperator
  <2>2. CASE StartConsumer(t) \/ ReadTopics(t) \/ RestartConsumer(t) \/ CrashConsumer(t)
    BY <1>1, <2>2 DEF StartConsumer, ReadTopics, RestartConsumer, CrashConsumer
  <2> QED BY <2>1, <2>2 DEF Serve
<1> QED BY <1>2, <1>3, <1>5, <1>6 DEF Foundations

LEMMA FoundationsStep ==
    ASSUME DeployTypeOK, Foundations, [DeployNext]_deployVars
    PROVE  Foundations'
<1> USE DEF consumers, vars, postgres
<1>1. groups \in [Groups -> Rows] /\ pc \in [Runs -> Steps \union Ends]
  BY DEF DeployTypeOK, TypeOK
<1>2. ASSUME UNCHANGED <<kafka, clients, groups, pc, svc, conf, switchedOff>> PROVE Foundations'
  BY <1>2 DEF Foundations, Prepared, Present, OnlyOperator, SchemaDone, GroupsDone
<1>3. ASSUME NEW t \in Topics, CreateTopic(t) PROVE Foundations'
  <2>1. kafka # Topics
    BY <1>3 DEF CreateTopic
  <2> QED
    BY <1>3, <2>1 DEF CreateTopic, Foundations, Prepared, Present, OnlyOperator, SchemaDone,
                      GroupsDone
<1>4. ASSUME NEW t \in Topics, SwitchTopic(t) PROVE Foundations'
  BY <1>2, <1>4 DEF SwitchTopic
<1>5. ASSUME NEW g \in Groups, SwitchGroup(g) PROVE Foundations'
  <2>1. groups' \in [Groups -> Rows] /\ (Present(groups) => Present(groups'))
    BY <1>1, <1>5 DEF SwitchGroup, Toggled, Present, Rows
  <2>2. \A h \in Groups : h # g => groups'[h] = groups[h]
    BY <1>1, <1>5 DEF SwitchGroup, Toggled
  <2> QED
    BY <1>5, <2>1, <2>2 DEF SwitchGroup, Foundations, Prepared, OnlyOperator, SchemaDone,
                            GroupsDone
<1>6. CASE UpAgain
  <2>1. \A r \in Runs : pc'[r] \in {pc[r], First(r)}
    BY <1>6 DEF UpAgain
  <2>2. \A r \in Runs : SchemaDone(r)' /\ GroupsDone(r)'
    BY <1>6, <2>1 DEF UpAgain, First, Foundations, SchemaDone, GroupsDone, Present
  <2> QED BY <1>6, <2>2 DEF UpAgain, Foundations, Prepared, Present, OnlyOperator
<1>7. CASE Recreate
  <2>1. \A r \in Runs : SchemaDone(r)' /\ GroupsDone(r)'
    BY <1>7 DEF Recreate, First, SchemaDone, GroupsDone
  <2> QED BY <1>7, <2>1 DEF Recreate, Foundations, OnlyOperator
<1>8. CASE UNCHANGED deployVars
  BY <1>2, <1>8 DEF deployVars
<1> QED
  BY <1>3, <1>4, <1>5, <1>6, <1>7, <1>8, FoundationsRun, FoundationsServe DEF DeployNext, Operate

\* No consumer runs without its tables, its topic, or a feature group that nobody has
\* switched off, however the migrations, restarts and `up` and `down` interleave.
THEOREM ConsumersRunConfigured == DeploySpec => []RunsConfigured
<1>1. DeployInit => Foundations
  BY PlacesOfRuns DEF DeployInit, Init, First, Foundations, OnlyOperator, SchemaDone, GroupsDone
<1>2. DeployTypeOK /\ Foundations /\ [DeployNext]_deployVars => Foundations'
  BY FoundationsStep
<1>3. Foundations => RunsConfigured
  BY DEF Foundations, RunsConfigured, Prepared
<1> QED BY <1>1, <1>2, <1>3, DeploymentTypes, PTL DEF DeploySpec

=============================================================================
