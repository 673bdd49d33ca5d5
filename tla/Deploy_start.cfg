SPECIFICATION DeployFairSpec
CONSTANTS
  migrateTidb = migrateTidb
  migratePostgres = migratePostgres
  script = script
  Runs = {migrateTidb, migratePostgres, script}
  Parts <- OneDatabaseEach
  ComposeRuns = {migrateTidb, migratePostgres}
  Topics = {t1}
  Groups = {g1}
  Objects = 2
  MaxAttempts = 2
  MaxDeaths = 1
  MaxChanges = 2
CHECK_DEADLOCK FALSE
INVARIANTS DeployTypeOK OneSeeder RunsConfigured
PROPERTIES OperatorDecides EveryConsumerRuns AttemptsSucceed
