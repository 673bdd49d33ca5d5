SPECIFICATION DeploySpec
CONSTANTS
  migrateTidb = migrateTidb
  migratePostgres = migratePostgres
  script = script
  Runs = {migrateTidb, migratePostgres, script}
  Parts <- OneDatabaseEach
  ComposeRuns = {migrateTidb, migratePostgres}
  Topics = {t1}
  Groups = {g1}
  Objects = 1
  MaxAttempts = 3
  MaxDeaths = 1
  MaxChanges = 0
CHECK_DEADLOCK FALSE
INVARIANTS CompleteMeansSeeded
