---------------------------- MODULE MC_Deployment ----------------------------
(***************************************************************************)
(* Small instances of Deployment and SeedMigration: the two services of       *)
(* docker-compose.yml, and scripts/migrate.sh started by hand beside them.    *)
(***************************************************************************)
EXTENDS Deployment, TLC

CONSTANTS migrateTidb, migratePostgres, script

OneDatabaseEach == migrateTidb :> {"tidb"} @@ migratePostgres :> {"postgres"}
                @@ script :> {"tidb", "postgres"}

=============================================================================
