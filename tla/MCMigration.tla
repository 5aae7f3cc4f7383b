----------------------------- MODULE MCMigration -----------------------------
(* Small instances of Migration.                                           *)
EXTENDS Migration

CONSTANTS m1, m2
=============================================================================
