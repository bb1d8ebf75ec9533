---------------------------- MODULE MCBackupRun ----------------------------
(* Small instances of BackupRun: two runs, so that one is asked for while    *)
(* another is queued, running, reported, swept or reconciled.                *)
EXTENDS BackupRun

MCRuns == 1..2
=============================================================================
