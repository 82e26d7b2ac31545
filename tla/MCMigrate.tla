------------------------------ MODULE MCMigrate ------------------------------
(* An instance of Migrate for TLC. *)
EXTENDS Migrate

CONSTANTS i1, b1

\* One pear-migrate at a time, as the window has one; the next starts when this one's
\* import-commit has ended in the daemon too.
MCImporter == {i1}
MCBackup == {b1}

=============================================================================
