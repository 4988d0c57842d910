------------------------------ MODULE MCBackup ------------------------------
(* Backup and Restore on a small instance.                                  *)
EXTENDS Backup
=============================================================================
