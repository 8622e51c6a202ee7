------------------------------ MODULE MCBackup ------------------------------
EXTENDS Backup
==============================================================================
