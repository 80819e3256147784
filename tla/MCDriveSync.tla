----------------------------- MODULE MCDriveSync -----------------------------
EXTENDS DriveSync
=============================================================================
