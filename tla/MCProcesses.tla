----------------------------- MODULE MCProcesses -----------------------------
(***************************************************************************)
(* Processes for TLC: two workers on one file, which is empty or from the  *)
(* first release; crashes add every file a migration was interrupted on.   *)
(***************************************************************************)
EXTENDS Processes, FiniteSets

FirstRelease == {"users", "donations", "idx_donations_user", "claims", "sessions"}

MCOldSchemas == {{}, FirstRelease}
=============================================================================
