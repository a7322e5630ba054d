--------------------------- MODULE MCDatabaseService ---------------------------
(***************************************************************************)
(* Sessions that call the service at the same time.                        *)
(***************************************************************************)
EXTENDS DatabaseService
=============================================================================
