--------------------------- MODULE MCLocalBackup ---------------------------
(***************************************************************************)
(* Model values for LocalBackup.                                           *)
(***************************************************************************)
EXTENDS LocalBackup

CONSTANTS j1, j2

TwoJobs == {j1, j2}

=============================================================================
