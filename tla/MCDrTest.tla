------------------------------ MODULE MCDrTest ------------------------------
(***************************************************************************)
(* Model values for DrTest.                                                *)
(***************************************************************************)
EXTENDS DrTest, TLC

CONSTANTS j1, j2

TwoJobs == {j1, j2}

JobSymmetry == Permutations(Jobs)

=============================================================================
