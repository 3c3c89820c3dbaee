-------------------------- MODULE MCAssessmentStore --------------------------
(***************************************************************************)
(* Model values for AssessmentStore.                                       *)
(***************************************************************************)
EXTENDS AssessmentStore, TLC

CONSTANTS j1, j2, j3

ThreeJobs == {j1, j2, j3}

\* Jobs are interchangeable: no definition names one of them.
JobSymmetry == Permutations(Jobs)

=============================================================================
