----------------------------- MODULE MCAuditLog -----------------------------
(***************************************************************************)
(* Model values and mutated definitions for checking AuditLog with TLC.    *)
(***************************************************************************)
EXTENDS AuditLog, TLC

CONSTANTS c1, c2, c3, c4

FourCalls == {c1, c2, c3, c4}

\* Calls are interchangeable: no definition names one of them.
CallSymmetry == Permutations(Calls)

=============================================================================
