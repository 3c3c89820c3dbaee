--------------------------- MODULE MCServiceHealth --------------------------
(***************************************************************************)
(* Objectives for ServiceHealth: the default, a strict one, and the one    *)
(* that leaves no error budget.                                            *)
(***************************************************************************)
EXTENDS ServiceHealth

Objective(availability, rpo, rto) == [availability |-> availability, rpo |-> rpo, rto |-> rto]

SomeObjectives == {Objective(9950, 24, 2), Objective(5000, 32, 40), Objective(10000, 48, 2)}

=============================================================================
