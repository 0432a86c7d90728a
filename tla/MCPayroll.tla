------------------------------ MODULE MCPayroll ------------------------------
(* Instances of Payroll for TLC: a component paid to everyone (allowance)  *)
(* and a program awarded in a run (bonus).                                 *)
EXTENDS Payroll

CONSTANTS allowance, bonus, adjustment

Symmetry == Permutations(Request)
StaffSymmetry == Permutations(Staff)
=============================================================================
