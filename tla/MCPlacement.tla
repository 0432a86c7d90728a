---------------------------- MODULE MCPlacement ----------------------------
(* Instances of Placement for TLC.                                         *)
EXTENDS Placement, TLC

Symmetry ==
  Permutations(Student) \cup Permutations(Enrollment) \cup Permutations(Classroom)
=============================================================================
