------------------------- MODULE MCEnrollmentBilling -------------------------
(* Instances of EnrollmentBilling for TLC: a mandatory monthly item        *)
(* (tuition), an optional monthly one (bus) and an optional one-time one   *)
(* (trip).                                                                 *)
EXTENDS EnrollmentBilling

CONSTANTS tuition, bus, trip

Symmetry == Permutations(Request) \cup Permutations(Enrollment)
=============================================================================
