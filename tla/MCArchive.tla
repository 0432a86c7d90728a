------------------------------ MODULE MCArchive ------------------------------
(* Instances of Archive for TLC: a member of the staff alone, or a student *)
(* of one tenant and a member of the staff of another.                     *)
EXTENDS Archive, TLC

CONSTANTS ann, bo, north, south

MCTenantOf == (ann :> north) @@ (bo :> south)
MCTenantOfOne == bo :> south

RequestSymmetry == Permutations(Request)
==============================================================================
