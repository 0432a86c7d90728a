---------------------------- MODULE MCDiscounts -----------------------------
(* Instance of Discounts for TLC: the first to enroll get an automatic     *)
(* discount on tuition, and a scholarship that does not stack asks for an  *)
(* approval.                                                               *)
EXTENDS Discounts, TLC

CONSTANTS tuition, books

MCPrice == (tuition :> 5) @@ (books :> 3)
MCBasket == {{tuition, books}}

EarlyBird ==
  [type |-> "early", auto |-> TRUE, stackable |-> TRUE, contexts |-> {"enrollment", "recurring"},
   items |-> {tuition}, percent |-> TRUE, value |-> 50, max |-> 1, threshold |-> None]
Scholarship ==
  [type |-> "scholarship", auto |-> FALSE, stackable |-> FALSE, contexts |-> {"enrollment"},
   items |-> {tuition, books}, percent |-> FALSE, value |-> 3, max |-> None, threshold |-> 2]
MCTerms == {EarlyBird, Scholarship}

Symmetry == Permutations(Request) \cup Permutations(Rule) \cup Permutations(Discount)
=============================================================================
