---------------------------- MODULE MCReceivables ----------------------------
(* Instances of Receivables for TLC: an enrollment invoice, a month's      *)
(* invoice, of its run or of an added service, and an ad hoc one, issued    *)
(* in that order.                                                          *)
EXTENDS Receivables

CONSTANTS enrol, month, other

MCTotal     == (enrol :> 2) @@ (month :> 1) @@ (other :> 1)
MCIssueDate == (enrol :> 1) @@ (month :> 2) @@ (other :> 3)

MCTotalOfTwo     == (enrol :> 2) @@ (month :> 1)
MCIssueDateOfTwo == (enrol :> 1) @@ (month :> 2)

Symmetry == Permutations(Request)
=============================================================================
