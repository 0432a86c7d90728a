------------------------------- MODULE Ledger -------------------------------
(***************************************************************************)
(* What the receivables promise of one account, whatever the handlers in   *)
(* between: money is taken for invoices that were issued, what awaits      *)
(* verification is collected to the unit, what was collected is never      *)
(* undone, and the status of an invoice is told from its money.  It does   *)
(* not promise that no more is taken than the invoice asks for.            *)
(***************************************************************************)
EXTENDS Integers

CONSTANTS
  Invoice,    \* invoices
  Total       \* what each asks for

VARIABLES
  status,     \* status[i]: "absent" until i is issued
  collected,  \* collected[i]: the verified payments
  awaiting,   \* awaiting[i]: the payments that await verification
  returned    \* returned[i]: the verified refunds

vars == <<status, collected, awaiting, returned>>

Init ==
  /\ status = [i \in Invoice |-> "absent"]
  /\ collected = [i \in Invoice |-> 0]
  /\ awaiting = [i \in Invoice |-> 0]
  /\ returned = [i \in Invoice |-> 0]

Issued(i) == status[i] # "absent"

(* Of two tables of money the new one is larger, at i alone.               *)
Raises(old, new, i) == old[i] < new[i] /\ new = [old EXCEPT ![i] = new[i]]

(* An invoice is issued, with a first payment perhaps.                     *)
Issue(i) ==
  /\ ~ Issued(i)
  /\ \/ /\ status' = [status EXCEPT ![i] = "unpaid"]
        /\ UNCHANGED collected
        /\ \/ UNCHANGED awaiting
           \/ Raises(awaiting, awaiting', i) /\ awaiting'[i] <= Total[i]
     \/ /\ Raises(collected, collected', i) /\ collected'[i] <= Total[i]
        /\ UNCHANGED awaiting
        /\ status' = [status EXCEPT ![i] =
             IF collected'[i] = Total[i] THEN "paid" ELSE "partial"]
  /\ UNCHANGED returned

Take(i) ==
  /\ Issued(i) /\ UNCHANGED status
  /\ \/ Raises(collected, collected', i) /\ UNCHANGED awaiting
     \/ Raises(awaiting, awaiting', i) /\ UNCHANGED collected
  /\ UNCHANGED returned

(* What awaited verification is collected, to the unit.                    *)
Verify(i) ==
  /\ Issued(i) /\ UNCHANGED status
  /\ Raises(collected, collected', i) /\ Raises(awaiting', awaiting, i)
  /\ collected'[i] + awaiting'[i] = collected[i] + awaiting[i]
  /\ UNCHANGED returned

(* A refund gives back no more than was collected.                         *)
GiveBack(i) ==
  /\ Issued(i) /\ UNCHANGED status
  /\ Raises(returned, returned', i)
  /\ returned'[i] - returned[i] <= collected[i]
  /\ UNCHANGED <<collected, awaiting>>

(* The money justifies the status, though it may justify another one too.  *)
Justified(s, i) ==
  /\ s \in {"unpaid", "partial", "paid", "refunded"}
  /\ s # "unpaid" => collected[i] > 0
  /\ s = "paid" => collected[i] >= Total[i]
  /\ s = "refunded" => returned[i] > 0

Settle(i) ==
  /\ Issued(i)
  /\ status' = [status EXCEPT ![i] = status'[i]]
  /\ Justified(status'[i], i)
  /\ UNCHANGED <<collected, awaiting, returned>>

(* Invoices are cancelled together, and something of what was collected    *)
(* for them is given back.                                                 *)
Cancel(S) ==
  /\ \A i \in S : Issued(i)
  /\ status' = [i \in Invoice |-> IF i \in S THEN "cancelled" ELSE status[i]]
  /\ UNCHANGED <<collected, awaiting>>
  /\ returned' = [i \in Invoice |-> returned'[i]]
  /\ \A i \in Invoice : returned'[i] # returned[i] =>
       i \in S /\ collected[i] > 0 /\ returned[i] < returned'[i]

Next ==
  \/ \E S \in SUBSET Invoice : Cancel(S)
  \/ \E i \in Invoice : Issue(i) \/ Take(i) \/ Verify(i) \/ GiveBack(i) \/ Settle(i)

Spec == Init /\ [][Next]_vars
=============================================================================
