------------------------ MODULE MCReceivablesSerial -------------------------
(* One request at a time, for TLC.  In a behaviour of Spec requests may be *)
(* abandoned; in one of FairSpec each is resumed.  Both are explored, and  *)
(* what must eventually happen is asked of the second kind.                *)
EXTENDS MCReceivables

VARIABLE resumes   \* whether this is a behaviour of FairSpec

SerialInit == Init /\ resumes \in BOOLEAN

SerialNext ==
  /\ (resumes /\ Work) \/ (~ resumes /\ Next)
  /\ UNCHANGED resumes

SerialSpec == SerialInit /\ [][SerialNext]_<<vars, resumes>> /\ Fairness

(* An invoice whose verified payments cover it is eventually closed, when  *)
(* every request is resumed: the last of verifyPayment's statements is the *)
(* recalculation.                                                          *)
SettlesWhenResumed == resumes => CoveredIsClosed
=============================================================================
