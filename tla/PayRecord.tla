----------------------------- MODULE PayRecord ------------------------------
(***************************************************************************)
(* What payroll promises of the records of one run, whatever the handlers  *)
(* in between: a record is drafted, may be adjusted while it is open, and  *)
(* is settled for good.  A payslip made of a settled record says what the  *)
(* record says, until it gives way to one that was begun before.           *)
(***************************************************************************)
CONSTANTS
  Staff,      \* members of staff
  Content,    \* what a record can say: its amounts and its lines
  Blank       \* what a record that is not there says

VARIABLES
  phase,      \* phase[s]: "absent", "open" or "settled"
  content,    \* content[s]: what the record of s says
  slip        \* slip[s]: the payslip of the settled record, or Blank

vars == <<phase, content, slip>>

Init ==
  /\ phase = [s \in Staff |-> "absent"]
  /\ content = [s \in Staff |-> Blank]
  /\ slip = [s \in Staff |-> Blank]

Write(s) ==
  /\ content'[s] \in Content
  /\ content' = [content EXCEPT ![s] = content'[s]]

(* The record is drafted, adjusted, or settled with the last adjustment.   *)
Draft(s) ==
  /\ phase[s] = "absent" /\ phase' = [phase EXCEPT ![s] = "open"]
  /\ Write(s) /\ UNCHANGED slip

Adjust(s) ==
  /\ phase[s] = "open"
  /\ Write(s) /\ UNCHANGED <<phase, slip>>

Settle(s) ==
  /\ phase[s] = "open" /\ phase' = [phase EXCEPT ![s] = "settled"]
  /\ Write(s) /\ UNCHANGED slip

Issue(s) ==
  /\ phase[s] = "settled"
  /\ slip' = [slip EXCEPT ![s] = content[s]]
  /\ UNCHANGED <<phase, content>>

Withdraw(s) ==
  /\ slip' = [slip EXCEPT ![s] = Blank]
  /\ UNCHANGED <<phase, content>>

Next == \E s \in Staff : Draft(s) \/ Adjust(s) \/ Settle(s) \/ Issue(s) \/ Withdraw(s)

Spec == Init /\ [][Next]_vars
=============================================================================
