------------------------------ MODULE MCAccess ------------------------------
(* Instances of Access for TLC.  Accounts and sessions on the one hand,    *)
(* and roles on the other, meet in resolve only: rather than every state   *)
(* of the one with every state of the other, the run explores two tenants, *)
(* both of which Init leads to.                                            *)
EXTENDS Access

(* A tenant with no account yet that has created its roles and deleted     *)
(* them: what is left to happen is about accounts, tokens and sessions.    *)
RolesDeleted ==
  /\ users = [u \in User |-> "absent"]
  /\ roles = [r \in Role |-> [status |-> "deleted", permits |-> FALSE]]
  /\ tokens = [k \in Token |-> NoToken]

(* A tenant whose accounts are active and have used up their tokens: what  *)
(* is left is about roles, sessions and the cache.                         *)
TokensUsed ==
  /\ users = [u \in User |-> "active"]
  /\ roles = [r \in Role |-> NoRole]
  /\ \E u \in User : tokens = [k \in Token |->
       [kind |-> "reset", user |-> u, left |-> 0, used |-> TRUE, uses |-> 1, lost |-> 0]]

MCInit ==
  /\ RolesDeleted \/ TokensUsed
  /\ assigned = [u \in User |-> {}]
  /\ sessions = [s \in Session |-> NoSession]
  /\ cache = [u \in User |-> NoEntry]
  /\ req = [h \in Request |-> Idle]

MCSpec ==
  /\ MCInit /\ [][Next]_vars
  /\ WF_vars(Tick)
  /\ \A h \in Request : WF_vars(Continue(h))
=============================================================================
