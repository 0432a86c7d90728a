------------------------------- MODULE Leaves -------------------------------
(***************************************************************************)
(* Leave types, yearly allocations and recorded leaves of the staff:       *)
(* leaves.service.ts, for one tenant and one calendar year.  Archive adds  *)
(* the rest of a staff file and gives the specification.                   *)
(*                                                                         *)
(* No handler uses a transaction: every statement is a step.  A check that *)
(* the next statement makes again is left to that one.                     *)
(***************************************************************************)
EXTENDS Integers, FiniteSets, FiniteSetsExt, Functions

CONSTANTS
  Staff,          \* staff rows
  LeaveType,      \* leave types that may be created
  None,           \* null
  Days,           \* days that are requested
  Quotas,         \* quotas and allocations that are set
  Request         \* handlers that may be in flight at once

ASSUME LeaveAssumption ==
  /\ IsFiniteSet(Request) /\ Request # {}
  /\ Days \subseteq Nat \ {0} /\ IsFiniteSet(Days) /\ Days # {}
  /\ Quotas \subseteq Nat /\ IsFiniteSet(Quotas) /\ Quotas # {}
  /\ None \notin Staff \cup LeaveType \cup Nat

VARIABLES
  people,     \* the students and the staff that have a row
  types,      \* types[t]: status and yearly quota
  balances,   \* balances[m][t]: the override of m's allocation, or None
  leaves,     \* leaves[m][t][d]: recorded leaves of d days
  req         \* req[h]: where handler h is and what it has read

leaveVars == <<types, balances, leaves>>

Idle == [pc |-> "idle", staff |-> None, type |-> None, days |-> 0, allocated |-> 0,
         entries |-> {}]

At(h, pc) == req[h].pc = pc
Goto(h, locals) == req' = [req EXCEPT ![h] = locals]
Stored(t) == types[t].status \in {"active", "archived"}

Used(m, t) == SumFunctionOnSet([d \in Days |-> d * leaves[m][t][d]], Days)

(* The rows that refer to a member of the staff, and to a leave type.      *)
OnLeave(m, t) == \E d \in Days : leaves[m][t][d] > 0
HasLeaveRows(m) == \E t \in LeaveType : balances[m][t] # None \/ OnLeave(m, t)
TypeInUse(t) == \E m \in Staff : balances[m][t] # None \/ OnLeave(m, t)

InitLeaves ==
  /\ types = [t \in LeaveType |-> [status |-> "absent", quota |-> 0]]
  /\ balances = [m \in Staff |-> [t \in LeaveType |-> None]]
  /\ leaves = [m \in Staff |-> [t \in LeaveType |-> [d \in Days |-> 0]]]
  /\ req = [h \in Request |-> Idle]

-----------------------------------------------------------------------------
(* Leave types.                                                            *)

CreateType(t) ==
  /\ types[t].status = "absent"
  /\ \E q \in Quotas : types' = [types EXCEPT ![t] = [status |-> "active", quota |-> q]]
  /\ UNCHANGED <<balances, leaves, req>>

UpdateQuota(t) ==
  /\ Stored(t)
  /\ \E q \in Quotas : types' = [types EXCEPT ![t].quota = q]
  /\ UNCHANGED <<balances, leaves, req>>

(* archiveLeaveType, restoreLeaveType.                                     *)
SetTypeStatus(t) ==
  /\ Stored(t)
  /\ \E status \in {"active", "archived"} : types' = [types EXCEPT ![t].status = status]
  /\ UNCHANGED <<balances, leaves, req>>

(* deleteLeaveType: an archived type that no leave was recorded with.      *)
DeleteTypeRead(h, t) ==
  /\ At(h, "idle")
  /\ types[t].status = "archived"
  /\ Goto(h, [Idle EXCEPT !.pc = "deleteCount", !.type = t])
  /\ UNCHANGED leaveVars

DeleteTypeCount(h) ==
  /\ At(h, "deleteCount")
  /\ Goto(h, IF \E m \in Staff : OnLeave(m, req[h].type) THEN Idle
             ELSE [req[h] EXCEPT !.pc = "deleteBalances"])
  /\ UNCHANGED leaveVars

DeleteTypeBalances(h) ==
  /\ At(h, "deleteBalances")
  /\ balances' = [m \in Staff |-> [balances[m] EXCEPT ![req[h].type] = None]]
  /\ Goto(h, [req[h] EXCEPT !.pc = "deleteType"])
  /\ UNCHANGED <<types, leaves>>

(* Mutant of DeleteTypeRow: the rows that refer to the type do not count.  *)
DeleteTypeRowAnyway(h) ==
  /\ At(h, "deleteType")
  /\ types' = [types EXCEPT ![req[h].type].status = "deleted"]
  /\ Goto(h, Idle)
  /\ UNCHANGED <<balances, leaves>>

(* The foreign keys refuse it when a row has come since.                   *)
DeleteTypeRow(h) ==
  /\ At(h, "deleteType")
  /\ types' = IF TypeInUse(req[h].type) THEN types
              ELSE [types EXCEPT ![req[h].type].status = "deleted"]
  /\ Goto(h, Idle)
  /\ UNCHANGED <<balances, leaves>>

-----------------------------------------------------------------------------
(* Allocations and leaves.                                                 *)

(* setLeaveBalances: one allocation for each of some types.                *)
SetBalances(h, m) ==
  /\ At(h, "idle")
  /\ \E ts \in SUBSET LeaveType : \E allocation \in [ts -> Quotas] :
       /\ ts # {}
       /\ Goto(h, [Idle EXCEPT !.pc = "upsert", !.staff = m,
                               !.entries = {<<t, allocation[t]>> : t \in ts}])
  /\ UNCHANGED leaveVars

(* A type or a member of the staff that is gone ends the loop.             *)
UpsertBalance(h) ==
  /\ At(h, "upsert")
  /\ \E entry \in req[h].entries :
       LET rest == req[h].entries \ {entry} IN
       IF Stored(entry[1]) /\ req[h].staff \in people
       THEN /\ balances' = [balances EXCEPT ![req[h].staff][entry[1]] = entry[2]]
            /\ Goto(h, IF rest = {} THEN Idle ELSE [req[h] EXCEPT !.entries = rest])
       ELSE UNCHANGED balances /\ Goto(h, Idle)
  /\ UNCHANGED <<types, leaves>>

(* createLeaveRecord reads the quota of an active type, then the override  *)
(* of the member's allocation, then what is used, and inserts.             *)
LeaveQuota(h, m, t, d) ==
  /\ At(h, "idle")
  /\ types[t].status = "active"
  /\ Goto(h, [Idle EXCEPT !.pc = "leaveBalance", !.staff = m, !.type = t, !.days = d,
                          !.allocated = types[t].quota])
  /\ UNCHANGED leaveVars

LeaveBalance(h) ==
  /\ At(h, "leaveBalance")
  /\ LET override == balances[req[h].staff][req[h].type]
     IN  Goto(h, [req[h] EXCEPT !.pc = "leaveUsed",
                                !.allocated = IF override = None THEN @ ELSE override])
  /\ UNCHANGED leaveVars

(* Mutant of LeaveUsed: what is left must not be used up already.          *)
LeaveUsedUp(h) ==
  /\ At(h, "leaveUsed")
  /\ Goto(h, IF Used(req[h].staff, req[h].type) > req[h].allocated
             THEN Idle ELSE [req[h] EXCEPT !.pc = "leaveInsert"])
  /\ UNCHANGED leaveVars

LeaveUsed(h) ==
  /\ At(h, "leaveUsed")
  /\ Goto(h, IF req[h].days > req[h].allocated - Used(req[h].staff, req[h].type)
             THEN Idle ELSE [req[h] EXCEPT !.pc = "leaveInsert"])
  /\ UNCHANGED leaveVars

LeaveInsert(h) ==
  /\ At(h, "leaveInsert")
  /\ leaves' = IF Stored(req[h].type) /\ req[h].staff \in people
               THEN [leaves EXCEPT ![req[h].staff][req[h].type][req[h].days] = @ + 1]
               ELSE leaves
  /\ Goto(h, Idle)
  /\ UNCHANGED <<types, balances>>

(* deleteLeaveRecord.                                                      *)
DeleteLeave(m, t, d) ==
  /\ leaves[m][t][d] > 0
  /\ leaves' = [leaves EXCEPT ![m][t][d] = @ - 1]
  /\ UNCHANGED <<types, balances, req>>

ServeLeaves(h) ==
  \/ \E t \in LeaveType : DeleteTypeRead(h, t)
  \/ DeleteTypeCount(h) \/ DeleteTypeBalances(h) \/ DeleteTypeRow(h)
  \/ \E m \in Staff : SetBalances(h, m)
  \/ UpsertBalance(h)
  \/ \E m \in Staff, t \in LeaveType, d \in Days : LeaveQuota(h, m, t, d)
  \/ LeaveBalance(h) \/ LeaveUsed(h) \/ LeaveInsert(h)

NextLeaves ==
  \/ \E t \in LeaveType : CreateType(t) \/ UpdateQuota(t) \/ SetTypeStatus(t)
  \/ \E h \in Request : ServeLeaves(h)
  \/ \E m \in Staff, t \in LeaveType, d \in Days : DeleteLeave(m, t, d)
=============================================================================
