---------------------------- MODULE Archive_proofs ----------------------------
(* Proofs about Leaves and Archive for any staff, students, tenants, leave *)
(* types, days, quotas and number of handlers and runs in flight.          *)
EXTENDS Archive, FiniteSums, FiniteSetTheorems, TLAPS

(* What a handler of leaves past its first read names.                     *)
OnLeaves == {"leaveBalance", "leaveUsed", "leaveInsert"}
OnType == OnLeaves \cup {"deleteCount", "deleteBalances", "deleteType"}
OnStaff == OnLeaves \cup {"upsert"}
LeavePC == OnType \cup OnStaff \cup {"idle"}

Locals ==
  [pc : LeavePC, staff : Staff \cup {None}, type : LeaveType \cup {None},
   days : Days \cup {0}, allocated : Quotas \cup {0},
   entries : SUBSET (LeaveType \X Quotas)]

LocalOK(q) ==
  /\ q \in Locals
  /\ q.pc \in OnType => q.type \in LeaveType
  /\ q.pc \in OnStaff => q.staff \in Staff
  /\ q.pc \in OnLeaves => q.days \in Days

RowsOK ==
  /\ types \in [LeaveType -> [status : {"absent", "active", "archived", "deleted"},
                              quota : Quotas \cup {0}]]
  /\ balances \in [Staff -> [LeaveType -> Quotas \cup {None}]]
  /\ leaves \in [Staff -> [LeaveType -> [Days -> Nat]]]

ReqOK == req \in [Request -> Locals] /\ \A h \in Request : LocalOK(req[h])

LeavesInv == RowsOK /\ ReqOK

-----------------------------------------------------------------------------
(* Constants.                                                              *)

LEMMA MaxOfSet ==
  ASSUME NEW S, IsFiniteSet(S), S # {}, \A x \in S : x \in Nat
  PROVE  Max(S) \in S /\ \A x \in S : x <= Max(S)
<1> DEFINE Above(x) == {z \in S : z >= x}
           T == {Above(x) : x \in S}
<1>1. PICK U \in T : \A y \in T : y \subseteq U => y = U
  <2>1. T \subseteq SUBSET S
    OBVIOUS
  <2>2. T # {}
    OBVIOUS
  <2> HIDE DEF T, Above
  <2>3. QED BY <2>1, <2>2, MinimalSubset
<1>2. PICK x \in S : U = Above(x)
  OBVIOUS
<1>3. ASSUME NEW y \in S, y > x PROVE FALSE
  <2>1. Above(y) \subseteq Above(x)
    BY <1>3
  <2>2. x \notin Above(y) /\ x \in Above(x)
    BY <1>3
  <2>3. Above(y) \in T
    OBVIOUS
  <2> HIDE DEF T, Above
  <2>4. QED BY <1>1, <1>2, <2>1, <2>2, <2>3
<1>4. \A y \in S : x >= y
  BY <1>3
<1>5. Max(S) \in S /\ \A y \in S : Max(S) >= y
  BY <1>4 DEF Max
<1>6. QED BY <1>5

LEMMA Bounds ==
  /\ Max(Quotas) \in Nat /\ \A q \in Quotas \cup {0} : q \in Nat /\ q <= Max(Quotas)
  /\ Max(Days) \in Nat /\ \A d \in Days \cup {0} : d \in Nat /\ d <= Max(Days)
<1>1. (\A q \in Quotas : q \in Nat) /\ (\A d \in Days : d \in Nat)
  BY LeaveAssumption
<1>2. Max(Quotas) \in Quotas /\ \A x \in Quotas : x <= Max(Quotas)
  BY <1>1, MaxOfSet, LeaveAssumption
<1>3. Max(Days) \in Days /\ \A x \in Days : x <= Max(Days)
  BY <1>1, MaxOfSet, LeaveAssumption
<1>4. QED BY <1>1, <1>2, <1>3

-----------------------------------------------------------------------------
(* Where a handler of leaves may go.                                       *)

LEMMA Pcs ==
  /\ OnLeaves \subseteq OnType \cap OnStaff
  /\ OnType \subseteq LeavePC /\ OnStaff \subseteq LeavePC
  /\ "idle" \in LeavePC /\ "idle" \notin OnType /\ "idle" \notin OnStaff
  /\ "upsert" \notin OnType /\ "upsert" \in OnStaff
  /\ {"leaveBalance", "leaveUsed", "leaveInsert"} \subseteq OnLeaves
  /\ {"deleteCount", "deleteBalances", "deleteType"} \subseteq OnType \ OnStaff
  BY DEF OnLeaves, OnType, OnStaff, LeavePC

LEMMA Columns ==
  ASSUME NEW pc \in LeavePC, NEW m \in Staff \cup {None}, NEW t \in LeaveType \cup {None},
         NEW d \in Days \cup {0}, NEW a \in Quotas \cup {0},
         NEW es \in SUBSET (LeaveType \X Quotas),
         pc \in OnType => t \in LeaveType, pc \in OnStaff => m \in Staff,
         pc \in OnLeaves => d \in Days
  PROVE  LocalOK([pc |-> pc, staff |-> m, type |-> t, days |-> d, allocated |-> a,
                  entries |-> es])
  BY DEF LocalOK, Locals

LEMMA IdleOK == LocalOK(Idle) /\ Idle.pc = "idle"
  BY Columns, Pcs DEF Idle

(* One that goes on with what it has.                                      *)
LEMMA ResumeOK ==
  ASSUME NEW q, LocalOK(q), NEW pc \in LeavePC,
         pc \in OnType => q.pc \in OnType, pc \in OnStaff => q.pc \in OnStaff,
         pc \in OnLeaves => q.pc \in OnLeaves
  PROVE  LocalOK([q EXCEPT !.pc = pc])
  BY DEF LocalOK, Locals

LEMMA LocalStep ==
  ASSUME ReqOK, NEW h \in Request, NEW q, LocalOK(q), Goto(h, q)
  PROVE  ReqOK' /\ req'[h] = q /\ \A g \in Request \ {h} : req'[g] = req[g]
  BY DEF ReqOK, Goto, LocalOK

-----------------------------------------------------------------------------
(* Every step of Leaves keeps the types.                                   *)

LEMMA LeavesType ==
  ASSUME RowsOK, NEW m \in Staff, NEW t \in LeaveType, NEW d \in Days, NEW n \in Nat
  PROVE  /\ leaves[m][t][d] \in Nat
         /\ [leaves EXCEPT ![m][t][d] = n] \in [Staff -> [LeaveType -> [Days -> Nat]]]
  BY DEF RowsOK

LEMMA BalancesType ==
  ASSUME RowsOK, NEW m \in Staff, NEW t \in LeaveType, NEW v \in Quotas \cup {None}
  PROVE  [balances EXCEPT ![m][t] = v] \in [Staff -> [LeaveType -> Quotas \cup {None}]]
<1> DEFINE V == Quotas \cup {None}
<1>1. balances \in [Staff -> [LeaveType -> V]] /\ v \in V
  BY DEF RowsOK
<1> HIDE DEF V
<1>2. [balances EXCEPT ![m][t] = v] \in [Staff -> [LeaveType -> V]]
  BY <1>1
<1>3. QED BY <1>2 DEF V

LEMMA TypeRequestsKeepTypes ==
  ASSUME LeavesInv, NEW t \in LeaveType, CreateType(t) \/ UpdateQuota(t) \/ SetTypeStatus(t)
  PROVE  LeavesInv'
<1>1. req' = req /\ balances' = balances /\ leaves' = leaves
  BY DEF CreateType, UpdateQuota, SetTypeStatus
<1>2. ReqOK'
  BY <1>1 DEF LeavesInv, ReqOK
<1>3. CASE CreateType(t)
  BY <1>1, <1>2, <1>3 DEF LeavesInv, RowsOK, CreateType
<1>4. CASE UpdateQuota(t)
  BY <1>1, <1>2, <1>4 DEF LeavesInv, RowsOK, UpdateQuota
<1>5. CASE SetTypeStatus(t)
  BY <1>1, <1>2, <1>5 DEF LeavesInv, RowsOK, SetTypeStatus
<1>6. QED BY <1>3, <1>4, <1>5

LEMMA DeleteLeaveKeepsTypes ==
  ASSUME LeavesInv, NEW m \in Staff, NEW t \in LeaveType, NEW d \in Days, DeleteLeave(m, t, d)
  PROVE  LeavesInv'
<1>1. UNCHANGED <<types, balances, req>>
  BY DEF DeleteLeave
<1>2. leaves[m][t][d] - 1 \in Nat
  BY LeavesType DEF LeavesInv, DeleteLeave
<1>3. leaves' \in [Staff -> [LeaveType -> [Days -> Nat]]]
  BY <1>2, LeavesType DEF LeavesInv, DeleteLeave
<1>4. QED BY <1>1, <1>3 DEF LeavesInv, RowsOK, ReqOK

LEMMA StartsKeepTypes ==
  ASSUME LeavesInv, NEW h \in Request,
         \/ \E t \in LeaveType : DeleteTypeRead(h, t)
         \/ \E m \in Staff : SetBalances(h, m)
         \/ \E m \in Staff, t \in LeaveType, d \in Days : LeaveQuota(h, m, t, d)
  PROVE  LeavesInv'
<1>1. UNCHANGED leaveVars
  BY DEF DeleteTypeRead, SetBalances, LeaveQuota
<1>2. RowsOK'
  BY <1>1 DEF LeavesInv, RowsOK, leaveVars
<1>3. ASSUME NEW t \in LeaveType, DeleteTypeRead(h, t)
      PROVE  \E q : LocalOK(q) /\ Goto(h, q)
  <2>1. LocalOK([Idle EXCEPT !.pc = "deleteCount", !.type = t])
    BY IdleOK, Pcs DEF LocalOK, Locals
  <2>2. QED BY <1>3, <2>1 DEF DeleteTypeRead
<1>4. ASSUME NEW m \in Staff, SetBalances(h, m)
      PROVE  \E q : LocalOK(q) /\ Goto(h, q)
  <2>0. PICK ts \in SUBSET LeaveType : \E allocation \in [ts -> Quotas] :
          Goto(h, [Idle EXCEPT !.pc = "upsert", !.staff = m,
                               !.entries = {<<t, allocation[t]>> : t \in ts}])
    BY <1>4 DEF SetBalances
  <2>1. PICK allocation \in [ts -> Quotas] :
          Goto(h, [Idle EXCEPT !.pc = "upsert", !.staff = m,
                               !.entries = {<<t, allocation[t]>> : t \in ts}])
    BY <2>0
  <2> DEFINE es == {<<t, allocation[t]>> : t \in ts}
  <2>2. es \in SUBSET (LeaveType \X Quotas)
    OBVIOUS
  <2> HIDE DEF es
  <2>3. LocalOK([Idle EXCEPT !.pc = "upsert", !.staff = m, !.entries = es])
    BY <2>2, IdleOK, Pcs DEF LocalOK, Locals
  <2>4. QED BY <2>1, <2>3 DEF es
<1>5. ASSUME NEW m \in Staff, NEW t \in LeaveType, NEW d \in Days, LeaveQuota(h, m, t, d)
      PROVE  \E q : LocalOK(q) /\ Goto(h, q)
  <2>1. types[t].quota \in Quotas \cup {0}
    BY DEF LeavesInv, RowsOK
  <2>2. LocalOK([Idle EXCEPT !.pc = "leaveBalance", !.staff = m, !.type = t, !.days = d,
                             !.allocated = types[t].quota])
    BY <2>1, IdleOK, Pcs DEF LocalOK, Locals
  <2>3. QED BY <1>5, <2>2 DEF LeaveQuota
<1>6. \E q : LocalOK(q) /\ Goto(h, q)
  BY <1>3, <1>4, <1>5
<1>7. QED BY <1>2, <1>6, LocalStep DEF LeavesInv

LEMMA NonePlain == None \notin Staff /\ None \notin LeaveType /\ None \notin Nat
  BY LeaveAssumption

LEMMA StepsKeepTypes ==
  ASSUME LeavesInv, NEW h \in Request,
         \/ DeleteTypeCount(h) \/ DeleteTypeBalances(h) \/ DeleteTypeRow(h)
         \/ UpsertBalance(h)
         \/ LeaveBalance(h) \/ LeaveUsed(h) \/ LeaveInsert(h)
  PROVE  LeavesInv'
<1> DEFINE q == req[h]
<1>1. LocalOK(q) /\ ReqOK /\ RowsOK
  BY DEF LeavesInv, ReqOK
<1> HIDE DEF q
<1>2. ASSUME DeleteTypeCount(h)
      PROVE  RowsOK' /\ \E r : LocalOK(r) /\ Goto(h, r)
  <2>1. RowsOK'
    BY <1>1, <1>2 DEF RowsOK, DeleteTypeCount, leaveVars
  <2>2. q.pc = "deleteCount"
    BY <1>2 DEF DeleteTypeCount, At, q
  <2>3. LocalOK([q EXCEPT !.pc = "deleteBalances"])
    BY <1>1, <2>2, ResumeOK, Pcs
  <2>4. Goto(h, Idle) \/ Goto(h, [q EXCEPT !.pc = "deleteBalances"])
    BY <1>2 DEF DeleteTypeCount, q
  <2>5. QED BY <2>1, <2>3, <2>4, IdleOK
<1>3. ASSUME DeleteTypeBalances(h)
      PROVE  RowsOK' /\ \E r : LocalOK(r) /\ Goto(h, r)
  <2>1. balances' = [m \in Staff |-> [balances[m] EXCEPT ![q.type] = None]]
    BY <1>3 DEF DeleteTypeBalances, q
  <2>2. RowsOK'
    <3> DEFINE V == Quotas \cup {None}
    <3>1. balances \in [Staff -> [LeaveType -> V]] /\ None \in V
      BY <1>1 DEF RowsOK
    <3> HIDE DEF V
    <3>2. \A m \in Staff : [balances[m] EXCEPT ![q.type] = None] \in [LeaveType -> V]
      BY <3>1
    <3>3. balances' \in [Staff -> [LeaveType -> V]]
      BY <2>1, <3>2
    <3>4. QED BY <1>1, <1>3, <3>3 DEF RowsOK, DeleteTypeBalances, V
  <2>3. q.pc = "deleteBalances"
    BY <1>3 DEF DeleteTypeBalances, At, q
  <2>4. LocalOK([q EXCEPT !.pc = "deleteType"])
    BY <1>1, <2>3, ResumeOK, Pcs
  <2>5. Goto(h, [q EXCEPT !.pc = "deleteType"])
    BY <1>3 DEF DeleteTypeBalances, q
  <2>6. QED BY <2>2, <2>4, <2>5
<1>4. ASSUME DeleteTypeRow(h)
      PROVE  RowsOK' /\ \E r : LocalOK(r) /\ Goto(h, r)
  <2>1. types' = types \/ types' = [types EXCEPT ![q.type].status = "deleted"]
    BY <1>4 DEF DeleteTypeRow, q
  <2>2. RowsOK'
    BY <1>1, <1>4, <2>1 DEF RowsOK, DeleteTypeRow
  <2>3. QED BY <2>2, <1>4, IdleOK DEF DeleteTypeRow
<1>5. ASSUME UpsertBalance(h)
      PROVE  RowsOK' /\ \E r : LocalOK(r) /\ Goto(h, r)
  <2>1. q.pc = "upsert"
    BY <1>5 DEF UpsertBalance, At, q
  <2>2. PICK entry \in q.entries :
          LET rest == q.entries \ {entry} IN
          IF Stored(entry[1]) /\ q.staff \in people
          THEN /\ balances' = [balances EXCEPT ![q.staff][entry[1]] = entry[2]]
               /\ Goto(h, IF rest = {} THEN Idle ELSE [q EXCEPT !.entries = rest])
          ELSE UNCHANGED balances /\ Goto(h, Idle)
    BY <1>5 DEF UpsertBalance, q
  <2> DEFINE rest == q.entries \ {entry}
  <2>3. entry[1] \in LeaveType /\ entry[2] \in Quotas
    BY <1>1 DEF LocalOK, Locals
  <2>4. q.staff \in Staff
    BY <1>1, <2>1, Pcs DEF LocalOK
  <2>5. LocalOK([q EXCEPT !.entries = rest])
    BY <1>1, <2>1, Pcs DEF LocalOK, Locals
  <2>6. \/ balances' = [balances EXCEPT ![q.staff][entry[1]] = entry[2]]
        \/ UNCHANGED balances
    BY <2>2
  <2>7. balances' \in [Staff -> [LeaveType -> Quotas \cup {None}]]
    <3> DEFINE t == entry[1]
               v == entry[2]
    <3>1. t \in LeaveType /\ v \in Quotas \cup {None}
      BY <2>3
    <3> HIDE DEF t, v
    <3>2. [balances EXCEPT ![q.staff][t] = v] \in [Staff -> [LeaveType -> Quotas \cup {None}]]
      BY <1>1, <2>4, <3>1, BalancesType
    <3>3. CASE UNCHANGED balances
      BY <1>1, <3>3 DEF RowsOK
    <3>4. CASE balances' = [balances EXCEPT ![q.staff][entry[1]] = entry[2]]
      BY <3>2, <3>4 DEF t, v
    <3>5. QED BY <2>6, <3>3, <3>4
  <2>8. RowsOK'
    BY <1>1, <1>5, <2>7 DEF RowsOK, UpsertBalance
  <2>9. Goto(h, Idle) \/ Goto(h, [q EXCEPT !.entries = rest])
    BY <2>2
  <2>10. QED BY <2>5, <2>8, <2>9, IdleOK
<1>6. ASSUME LeaveBalance(h)
      PROVE  RowsOK' /\ \E r : LocalOK(r) /\ Goto(h, r)
  <2>1. RowsOK'
    BY <1>1, <1>6 DEF RowsOK, LeaveBalance, leaveVars
  <2> DEFINE override == balances[q.staff][q.type]
             a == IF override = None THEN q.allocated ELSE override
  <2>2. q.pc = "leaveBalance"
    BY <1>6 DEF LeaveBalance, At, q
  <2>3. q.staff \in Staff /\ q.type \in LeaveType /\ q.days \in Days /\ q \in Locals
    BY <1>1, <2>2, Pcs DEF LocalOK
  <2>4. a \in Quotas \cup {0}
    BY <1>1, <2>3 DEF RowsOK, Locals
  <2>5. Goto(h, [q EXCEPT !.pc = "leaveUsed", !.allocated = a])
    <3>1. Goto(h, [q EXCEPT !.pc = "leaveUsed",
                            !.allocated = IF override = None THEN @ ELSE override])
      BY <1>6 DEF LeaveBalance, q
    <3>2. [q EXCEPT !.pc = "leaveUsed", !.allocated = IF override = None THEN @ ELSE override]
            = [q EXCEPT !.pc = "leaveUsed", !.allocated = a]
      BY <2>3 DEF Locals
    <3>3. QED BY <3>1, <3>2
  <2> HIDE DEF a
  <2>6. LocalOK([q EXCEPT !.pc = "leaveUsed", !.allocated = a])
    BY <2>3, <2>4, Pcs DEF LocalOK, Locals
  <2>7. QED BY <2>1, <2>5, <2>6
<1>7. ASSUME LeaveUsed(h)
      PROVE  RowsOK' /\ \E r : LocalOK(r) /\ Goto(h, r)
  <2>1. RowsOK'
    BY <1>1, <1>7 DEF RowsOK, LeaveUsed, leaveVars
  <2>2. q.pc = "leaveUsed"
    BY <1>7 DEF LeaveUsed, At, q
  <2>3. LocalOK([q EXCEPT !.pc = "leaveInsert"])
    BY <1>1, <2>2, ResumeOK, Pcs
  <2>4. Goto(h, Idle) \/ Goto(h, [q EXCEPT !.pc = "leaveInsert"])
    BY <1>7 DEF LeaveUsed, q
  <2>5. QED BY <2>1, <2>3, <2>4, IdleOK
<1>8. ASSUME LeaveInsert(h)
      PROVE  RowsOK' /\ \E r : LocalOK(r) /\ Goto(h, r)
  <2>1. q.pc = "leaveInsert"
    BY <1>8 DEF LeaveInsert, At, q
  <2>2. q.staff \in Staff /\ q.type \in LeaveType /\ q.days \in Days
    BY <1>1, <2>1, Pcs DEF LocalOK
  <2> DEFINE n == leaves[q.staff][q.type][q.days]
  <2>3. n + 1 \in Nat
    BY <1>1, <2>2, LeavesType
  <2>4. leaves' = leaves \/ leaves' = [leaves EXCEPT ![q.staff][q.type][q.days] = n + 1]
    BY <1>8 DEF LeaveInsert, q
  <2>5. leaves' \in [Staff -> [LeaveType -> [Days -> Nat]]]
    <3> HIDE DEF n
    <3>1. [leaves EXCEPT ![q.staff][q.type][q.days] = n + 1]
            \in [Staff -> [LeaveType -> [Days -> Nat]]]
      BY <1>1, <2>2, <2>3, LeavesType
    <3>2. QED BY <1>1, <2>4, <3>1 DEF RowsOK
  <2>6. RowsOK'
    BY <1>1, <1>8, <2>5 DEF RowsOK, LeaveInsert
  <2>7. QED BY <2>6, <1>8, IdleOK DEF LeaveInsert
<1>9. RowsOK' /\ \E r : LocalOK(r) /\ Goto(h, r)
  BY <1>2, <1>3, <1>4, <1>5, <1>6, <1>7, <1>8
<1>10. QED BY <1>1, <1>9, LocalStep DEF LeavesInv

LEMMA LeavesKeepTypes ==
  ASSUME LeavesInv, NextLeaves
  PROVE  LeavesInv'
<1>1. CASE \E t \in LeaveType : CreateType(t) \/ UpdateQuota(t) \/ SetTypeStatus(t)
  BY <1>1, TypeRequestsKeepTypes
<1>2. CASE \E m \in Staff, t \in LeaveType, d \in Days : DeleteLeave(m, t, d)
  BY <1>2, DeleteLeaveKeepsTypes
<1>3. ASSUME NEW h \in Request, ServeLeaves(h) PROVE LeavesInv'
  BY <1>3, StartsKeepTypes, StepsKeepTypes DEF ServeLeaves
<1>4. QED BY <1>1, <1>2, <1>3 DEF NextLeaves

LEMMA LeavesInvFrame ==
  ASSUME LeavesInv, UNCHANGED <<leaveVars, req>>
  PROVE  LeavesInv'
  BY DEF LeavesInv, RowsOK, ReqOK, leaveVars

LEMMA FailKeepsTypes ==
  ASSUME LeavesInv, NEW h \in Request, LeavesFail(h)
  PROVE  LeavesInv'
<1>1. ReqOK'
  BY IdleOK, LocalStep DEF LeavesFail, LeavesInv
<1>2. RowsOK'
  BY DEF LeavesFail, LeavesInv, RowsOK, leaveVars
<1>3. QED BY <1>1, <1>2 DEF LeavesInv

-----------------------------------------------------------------------------
(* Rows of leaves and allocations come only for a member that is there and *)
(* a type that is stored.                                                  *)

LEMMA RowsNeedBoth ==
  ASSUME LeavesInv, NextLeaves, NEW m \in Staff, NEW t \in LeaveType,
         ~ (m \in people /\ Stored(t))
  PROVE  /\ balances[m][t] = None => balances'[m][t] = None
         /\ \A d \in Days : leaves[m][t][d] = 0 => leaves'[m][t][d] = 0
<1> DEFINE Goal == /\ balances[m][t] = None => balances'[m][t] = None
                   /\ \A d \in Days : leaves[m][t][d] = 0 => leaves'[m][t][d] = 0
<1>1. CASE UNCHANGED <<balances, leaves>>
  BY <1>1
<1>2. CASE \E u \in LeaveType : CreateType(u) \/ UpdateQuota(u) \/ SetTypeStatus(u)
  BY <1>1, <1>2 DEF CreateType, UpdateQuota, SetTypeStatus
<1>3. ASSUME NEW n \in Staff, NEW u \in LeaveType, NEW e \in Days, DeleteLeave(n, u, e)
      PROVE  Goal
  <2> DEFINE k == leaves[n][u][e]
  <2>1. leaves' = [leaves EXCEPT ![n][u][e] = k - 1] /\ k > 0 /\ UNCHANGED balances
    BY <1>3, LeavesType DEF DeleteLeave, LeavesInv
  <2>2. ASSUME NEW d \in Days, leaves[m][t][d] = 0 PROVE leaves'[m][t][d] = 0
    <3>1. ~ (m = n /\ t = u /\ d = e)
      BY <2>1, <2>2
    <3> HIDE DEF k
    <3>2. leaves'[m][t][d] = leaves[m][t][d]
      BY <2>1, <3>1 DEF LeavesInv, RowsOK
    <3>3. QED BY <2>2, <3>2
  <2>3. QED BY <2>1, <2>2
<1>4. ASSUME NEW h \in Request, ServeLeaves(h) PROVE Goal
  <2> DEFINE q == req[h]
  <2>1. LocalOK(q)
    BY DEF LeavesInv, ReqOK
  <2> HIDE DEF q
  <2>2. CASE \/ \E u \in LeaveType : DeleteTypeRead(h, u)
             \/ \E n \in Staff : SetBalances(h, n)
             \/ \E n \in Staff, u \in LeaveType, d \in Days : LeaveQuota(h, n, u, d)
    BY <1>1, <2>2 DEF DeleteTypeRead, SetBalances, LeaveQuota, leaveVars
  <2>3. CASE DeleteTypeCount(h) \/ DeleteTypeRow(h) \/ LeaveBalance(h) \/ LeaveUsed(h)
    BY <1>1, <2>3 DEF DeleteTypeCount, DeleteTypeRow, LeaveBalance, LeaveUsed, leaveVars
  <2>4. CASE DeleteTypeBalances(h)
    <3>1. balances' = [n \in Staff |-> [balances[n] EXCEPT ![q.type] = None]]
      BY <2>4 DEF DeleteTypeBalances, q
    <3>2. balances'[m][t] = None \/ balances'[m][t] = balances[m][t]
      BY <3>1 DEF LeavesInv, RowsOK
    <3>3. UNCHANGED leaves
      BY <2>4 DEF DeleteTypeBalances
    <3>4. QED BY <3>2, <3>3
  <2>5. CASE UpsertBalance(h)
    <3>1. PICK entry \in q.entries :
            \/ UNCHANGED balances
            \/ /\ Stored(entry[1]) /\ q.staff \in people
               /\ balances' = [balances EXCEPT ![q.staff][entry[1]] = entry[2]]
      BY <2>5 DEF UpsertBalance, q
    <3> DEFINE u == entry[1]
               v == entry[2]
               n == q.staff
    <3> HIDE DEF u, v, n
    <3>2. UNCHANGED leaves
      BY <2>5 DEF UpsertBalance
    <3>3. CASE UNCHANGED balances
      BY <1>1, <3>2, <3>3
    <3>4. CASE /\ Stored(u) /\ n \in people
               /\ balances' = [balances EXCEPT ![n][u] = v]
      <4>1. ~ (m = n /\ t = u)
        BY <3>4
      <4>2. balances'[m][t] = balances[m][t]
        BY <3>4, <4>1 DEF LeavesInv, RowsOK
      <4>3. QED BY <3>2, <4>2
    <3>5. QED BY <3>1, <3>3, <3>4 DEF u, v, n
  <2>6. CASE LeaveInsert(h)
    <3> DEFINE u == q.type
               n == q.staff
               e == q.days
               k == leaves[n][u][e] + 1
    <3>1. \/ UNCHANGED leaves
          \/ Stored(u) /\ n \in people /\ leaves' = [leaves EXCEPT ![n][u][e] = k]
      BY <2>6 DEF LeaveInsert, q
    <3> HIDE DEF u, n, e, k
    <3>2. UNCHANGED balances
      BY <2>6 DEF LeaveInsert
    <3>3. CASE UNCHANGED leaves
      BY <1>1, <3>2, <3>3
    <3>4. CASE Stored(u) /\ n \in people /\ leaves' = [leaves EXCEPT ![n][u][e] = k]
      <4>1. ~ (m = n /\ t = u)
        BY <3>4
      <4>2. leaves'[m][t] = leaves[m][t]
        BY <3>4, <4>1 DEF LeavesInv, RowsOK
      <4>3. QED BY <3>2, <4>2
    <3>5. QED BY <3>1, <3>3, <3>4
  <2>7. QED BY <1>4, <2>2, <2>3, <2>4, <2>5, <2>6 DEF ServeLeaves
<1>5. QED BY <1>2, <1>3, <1>4 DEF NextLeaves

LEMMA LeaveCounts ==
  ASSUME LeavesInv, NEW m \in Staff, NEW t \in LeaveType
  PROVE  ~ OnLeave(m, t) <=> \A d \in Days : leaves[m][t][d] = 0
<1>1. \A d \in Days : leaves[m][t][d] \in Nat
  BY LeavesType DEF LeavesInv
<1>2. QED BY <1>1 DEF OnLeave

LEMMA GoneHasNoRows ==
  ASSUME LeavesInv, NextLeaves, NEW m \in Staff, m \notin people, ~ HasLeaveRows(m)
  PROVE  ~ HasLeaveRows(m)'
<1>1. ASSUME NEW t \in LeaveType
      PROVE  balances'[m][t] = None /\ \A d \in Days : leaves'[m][t][d] = 0
  <2>1. balances[m][t] = None /\ ~ OnLeave(m, t)
    BY DEF HasLeaveRows
  <2>2. QED BY <2>1, RowsNeedBoth, LeaveCounts
<1>2. QED BY <1>1 DEF HasLeaveRows, OnLeave

LEMMA DeletedHasNoRows ==
  ASSUME LeavesInv, NextLeaves, NEW t \in LeaveType, ~ Stored(t), ~ TypeInUse(t)
  PROVE  ~ TypeInUse(t)'
<1>1. ASSUME NEW m \in Staff
      PROVE  balances'[m][t] = None /\ \A d \in Days : leaves'[m][t][d] = 0
  <2>1. balances[m][t] = None /\ ~ OnLeave(m, t)
    BY DEF TypeInUse
  <2>2. QED BY <2>1, RowsNeedBoth, LeaveCounts
<1>2. QED BY <1>1 DEF TypeInUse, OnLeave

LEMMA DeletedStays ==
  ASSUME LeavesInv, NextLeaves, NEW t \in LeaveType, types'[t].status = "deleted"
  PROVE  \/ types[t].status = "deleted"
         \/ ~ TypeInUse(t) /\ UNCHANGED <<balances, leaves>>
<1>1. CASE UNCHANGED types
  BY <1>1
<1>2. CASE \E u \in LeaveType : CreateType(u) \/ UpdateQuota(u) \/ SetTypeStatus(u)
  <2>1. PICK u \in LeaveType : CreateType(u) \/ UpdateQuota(u) \/ SetTypeStatus(u)
    BY <1>2
  <2>2. CASE CreateType(u)
    BY <2>2 DEF CreateType, LeavesInv, RowsOK
  <2>3. CASE UpdateQuota(u)
    BY <2>3 DEF UpdateQuota, LeavesInv, RowsOK
  <2>4. CASE SetTypeStatus(u)
    BY <2>4 DEF SetTypeStatus, LeavesInv, RowsOK
  <2>5. QED BY <2>1, <2>2, <2>3, <2>4
<1>3. CASE \E m \in Staff, u \in LeaveType, d \in Days : DeleteLeave(m, u, d)
  BY <1>1, <1>3 DEF DeleteLeave
<1>4. ASSUME NEW h \in Request, ServeLeaves(h)
      PROVE  \/ UNCHANGED types
             \/ DeleteTypeRow(h)
  BY <1>4 DEF ServeLeaves, DeleteTypeRead, SetBalances, LeaveQuota, DeleteTypeCount,
     DeleteTypeBalances, UpsertBalance, LeaveBalance, LeaveUsed, LeaveInsert, leaveVars
<1>5. ASSUME NEW h \in Request, DeleteTypeRow(h)
      PROVE  \/ types[t].status = "deleted"
             \/ ~ TypeInUse(t) /\ UNCHANGED <<balances, leaves>>
  <2> DEFINE u == req[h].type
  <2>1. /\ UNCHANGED <<balances, leaves>>
        /\ \/ UNCHANGED types
           \/ ~ TypeInUse(u) /\ types' = [types EXCEPT ![u].status = "deleted"]
    BY <1>5 DEF DeleteTypeRow
  <2> HIDE DEF u
  <2>2. CASE t = u
    BY <2>1, <2>2
  <2>3. CASE t # u
    BY <2>1, <2>3 DEF LeavesInv, RowsOK
  <2>4. QED BY <2>2, <2>3
<1>6. QED BY <1>1, <1>2, <1>3, <1>4, <1>5 DEF NextLeaves

-----------------------------------------------------------------------------
(* What the archive and the purge leave alone.                             *)

LEMMA ArchiveLeavesLeaves ==
  ASSUME Next
  PROVE  \/ NextLeaves /\ UNCHANGED <<files, desk, job, edits>>
         \/ UNCHANGED <<leaveVars, req>>
         \/ \E h \in Request : LeavesFail(h)
<1>1. ASSUME NEW p \in Person, NEW kind, Age(p) \/ AddRecord(p, kind) \/ DropRecord(p, kind)
      PROVE  UNCHANGED <<leaveVars, req>>
  BY <1>1 DEF Age, AddRecord, DropRecord
<1>2. ASSUME NEW h \in Desk, ServeDesk(h) PROVE UNCHANGED <<leaveVars, req>>
  BY <1>2 DEF ServeDesk, ArchiveRead, RestoreRead, DeleteRead, ArchiveWrite, RestoreWrite,
     DeleteCount, DeleteCommit
<1>3. ASSUME NEW j \in Job, RunStart(j) \/ Run(j) \/ RunFail(j)
      PROVE  UNCHANGED <<leaveVars, req>>
  BY <1>3 DEF RunStart, Run, RunTenant, RunStaff, RunNext, RunCount, RunDelete, RunFail
<1>4. QED BY <1>1, <1>2, <1>3 DEF Next

LEMMA LeavesInvInductive ==
  ASSUME LeavesInv, [Next]_vars
  PROVE  LeavesInv'
<1>1. CASE UNCHANGED vars
  BY <1>1, LeavesInvFrame DEF vars
<1>2. CASE Next
  BY <1>2, ArchiveLeavesLeaves, LeavesKeepTypes, LeavesInvFrame, FailKeepsTypes
<1>3. QED BY <1>1, <1>2

LEMMA LeavesInvInitially ==
  ASSUME Init
  PROVE  LeavesInv
<1>1. ReqOK
  BY IdleOK DEF Init, InitLeaves, ReqOK, LocalOK
<1>2. RowsOK
  BY DEF Init, InitLeaves, RowsOK
<1>3. QED BY <1>1, <1>2 DEF LeavesInv

-----------------------------------------------------------------------------
(* deleteLeaveType counts the leaves of a type and deletes its allocations *)
(* in statements of their own: no type is deleted while leaves of it, or   *)
(* allocations, are stored, whatever is inserted in between.               *)
THEOREM UsedTypesKept == Spec => []UsedTypeIsKept
<1>1. Init => LeavesInv /\ UsedTypeIsKept
  <2>1. ASSUME Init PROVE UsedTypeIsKept
    BY <2>1 DEF Init, InitLeaves, UsedTypeIsKept
  <2>2. QED BY <2>1, LeavesInvInitially
<1>2. ASSUME LeavesInv, UsedTypeIsKept, [Next]_vars
      PROVE  UsedTypeIsKept'
  <2>1. CASE UNCHANGED leaveVars
    BY <1>2, <2>1 DEF UsedTypeIsKept, TypeInUse, OnLeave, leaveVars
  <2>2. ASSUME NextLeaves, NEW t \in LeaveType, types'[t].status = "deleted"
        PROVE  ~ TypeInUse(t)'
    <3>1. CASE types[t].status = "deleted"
      <4>1. ~ Stored(t) /\ ~ TypeInUse(t)
        BY <1>2, <3>1 DEF Stored, UsedTypeIsKept
      <4>2. QED BY <1>2, <2>2, <4>1, DeletedHasNoRows
    <3>2. CASE ~ TypeInUse(t) /\ UNCHANGED <<balances, leaves>>
      BY <3>2 DEF TypeInUse, OnLeave
    <3>3. QED BY <1>2, <2>2, <3>1, <3>2, DeletedStays
  <2>3. CASE NextLeaves
    BY <2>2, <2>3 DEF UsedTypeIsKept
  <2>4. CASE UNCHANGED vars
    BY <2>1, <2>4 DEF vars
  <2>5. QED BY <1>2, <2>1, <2>3, <2>4, ArchiveLeavesLeaves DEF LeavesFail
<1>3. LeavesInv /\ UsedTypeIsKept /\ [Next]_vars => (LeavesInv /\ UsedTypeIsKept)'
  BY <1>2, LeavesInvInductive
<1>4. QED BY <1>1, <1>3, PTL DEF Spec

-----------------------------------------------------------------------------
(* The overdraft.  Days that are used, and the days of the leaves that are *)
(* about to be inserted, are together at most an allocation and the days   *)
(* of the handlers but one: the last one to compare what is left did so    *)
(* with all that was inserted by then.                                     *)

Reserving(h, m, t) == req[h].pc = "leaveInsert" /\ req[h].staff = m /\ req[h].type = t
DaysReserved(m, t) ==
  [h \in Request |-> IF Reserving(h, m, t) THEN req[h].days ELSE 0]
Reserved(m, t) == SumFunctionOnSet(DaysReserved(m, t), Request)

DaysUsed(m, t) == [d \in Days |-> d * leaves[m][t][d]]

Limit == Max(Quotas) + (Cardinality(Request) - 1) * Max(Days)

OverdraftInv ==
  \A m \in Staff, t \in LeaveType : Used(m, t) + Reserved(m, t) <= Limit

LEMMA LimitType ==
  /\ Limit \in Nat /\ (Cardinality(Request) - 1) * Max(Days) \in Nat
  /\ Cardinality(Request) - 1 \in Nat
<1> DEFINE c == Cardinality(Request)
<1>1. c \in Nat /\ c # 0
  BY LeaveAssumption, FS_CardinalityType, FS_EmptySet
<1> HIDE DEF c
<1>2. c - 1 \in Nat
  BY <1>1
<1>3. \A a, b \in Nat : a * b \in Nat
  OBVIOUS
<1>4. (c - 1) * Max(Days) \in Nat
  BY <1>2, <1>3, Bounds
<1>5. QED BY <1>2, <1>4, Bounds DEF Limit, c

LEMMA UsedType ==
  ASSUME RowsOK, NEW m \in Staff, NEW t \in LeaveType
  PROVE  /\ \A d \in Days : DaysUsed(m, t)[d] \in Nat
         /\ Used(m, t) = SumFunctionOnSet(DaysUsed(m, t), Days) /\ Used(m, t) \in Nat
<1>1. ASSUME NEW d \in Days PROVE DaysUsed(m, t)[d] \in Nat
  <2>1. d \in Nat /\ leaves[m][t][d] \in Nat
    BY Bounds, LeavesType
  <2>2. \A a, b \in Nat : a * b \in Nat
    OBVIOUS
  <2>3. QED BY <2>1, <2>2 DEF DaysUsed
<1>2. Used(m, t) = SumFunctionOnSet(DaysUsed(m, t), Days)
  BY DEF Used, DaysUsed
<1>3. QED BY <1>1, <1>2, SumNonNegative, LeaveAssumption

LEMMA ReservedType ==
  ASSUME ReqOK, NEW m, NEW t
  PROVE  /\ \A h \in Request : /\ DaysReserved(m, t)[h] \in Nat
                               /\ DaysReserved(m, t)[h] <= Max(Days)
         /\ Reserved(m, t) \in Nat
         /\ \A h \in Request :
              LET rest == SumFunctionOnSet(DaysReserved(m, t), Request \ {h}) IN
              /\ Reserved(m, t) = DaysReserved(m, t)[h] + rest
              /\ rest \in Nat /\ rest <= (Cardinality(Request) - 1) * Max(Days)
<1> DEFINE f == DaysReserved(m, t)
<1>1. ASSUME NEW h \in Request PROVE f[h] \in Nat /\ f[h] <= Max(Days)
  <2>1. req[h].days \in Days \cup {0}
    BY DEF ReqOK, Locals
  <2>2. f[h] \in Days \cup {0}
    BY <2>1 DEF DaysReserved
  <2>3. QED BY <2>2, Bounds
<1> HIDE DEF f
<1>2. IsFiniteSet(Request)
  BY LeaveAssumption
<1>3. SumFunctionOnSet(f, Request) \in Nat
  BY <1>1, <1>2, SumNonNegative
<1>4. ASSUME NEW h \in Request
      PROVE  LET rest == SumFunctionOnSet(f, Request \ {h}) IN
             /\ SumFunctionOnSet(f, Request) = f[h] + rest
             /\ rest \in Nat /\ rest <= (Cardinality(Request) - 1) * Max(Days)
  <2> DEFINE R == Request \ {h}
  <2>1. SumFunctionOnSet(f, Request) = f[h] + SumFunctionOnSet(f, R)
    BY <1>1, <1>2, SumRemove
  <2>2. IsFiniteSet(R) /\ Cardinality(R) = Cardinality(Request) - 1
    BY <1>2, FS_RemoveElement
  <2>3. \A x \in R : f[x] \in Nat /\ f[x] <= Max(Days)
    BY <1>1
  <2> HIDE DEF R
  <2>4. SumFunctionOnSet(f, R) \in Nat
    BY <2>2, <2>3, SumNonNegative
  <2>5. SumFunctionOnSet(f, R) <= Cardinality(R) * Max(Days)
    BY <2>2, <2>3, Bounds, SumAtMost
  <2>6. QED BY <2>1, <2>2, <2>4, <2>5 DEF R
<1>5. QED BY <1>1, <1>3, <1>4 DEF Reserved, f

(* A step of one handler leaves the reservations of the others.            *)
LEMMA ReservedStep ==
  ASSUME ReqOK, NEW h \in Request, NEW q, LocalOK(q), Goto(h, q), NEW m, NEW t
  PROVE  LET rest == SumFunctionOnSet(DaysReserved(m, t), Request \ {h})
             own == IF q.pc = "leaveInsert" /\ q.staff = m /\ q.type = t THEN q.days ELSE 0
         IN  Reserved(m, t)' = own + rest
<1> DEFINE f == DaysReserved(m, t)
           g == DaysReserved(m, t)'
           R == Request \ {h}
           own == IF q.pc = "leaveInsert" /\ q.staff = m /\ q.type = t THEN q.days ELSE 0
<1>1. ReqOK' /\ req'[h] = q /\ \A i \in R : req'[i] = req[i]
  BY LocalStep
<1>2. g[h] = own
  BY <1>1 DEF DaysReserved, Reserving
<1>3. \A i \in R : f[i] = g[i]
  BY <1>1 DEF DaysReserved, Reserving
<1>4. \A i \in Request : g[i] \in Int
  <2>1. \A i \in Request : req'[i].days \in Days \cup {0}
    BY <1>1 DEF ReqOK, Locals
  <2>2. \A i \in Request : g[i] \in Days \cup {0}
    BY <2>1 DEF DaysReserved
  <2>3. QED BY <2>2, Bounds
<1>5. IsFiniteSet(Request) /\ IsFiniteSet(R)
  BY LeaveAssumption, FS_RemoveElement
<1>6. Reserved(m, t)' = SumFunctionOnSet(g, Request)
  BY DEF Reserved
<1> HIDE DEF f, g, own
<1>7. SumFunctionOnSet(g, Request) = g[h] + SumFunctionOnSet(g, Request \ {h})
  BY <1>4, <1>5, SumRemove
<1> HIDE DEF R
<1>8. SumFunctionOnSet(f, R) = SumFunctionOnSet(g, R)
  BY <1>3, <1>5, SumCong
<1>9. QED BY <1>2, <1>6, <1>7, <1>8 DEF R, f, own

LEMMA UsedStep ==
  ASSUME RowsOK, RowsOK', NEW m \in Staff, NEW t \in LeaveType, NEW d \in Days, NEW n \in Nat,
         leaves' = [leaves EXCEPT ![m][t][d] = n]
  PROVE  /\ Used(m, t)' = Used(m, t) + (d * n - d * leaves[m][t][d])
         /\ \A o \in Staff, u \in LeaveType : o # m \/ u # t => Used(o, u)' = Used(o, u)
<1> DEFINE f == DaysUsed(m, t)
           g == DaysUsed(m, t)'
           R == Days \ {d}
           k == leaves[m][t][d]
<1>1. leaves'[m][t][d] = n /\ \A e \in R : leaves'[m][t][e] = leaves[m][t][e]
  BY DEF RowsOK
<1>2. /\ g[d] = d * n /\ f[d] = d * k
      /\ \A e \in R : f[e] = g[e]
  BY <1>1 DEF DaysUsed
<1>3. IsFiniteSet(Days) /\ IsFiniteSet(R)
  BY LeaveAssumption, FS_RemoveElement
<1>4. (\A e \in Days : f[e] \in Nat) /\ Used(m, t) = SumFunctionOnSet(f, Days)
  BY UsedType
<1>5. (\A e \in Days : g[e] \in Nat) /\ Used(m, t)' = SumFunctionOnSet(g, Days)
  <2>1. \A e \in Days : leaves'[m][t][e] \in Nat /\ e \in Nat
    BY Bounds DEF RowsOK
  <2>2. \A a, b \in Nat : a * b \in Nat
    OBVIOUS
  <2>3. \A e \in Days : g[e] \in Nat
    BY <2>1, <2>2 DEF DaysUsed
  <2>4. QED BY <2>3 DEF Used, DaysUsed
<1> HIDE DEF f, g
<1>6. SumFunctionOnSet(f, Days) = f[d] + SumFunctionOnSet(f, Days \ {d})
  BY <1>3, <1>4, SumRemove
<1>7. SumFunctionOnSet(g, Days) = g[d] + SumFunctionOnSet(g, Days \ {d})
  BY <1>3, <1>5, SumRemove
<1> HIDE DEF R
<1>8. SumFunctionOnSet(f, R) = SumFunctionOnSet(g, R)
  BY <1>2, <1>3, SumCong
<1>9. SumFunctionOnSet(f, R) \in Nat
  <2>1. \A e \in R : f[e] \in Nat
    BY <1>4 DEF R
  <2>2. QED BY <2>1, <1>3, SumNonNegative
<1>10. f[d] \in Nat /\ g[d] \in Nat
  BY <1>4, <1>5
<1>11. SumFunctionOnSet(g, Days) = SumFunctionOnSet(f, Days) + (g[d] - f[d])
  BY <1>6, <1>7, <1>8, <1>9, <1>10 DEF R
<1>12. ASSUME NEW o \in Staff, NEW u \in LeaveType, o # m \/ u # t
       PROVE  Used(o, u)' = Used(o, u)
  <2>1. leaves'[o][u] = leaves[o][u]
    BY <1>12 DEF RowsOK
  <2>2. QED BY <2>1 DEF Used
<1>13. QED BY <1>2, <1>4, <1>5, <1>11, <1>12

(* A handler that is not about to insert reserves nothing.                 *)
LEMMA QuietStep ==
  ASSUME LeavesInv, OverdraftInv, UNCHANGED leaves, NEW h \in Request,
         NEW q, LocalOK(q), Goto(h, q), q.pc # "leaveInsert"
  PROVE  OverdraftInv'
<1> SUFFICES ASSUME NEW m \in Staff, NEW t \in LeaveType
             PROVE  (Used(m, t) + Reserved(m, t) <= Limit)'
  BY DEF OverdraftInv
<1>1. Used(m, t)' = Used(m, t) /\ Used(m, t) \in Nat
  BY UsedType DEF Used, LeavesInv
<1> DEFINE rest == SumFunctionOnSet(DaysReserved(m, t), Request \ {h})
           own == DaysReserved(m, t)[h]
<1>2. Reserved(m, t) = own + rest /\ rest \in Nat /\ own \in Nat
  BY ReservedType DEF LeavesInv
<1>3. Reserved(m, t)' = 0 + rest
  BY ReservedStep DEF LeavesInv
<1>4. Used(m, t) + Reserved(m, t) <= Limit
  BY DEF OverdraftInv
<1> HIDE DEF own, rest
<1>5. QED BY <1>1, <1>2, <1>3, <1>4, LimitType DEF Limit

LEMMA UsedKeepsOverdraft ==
  ASSUME LeavesInv, OverdraftInv, NEW h \in Request, LeaveUsed(h)
  PROVE  OverdraftInv'
<1> DEFINE r == req[h]
           q == [r EXCEPT !.pc = "leaveInsert"]
<1>1. LocalOK(r) /\ r.pc = "leaveUsed" /\ UNCHANGED leaves
  BY DEF LeavesInv, ReqOK, LeaveUsed, At, leaveVars
<1>2. CASE Goto(h, Idle)
  BY <1>1, <1>2, IdleOK, QuietStep
<1>3. CASE /\ Goto(h, q)
           /\ ~ (r.days > r.allocated - Used(r.staff, r.type))
  <2>1. LocalOK(q) /\ r.staff \in Staff /\ r.type \in LeaveType /\ r.days \in Nat
        /\ r.allocated \in Nat /\ r.allocated <= Max(Quotas)
    BY <1>1, ResumeOK, Pcs, Bounds DEF LocalOK, Locals
  <2>2. q.staff = r.staff /\ q.type = r.type /\ q.days = r.days /\ q.pc = "leaveInsert"
    BY <1>1 DEF LocalOK, Locals
  <2> HIDE DEF q, r
  <2>3. SUFFICES ASSUME NEW m \in Staff, NEW t \in LeaveType
                 PROVE  (Used(m, t) + Reserved(m, t) <= Limit)'
    BY DEF OverdraftInv
  <2>4. Used(m, t)' = Used(m, t) /\ Used(m, t) \in Nat
    BY <1>1, UsedType DEF Used, LeavesInv
  <2> DEFINE rest == SumFunctionOnSet(DaysReserved(m, t), Request \ {h})
             own == DaysReserved(m, t)[h]
             mine == r.staff = m /\ r.type = t
  <2>5. /\ Reserved(m, t) = own + rest /\ rest \in Nat /\ own \in Nat
        /\ rest <= (Cardinality(Request) - 1) * Max(Days)
    BY ReservedType DEF LeavesInv
  <2>6. Reserved(m, t)' = (IF mine THEN r.days ELSE 0) + rest
    BY <1>3, <2>1, <2>2, ReservedStep DEF LeavesInv
  <2>7. Used(m, t) + Reserved(m, t) <= Limit
    BY DEF OverdraftInv
  <2>8. CASE mine
    <3> DEFINE others == (Cardinality(Request) - 1) * Max(Days)
    <3>1. Used(m, t) + r.days <= Max(Quotas)
      BY <1>3, <2>1, <2>4, <2>8, Bounds
    <3>2. others \in Nat /\ rest <= others /\ Limit = Max(Quotas) + others
      BY <2>5, LimitType DEF Limit
    <3> HIDE DEF others, rest
    <3>3. Used(m, t) + (r.days + rest) <= Limit
      BY <2>1, <2>4, <2>5, <3>1, <3>2, Bounds
    <3>4. Limit' = Limit
      BY DEF Limit
    <3>5. QED BY <2>4, <2>6, <2>8, <3>3, <3>4
  <2>9. CASE ~ mine
    <3> HIDE DEF own, rest
    <3>1. QED BY <2>4, <2>5, <2>6, <2>7, <2>9, LimitType DEF Limit
  <2>10. QED BY <2>8, <2>9
<1>4. QED BY <1>2, <1>3 DEF LeaveUsed

(* Days go from reserved to used, or are lost with the row they name.      *)
LEMMA InsertKeepsOverdraft ==
  ASSUME LeavesInv, LeavesInv', OverdraftInv, NEW h \in Request, LeaveInsert(h)
  PROVE  OverdraftInv'
<1> DEFINE q == req[h]
<1>1. LocalOK(q) /\ q.pc = "leaveInsert" /\ Goto(h, Idle)
  BY DEF LeavesInv, ReqOK, LeaveInsert, At
<1>2. PICK n \in Staff, u \in LeaveType, e \in Days :
        n = q.staff /\ u = q.type /\ e = q.days /\ e \in Nat
  BY <1>1, Pcs, Bounds DEF LocalOK
<1> DEFINE k == leaves[n][u][e]
<1>3. CASE UNCHANGED leaves
  BY <1>1, <1>3, IdleOK, QuietStep
<1>4. CASE leaves' = [leaves EXCEPT ![n][u][e] = k + 1]
  <2>1. k \in Nat /\ k + 1 \in Nat
    BY <1>2, LeavesType DEF LeavesInv
  <2>2. e * (k + 1) - e * k = e
    <3> HIDE DEF k
    <3>1. QED BY <1>2, <2>1
  <2>3. /\ Used(n, u)' = Used(n, u) + (e * (k + 1) - e * k)
        /\ \A o \in Staff, v \in LeaveType : o # n \/ v # u => Used(o, v)' = Used(o, v)
    <3> DEFINE w == k + 1
    <3>1. w \in Nat /\ leaves' = [leaves EXCEPT ![n][u][e] = w]
      BY <1>4, <2>1
    <3> HIDE DEF w, k
    <3>2. /\ Used(n, u)' = Used(n, u) + (e * w - e * leaves[n][u][e])
          /\ \A o \in Staff, v \in LeaveType : o # n \/ v # u => Used(o, v)' = Used(o, v)
      BY <1>2, <3>1, UsedStep DEF LeavesInv
    <3>3. QED BY <3>2 DEF k, w
  <2> HIDE DEF k
  <2>4. SUFFICES ASSUME NEW m \in Staff, NEW t \in LeaveType
                 PROVE  (Used(m, t) + Reserved(m, t) <= Limit)'
    BY DEF OverdraftInv
  <2> DEFINE rest == SumFunctionOnSet(DaysReserved(m, t), Request \ {h})
             own == DaysReserved(m, t)[h]
  <2>5. Reserved(m, t) = own + rest /\ rest \in Nat /\ own \in Nat
    BY ReservedType DEF LeavesInv
  <2>6. Reserved(m, t)' = 0 + rest
    BY <1>1, IdleOK, ReservedStep DEF LeavesInv
  <2>7. Used(m, t) + Reserved(m, t) <= Limit /\ Used(m, t) \in Nat
    BY UsedType DEF OverdraftInv, LeavesInv
  <2>8. own = IF m = n /\ t = u THEN e ELSE 0
    BY <1>1, <1>2 DEF DaysReserved, Reserving
  <2>9. Used(m, t)' = Used(m, t) + own
    BY <1>2, <2>2, <2>3, <2>7, <2>8
  <2>10. Limit' = Limit
    BY DEF Limit
  <2> HIDE DEF own, rest
  <2>11. QED BY <2>5, <2>6, <2>7, <2>9, <2>10, LimitType
<1>5. QED BY <1>2, <1>3, <1>4 DEF LeaveInsert

LEMMA DeleteKeepsOverdraft ==
  ASSUME LeavesInv, LeavesInv', OverdraftInv, NEW n \in Staff, NEW u \in LeaveType,
         NEW e \in Days, DeleteLeave(n, u, e)
  PROVE  OverdraftInv'
<1> DEFINE k == leaves[n][u][e]
           w == k - 1
<1>1. k \in Nat /\ w \in Nat /\ leaves' = [leaves EXCEPT ![n][u][e] = w] /\ e \in Nat
  BY LeavesType, Bounds DEF LeavesInv, DeleteLeave
<1>2. e * w - e * k = - e
  <2> HIDE DEF k
  <2>1. QED BY <1>1
<1> HIDE DEF w
<1>3. /\ Used(n, u)' = Used(n, u) + (e * w - e * k)
      /\ \A o \in Staff, v \in LeaveType : o # n \/ v # u => Used(o, v)' = Used(o, v)
  BY <1>1, UsedStep DEF LeavesInv
<1> HIDE DEF k
<1>4. SUFFICES ASSUME NEW m \in Staff, NEW t \in LeaveType
               PROVE  (Used(m, t) + Reserved(m, t) <= Limit)'
  BY DEF OverdraftInv
<1>5. Reserved(m, t)' = Reserved(m, t) /\ Reserved(m, t) \in Nat
  BY ReservedType DEF LeavesInv, DeleteLeave, Reserved, DaysReserved, Reserving
<1>6. Used(m, t) + Reserved(m, t) <= Limit /\ Used(m, t) \in Nat /\ Limit' = Limit
  BY UsedType DEF OverdraftInv, LeavesInv, Limit
<1>7. Used(m, t)' \in Int /\ Used(m, t)' <= Used(m, t)
  BY <1>1, <1>2, <1>3, <1>6
<1>8. QED BY <1>5, <1>6, <1>7, LimitType

LEMMA OverdraftFrame ==
  ASSUME OverdraftInv, UNCHANGED <<leaves, req>>
  PROVE  OverdraftInv'
  BY DEF OverdraftInv, Used, Reserved, DaysReserved, Reserving, Limit

LEMMA LeavesKeepOverdraft ==
  ASSUME LeavesInv, LeavesInv', OverdraftInv, NextLeaves
  PROVE  OverdraftInv'
<1>1. CASE \E t \in LeaveType : CreateType(t) \/ UpdateQuota(t) \/ SetTypeStatus(t)
  BY <1>1, OverdraftFrame DEF CreateType, UpdateQuota, SetTypeStatus
<1>2. CASE \E m \in Staff, t \in LeaveType, d \in Days : DeleteLeave(m, t, d)
  BY <1>2, DeleteKeepsOverdraft
<1>3. ASSUME NEW h \in Request, ServeLeaves(h) PROVE OverdraftInv'
  <2>1. CASE LeaveUsed(h)
    BY <2>1, UsedKeepsOverdraft
  <2>2. CASE LeaveInsert(h)
    BY <2>2, InsertKeepsOverdraft
  <2>3. CASE ~ LeaveUsed(h) /\ ~ LeaveInsert(h)
    <3>1. UNCHANGED leaves
      BY <1>3, <2>3 DEF ServeLeaves, DeleteTypeRead, SetBalances, LeaveQuota, DeleteTypeCount,
         DeleteTypeBalances, DeleteTypeRow, UpsertBalance, LeaveBalance, leaveVars
    <3> DEFINE q == req'[h]
    <3>2. LocalOK(q) /\ Goto(h, q)
      <4>1. LocalOK(q)
        BY DEF LeavesInv, ReqOK
      <4>2. \E r : Goto(h, r)
        BY <1>3, <2>3 DEF ServeLeaves, DeleteTypeRead, SetBalances, LeaveQuota,
           DeleteTypeCount, DeleteTypeBalances, DeleteTypeRow, UpsertBalance, LeaveBalance
      <4>3. QED BY <4>1, <4>2 DEF Goto, LeavesInv, ReqOK
    <3>3. q.pc # "leaveInsert"
      <4> DEFINE r == req[h]
      <4>1. r \in Locals /\ Idle \in Locals
        BY IdleOK DEF LeavesInv, ReqOK, LocalOK
      <4>2. \A x : Goto(h, x) => q = x
        BY DEF Goto, LeavesInv, ReqOK
      <4>3. CASE \/ \E t \in LeaveType : DeleteTypeRead(h, t)
                 \/ \E m \in Staff : SetBalances(h, m)
                 \/ \E m \in Staff, t \in LeaveType, d \in Days : LeaveQuota(h, m, t, d)
        BY <4>1, <4>2, <4>3 DEF DeleteTypeRead, SetBalances, LeaveQuota, Locals
      <4>4. CASE DeleteTypeCount(h) \/ DeleteTypeBalances(h) \/ DeleteTypeRow(h)
        BY <4>1, <4>2, <4>4, IdleOK DEF DeleteTypeCount, DeleteTypeBalances, DeleteTypeRow,
           Locals
      <4>5. CASE UpsertBalance(h)
        BY <4>1, <4>2, <4>5, IdleOK DEF UpsertBalance, Locals, At
      <4>6. CASE LeaveBalance(h)
        BY <4>1, <4>2, <4>6 DEF LeaveBalance, Locals
      <4>7. QED BY <1>3, <2>3, <4>3, <4>4, <4>5, <4>6 DEF ServeLeaves
    <3> HIDE DEF q
    <3>4. QED BY <3>1, <3>2, <3>3, QuietStep
  <2>4. QED BY <2>1, <2>2, <2>3
<1>4. QED BY <1>1, <1>2, <1>3 DEF NextLeaves

(* createLeaveRecord compares with what is left in one statement and       *)
(* inserts in another: the requests in flight but one can overdraw an      *)
(* allocation by their own days at most, whatever the order of statements. *)
THEOREM OverdraftBounded == Spec => []OverdraftIsBounded
<1>1. ASSUME Init PROVE OverdraftInv
  <2> SUFFICES ASSUME NEW m \in Staff, NEW t \in LeaveType
               PROVE  Used(m, t) + Reserved(m, t) <= Limit
    BY DEF OverdraftInv
  <2>1. ReqOK /\ RowsOK
    BY <1>1, LeavesInvInitially DEF LeavesInv
  <2>2. \A d \in Days : DaysUsed(m, t)[d] = 0
    <3>1. \A d \in Days : leaves[m][t][d] = 0 /\ d \in Nat
      BY <1>1, Bounds DEF Init, InitLeaves
    <3>2. QED BY <3>1 DEF DaysUsed
  <2>3. \A h \in Request : DaysReserved(m, t)[h] = 0
    BY <1>1, IdleOK DEF Init, InitLeaves, DaysReserved, Reserving
  <2>4. Used(m, t) = 0
    <3> DEFINE f == DaysUsed(m, t)
    <3>1. Used(m, t) = SumFunctionOnSet(f, Days) /\ Used(m, t) \in Nat
          /\ \A d \in Days : f[d] \in Nat /\ f[d] = 0
      BY <2>1, <2>2, UsedType
    <3> HIDE DEF f
    <3>2. SumFunctionOnSet(f, Days) > 0 => \E d \in Days : f[d] > 0
      BY <3>1, SumPositive, LeaveAssumption
    <3>3. QED BY <3>1, <3>2
  <2>5. Reserved(m, t) = 0
    <3> DEFINE f == DaysReserved(m, t)
    <3>1. Reserved(m, t) = SumFunctionOnSet(f, Request) /\ Reserved(m, t) \in Nat
          /\ \A h \in Request : f[h] \in Nat /\ f[h] = 0
      BY <2>1, <2>3, ReservedType DEF Reserved
    <3> HIDE DEF f
    <3>2. SumFunctionOnSet(f, Request) > 0 => \E h \in Request : f[h] > 0
      BY <3>1, SumPositive, LeaveAssumption
    <3>3. QED BY <3>1, <3>2
  <2>6. QED BY <2>4, <2>5, LimitType
<1>2. ASSUME LeavesInv, OverdraftInv, [Next]_vars
      PROVE  LeavesInv' /\ OverdraftInv'
  <2>1. LeavesInv'
    BY <1>2, LeavesInvInductive
  <2>2. CASE UNCHANGED <<leaves, req>>
    BY <1>2, <2>1, <2>2, OverdraftFrame
  <2>3. CASE NextLeaves
    BY <1>2, <2>1, <2>3, LeavesKeepOverdraft
  <2>4. ASSUME NEW h \in Request, LeavesFail(h) PROVE OverdraftInv'
    <3>1. UNCHANGED leaves /\ Goto(h, Idle)
      BY <2>4 DEF LeavesFail, leaveVars
    <3>2. QED BY <1>2, <3>1, IdleOK, QuietStep
  <2>5. CASE UNCHANGED vars
    BY <2>2, <2>5 DEF vars, leaveVars
  <2>6. CASE UNCHANGED <<leaveVars, req>>
    BY <2>2, <2>6 DEF leaveVars
  <2>7. QED BY <1>2, <2>1, <2>3, <2>4, <2>5, <2>6, ArchiveLeavesLeaves
<1>3. ASSUME LeavesInv, OverdraftInv PROVE OverdraftIsBounded
  <2>1. ASSUME NEW m \in Staff, NEW t \in LeaveType PROVE Used(m, t) <= Limit
    <3>1. Used(m, t) + Reserved(m, t) <= Limit
      BY <1>3 DEF OverdraftInv
    <3>2. Used(m, t) \in Nat /\ Reserved(m, t) \in Nat
      BY <1>3, UsedType, ReservedType DEF LeavesInv
    <3>3. QED BY <3>1, <3>2, LimitType
  <2>2. QED BY <2>1 DEF OverdraftIsBounded, Limit
<1>4. QED BY <1>1, <1>2, <1>3, LeavesInvInitially, PTL DEF Spec

-----------------------------------------------------------------------------
(* The archive and the purge.                                              *)

DeskRow ==
  [pc : {"idle", "archiveWrite", "restoreWrite", "deleteCount", "deleteCommit"},
   who : Person \cup {None}]

RunRow ==
  [pc : {"idle", "tenant", "students", "staff"}, tenants : SUBSET Tenant,
   tenant : Tenant \cup {None}, todo : SUBSET Person, who : Person \cup {None}]

CallOK(c) == c \in DeskRow /\ (c.pc # "idle" => c.who \in Person)

RunOK(r) ==
  /\ r \in RunRow
  /\ \A p \in r.todo \cup ({r.who} \ {None}) : TenantOf[p] = r.tenant

FilesOK ==
  /\ people \subseteq Person
  /\ archived \in [Person -> {"no", "recent", "due"}]
  /\ file \in [Person -> SUBSET {"history", "owned"}]

CallsOK == desk \in [Desk -> DeskRow] /\ \A h \in Desk : CallOK(desk[h])
RunsOK == job \in [Job -> RunRow] /\ \A j \in Job : RunOK(job[j])

TypeInv == LeavesInv /\ FilesOK /\ CallsOK /\ RunsOK /\ NobodyGoneIsOnFile

LEMMA TypeInvImpliesTypeOK == TypeInv => TypeOK
  BY DEF TypeInv, TypeOK, LeavesInv, RowsOK, FilesOK, RunsOK, RunOK

LEMMA PersonPlain == None \notin Person /\ Student \subseteq Person /\ Staff \subseteq Person
  BY ArchiveAssumption DEF Person

LEMMA GoneFrame ==
  ASSUME NobodyGoneIsOnFile, UNCHANGED <<people, file, leaveVars>>
  PROVE  NobodyGoneIsOnFile'
  BY DEF NobodyGoneIsOnFile, Referenced, Blocked, HasLeaveRows, OnLeave, leaveVars

LEMMA FilesFrame ==
  ASSUME FilesOK, UNCHANGED files
  PROVE  FilesOK'
  BY DEF FilesOK, files

LEMMA EraseOK ==
  ASSUME FilesOK, NobodyGoneIsOnFile, NEW p \in Person, Erase(p), UNCHANGED leaveVars
  PROVE  FilesOK' /\ NobodyGoneIsOnFile'
<1>1. CASE UNCHANGED files
  BY <1>1, FilesFrame, GoneFrame DEF files
<1>2. CASE /\ ~ Referenced(p)
           /\ people' = people \ {p}
           /\ archived' = [archived EXCEPT ![p] = "no"]
           /\ file' = [file EXCEPT ![p] = {}]
  <2>1. FilesOK'
    BY <1>2 DEF FilesOK
  <2>2. ASSUME NEW o \in Person, o \notin people'
        PROVE  file'[o] = {} /\ ~ Referenced(o)'
    <3>1. ~ Referenced(o) /\ file'[o] = {}
      BY <1>2, <2>2 DEF NobodyGoneIsOnFile, FilesOK
    <3>2. HasLeaveRows(o)' = HasLeaveRows(o)
      BY DEF HasLeaveRows, OnLeave, leaveVars
    <3>3. QED BY <3>1, <3>2 DEF Referenced, Blocked
  <2>3. QED BY <2>1, <2>2 DEF NobodyGoneIsOnFile
<1>3. QED BY <1>1, <1>2 DEF Erase

LEMMA CallStep ==
  ASSUME CallsOK, NEW h \in Desk, NEW c, CallOK(c), desk' = [desk EXCEPT ![h] = c]
  PROVE  CallsOK'
  BY DEF CallsOK, CallOK

LEMMA RunStep ==
  ASSUME RunsOK, NEW j \in Job, NEW r, RunOK(r), job' = [job EXCEPT ![j] = r]
  PROVE  RunsOK'
  BY DEF RunsOK, RunOK

LEMMA NoCallOK == CallOK(NoCall)
  BY DEF CallOK, NoCall, DeskRow

LEMMA NoRunOK == RunOK(NoRun) /\ NoRun.todo = {} /\ NoRun.who = None
  BY DEF RunOK, NoRun, RunRow

LEMMA DeskKeepsTypes ==
  ASSUME TypeInv, NEW h \in Desk, ServeDesk(h)
  PROVE  CallsOK' /\ FilesOK' /\ NobodyGoneIsOnFile'
<1> DEFINE p == desk[h].who
<1>1. CallOK(desk[h]) /\ CallsOK /\ FilesOK /\ NobodyGoneIsOnFile
  BY DEF TypeInv, CallsOK
<1>2. ASSUME NEW o \in Person,
             NEW pc \in {"archiveWrite", "restoreWrite", "deleteCount", "deleteCommit"},
             Call(h, pc, o)
      PROVE  CallsOK'
  <2>1. CallOK([pc |-> pc, who |-> o])
    BY DEF CallOK, DeskRow
  <2>2. QED BY <1>1, <1>2, <2>1, CallStep DEF Call
<1>3. Return(h) => CallsOK'
  BY <1>1, NoCallOK, CallStep DEF Return
<1>4. ASSUME NEW o \in Person, ArchiveRead(h, o) \/ RestoreRead(h, o) \/ DeleteRead(h, o)
      PROVE  CallsOK' /\ FilesOK' /\ NobodyGoneIsOnFile'
  <2>1. CallsOK'
    BY <1>2, <1>4 DEF ArchiveRead, RestoreRead, DeleteRead
  <2>2. UNCHANGED <<files, leaveVars>>
    BY <1>4 DEF ArchiveRead, RestoreRead, DeleteRead
  <2>3. QED BY <1>1, <2>1, <2>2, FilesFrame, GoneFrame DEF files
<1>5. CASE ArchiveWrite(h) \/ RestoreWrite(h)
  <2>1. CallsOK'
    BY <1>3, <1>5 DEF ArchiveWrite, RestoreWrite
  <2>2. UNCHANGED <<people, file, leaveVars>>
    BY <1>5 DEF ArchiveWrite, RestoreWrite
  <2>3. archived' \in [Person -> {"no", "recent", "due"}]
    BY <1>1, <1>5 DEF ArchiveWrite, RestoreWrite, FilesOK
  <2>4. FilesOK'
    BY <1>1, <2>2, <2>3 DEF FilesOK
  <2>5. QED BY <1>1, <2>1, <2>2, <2>4, GoneFrame
<1>6. CASE DeleteCount(h)
  <2>1. p \in Person
    BY <1>1, <1>6 DEF DeleteCount, At2, CallOK
  <2>2. CallsOK'
    BY <1>2, <1>3, <1>6, <2>1 DEF DeleteCount
  <2>3. UNCHANGED <<files, leaveVars>>
    BY <1>6 DEF DeleteCount
  <2>4. QED BY <1>1, <2>2, <2>3, FilesFrame, GoneFrame DEF files
<1>7. CASE DeleteCommit(h)
  <2>1. p \in Person
    BY <1>1, <1>7 DEF DeleteCommit, At2, CallOK
  <2>2. QED BY <1>1, <1>3, <1>7, <2>1, EraseOK DEF DeleteCommit
<1>8. QED BY <1>4, <1>5, <1>6, <1>7 DEF ServeDesk

LEMMA SelectedOK ==
  ASSUME FilesOK, NEW persons \in SUBSET Person, NEW t \in Tenant
  PROVE  /\ Selected(persons, t) \in SUBSET Person
         /\ \A p \in Selected(persons, t) : TenantOf[p] = t
  BY DEF Selected

LEMMA RunsKeepTypes ==
  ASSUME TypeInv, NEW j \in Job, RunStart(j) \/ Run(j) \/ RunFail(j)
  PROVE  RunsOK' /\ FilesOK' /\ NobodyGoneIsOnFile'
<1> DEFINE r == job[j]
<1>1. RunOK(r) /\ RunsOK /\ FilesOK /\ NobodyGoneIsOnFile
  BY DEF TypeInv, RunsOK
<1>2. CASE RunStart(j)
  <2>1. PICK ts \in SUBSET Tenant :
          job' = [job EXCEPT ![j] = [NoRun EXCEPT !.pc = "tenant", !.tenants = ts]]
    BY <1>2 DEF RunStart
  <2>2. RunOK([NoRun EXCEPT !.pc = "tenant", !.tenants = ts])
    BY NoRunOK DEF RunOK, RunRow
  <2>3. RunsOK'
    BY <1>1, <2>1, <2>2, RunStep
  <2>4. QED BY <1>1, <1>2, <2>3, FilesFrame, GoneFrame DEF RunStart, files
<1>3. CASE RunTenant(j)
  <2>1. CASE job' = [job EXCEPT ![j] = NoRun]
    BY <1>1, <1>3, <2>1, NoRunOK, RunStep, FilesFrame, GoneFrame DEF RunTenant, files
  <2>2. ASSUME NEW t \in r.tenants,
               job' = [job EXCEPT ![j] =
                 [NoRun EXCEPT !.pc = "students", !.tenants = r.tenants \ {t},
                               !.tenant = t, !.todo = Selected(Student, t)]]
        PROVE  RunsOK'
    <3>1. t \in Tenant /\ r.tenants \ {t} \in SUBSET Tenant
      BY <1>1 DEF RunOK, RunRow
    <3> DEFINE todo == Selected(Student, t)
               ts == r.tenants \ {t}
               n == [NoRun EXCEPT !.pc = "students", !.tenants = ts, !.tenant = t, !.todo = todo]
    <3>2. todo \in SUBSET Person /\ \A p \in todo : TenantOf[p] = t
      BY <1>1, <3>1, SelectedOK, PersonPlain
    <3> HIDE DEF todo, ts
    <3>3. n \in RunRow
      BY <3>1, <3>2, NoRunOK DEF RunRow, RunOK, ts
    <3>4. n.todo = todo /\ n.who = None /\ n.tenant = t
      BY NoRunOK DEF RunRow, RunOK
    <3>5. RunOK(n)
      BY <3>2, <3>3, <3>4 DEF RunOK
    <3>6. job' = [job EXCEPT ![j] = n]
      BY <2>2 DEF ts, todo
    <3> HIDE DEF n
    <3>7. QED BY <1>1, <3>5, <3>6, RunStep
  <2>3. RunsOK'
    BY <1>1, <1>3, <2>2, NoRunOK, RunStep DEF RunTenant
  <2>4. QED BY <1>1, <1>3, <2>3, FilesFrame, GoneFrame DEF RunTenant, files
<1>4. CASE RunStaff(j)
  <2>1. r.who = None /\ r \in RunRow
    BY <1>1, <1>4 DEF RunStaff, RunOK
  <2> DEFINE t == r.tenant
             todo == Selected(Staff, t)
             n == [r EXCEPT !.pc = "staff", !.todo = todo]
  <2>2. todo \in SUBSET Person /\ \A p \in todo : TenantOf[p] = t
    BY PersonPlain DEF Selected
  <2>3. job' = [job EXCEPT ![j] = n]
    BY <1>4 DEF RunStaff, RunsOK, TypeInv
  <2> HIDE DEF todo, t
  <2>4. n \in RunRow /\ n.todo = todo /\ n.who = None /\ n.tenant = t
    BY <2>1, <2>2 DEF RunRow, t
  <2>5. RunOK(n)
    BY <2>2, <2>4 DEF RunOK
  <2> HIDE DEF n
  <2>6. QED BY <1>1, <1>4, <2>3, <2>5, RunStep, FilesFrame, GoneFrame DEF RunStaff, files
<1>5. CASE RunNext(j)
  <2> DEFINE n == [r EXCEPT !.pc = "tenant"]
  <2>1. RunOK(n)
    BY <1>1 DEF RunOK, RunRow
  <2>2. job' = [job EXCEPT ![j] = n]
    BY <1>5 DEF RunNext, RunsOK, TypeInv
  <2> HIDE DEF n
  <2>3. QED BY <1>1, <1>5, <2>1, <2>2, RunStep, FilesFrame, GoneFrame DEF RunNext, files
<1>6. CASE RunCount(j)
  <2>1. PICK p \in r.todo :
          job' = [job EXCEPT ![j].todo = @ \ {p}, ![j].who = IF Blocked(p) THEN None ELSE p]
    BY <1>6 DEF RunCount
  <2>2. p \in Person /\ TenantOf[p] = r.tenant
    BY <1>1, <2>1 DEF RunOK, RunRow
  <2> DEFINE who == IF Blocked(p) THEN None ELSE p
             todo == r.todo \ {p}
             n == [r EXCEPT !.todo = todo, !.who = who]
  <2>3. job' = [job EXCEPT ![j] = n]
    BY <2>1 DEF RunsOK, TypeInv, RunRow
  <2>4. who \in Person \cup {None} /\ todo \in SUBSET Person /\ who \in {p, None}
    BY <1>1, <2>2 DEF RunOK, RunRow
  <2>5. \A o \in todo : TenantOf[o] = r.tenant
    BY <1>1 DEF RunOK
  <2> HIDE DEF who, todo
  <2>6. n \in RunRow /\ n.todo = todo /\ n.who = who /\ n.tenant = r.tenant
    BY <1>1, <2>4 DEF RunOK, RunRow
  <2>7. RunOK(n)
    BY <2>2, <2>4, <2>5, <2>6 DEF RunOK
  <2> HIDE DEF n
  <2>8. QED BY <1>1, <1>6, <2>3, <2>7, RunStep, FilesFrame, GoneFrame DEF RunCount, files
<1>7. CASE RunDelete(j)
  <2>1. r.who \in Person
    BY <1>1, <1>7 DEF RunDelete, RunOK, RunRow
  <2>2. FilesOK' /\ NobodyGoneIsOnFile'
    BY <1>1, <1>7, <2>1, EraseOK DEF RunDelete
  <2> DEFINE n == [r EXCEPT !.who = None]
  <2>3. RunOK(n)
    BY <1>1 DEF RunOK, RunRow
  <2>4. job' = [job EXCEPT ![j] = NoRun] \/ job' = [job EXCEPT ![j] = n]
    BY <1>7 DEF RunDelete
  <2> HIDE DEF n
  <2>5. RunsOK'
    BY <1>1, <2>3, <2>4, NoRunOK, RunStep
  <2>6. QED BY <2>2, <2>5
<1>8. CASE RunFail(j)
  BY <1>1, <1>8, NoRunOK, RunStep, FilesFrame, GoneFrame DEF RunFail, files
<1>9. QED BY <1>2, <1>3, <1>4, <1>5, <1>6, <1>7, <1>8 DEF Run

LEMMA LeavesKeepGone ==
  ASSUME TypeInv, NextLeaves, UNCHANGED files
  PROVE  NobodyGoneIsOnFile'
<1>1. ASSUME NEW p \in Person, p \notin people
      PROVE  file'[p] = {} /\ ~ Referenced(p)'
  <2>1. file'[p] = {} /\ file[p] = {} /\ ~ Referenced(p)
    BY <1>1 DEF TypeInv, NobodyGoneIsOnFile, files
  <2>2. p \in Staff => ~ HasLeaveRows(p)'
    BY <1>1, <2>1, GoneHasNoRows DEF TypeInv, Referenced
  <2>3. QED BY <2>1, <2>2 DEF Referenced, Blocked
<1>2. QED BY <1>1 DEF NobodyGoneIsOnFile, files

LEMMA FilesStep ==
  ASSUME TypeInv, NEW p \in Person, NEW kind \in {"history", "owned"},
         Age(p) \/ AddRecord(p, kind) \/ DropRecord(p, kind)
  PROVE  FilesOK' /\ NobodyGoneIsOnFile'
<1>1. FilesOK /\ NobodyGoneIsOnFile
  BY DEF TypeInv
<1>2. CASE Age(p)
  <2>1. FilesOK'
    BY <1>1, <1>2 DEF Age, FilesOK
  <2>2. QED BY <1>1, <1>2, <2>1, GoneFrame DEF Age
<1>3. CASE AddRecord(p, kind) \/ DropRecord(p, kind)
  <2>1. FilesOK'
    BY <1>1, <1>3 DEF AddRecord, DropRecord, FilesOK
  <2>2. ASSUME NEW o \in Person, o \notin people'
        PROVE  file'[o] = {} /\ ~ Referenced(o)'
    <3>1. UNCHANGED <<people, leaveVars>>
      BY <1>3 DEF AddRecord, DropRecord
    <3>2. ~ Referenced(o) /\ file[o] = {} /\ o \notin people
      BY <1>1, <2>2, <3>1 DEF NobodyGoneIsOnFile
    <3>3. file'[o] = {}
      BY <1>1, <1>3, <3>2 DEF AddRecord, DropRecord, FilesOK
    <3>4. HasLeaveRows(o)' = HasLeaveRows(o)
      BY <3>1 DEF HasLeaveRows, OnLeave, leaveVars
    <3>5. QED BY <3>2, <3>3, <3>4 DEF Referenced, Blocked
  <2>3. QED BY <2>1, <2>2 DEF NobodyGoneIsOnFile
<1>4. QED BY <1>2, <1>3

LEMMA TypeInvInductive ==
  ASSUME TypeInv, [Next]_vars
  PROVE  TypeInv'
<1>1. LeavesInv'
  BY LeavesInvInductive DEF TypeInv
<1>2. UNCHANGED desk => CallsOK'
  BY DEF TypeInv, CallsOK
<1>3. UNCHANGED job => RunsOK'
  BY DEF TypeInv, RunsOK
<1>4. CASE UNCHANGED vars
  BY <1>1, <1>2, <1>3, <1>4, FilesFrame, GoneFrame DEF TypeInv, vars, files
<1>5. CASE NextLeaves /\ UNCHANGED <<files, desk, job, edits>>
  BY <1>1, <1>2, <1>3, <1>5, FilesFrame, LeavesKeepGone DEF TypeInv
<1>6. ASSUME NEW p \in Person, NEW kind \in {"history", "owned"},
             Age(p) \/ AddRecord(p, kind) \/ DropRecord(p, kind)
      PROVE  TypeInv'
  BY <1>1, <1>2, <1>3, <1>6, FilesStep DEF TypeInv, Age, AddRecord, DropRecord
<1>7. ASSUME NEW h \in Desk, ServeDesk(h) PROVE TypeInv'
  <2>1. UNCHANGED job
    BY <1>7 DEF ServeDesk, ArchiveRead, RestoreRead, DeleteRead, ArchiveWrite, RestoreWrite,
       DeleteCount, DeleteCommit
  <2>2. QED BY <1>1, <1>3, <1>7, <2>1, DeskKeepsTypes DEF TypeInv
<1>8. ASSUME NEW j \in Job, RunStart(j) \/ Run(j) \/ RunFail(j) PROVE TypeInv'
  <2>1. UNCHANGED desk
    BY <1>8 DEF RunStart, Run, RunTenant, RunStaff, RunNext, RunCount, RunDelete, RunFail
  <2>2. QED BY <1>1, <1>2, <1>8, <2>1, RunsKeepTypes DEF TypeInv
<1>9. ASSUME NEW h \in Request, LeavesFail(h) PROVE TypeInv'
  BY <1>1, <1>2, <1>3, <1>9, FilesFrame, GoneFrame DEF LeavesFail, TypeInv, files
<1>10. ASSUME NEW p \in Person, Age(p) PROVE TypeInv'
  <2>1. "history" \in {"history", "owned"}
    OBVIOUS
  <2>2. QED BY <1>6, <1>10, <2>1
<1>11. QED BY <1>4, <1>5, <1>6, <1>7, <1>8, <1>9, <1>10 DEF Next

LEMMA TypeInvInitially ==
  ASSUME Init
  PROVE  TypeInv
<1>1. LeavesInv
  BY LeavesInvInitially
<1>2. CallsOK /\ RunsOK
  BY NoCallOK, NoRunOK DEF Init, CallsOK, RunsOK, CallOK, RunOK
<1>3. FilesOK /\ NobodyGoneIsOnFile
  BY DEF Init, FilesOK, NobodyGoneIsOnFile
<1>4. QED BY <1>1, <1>2, <1>3 DEF TypeInv

LEMMA TypeInvariant == Spec => []TypeInv
  BY TypeInvInitially, TypeInvInductive, PTL DEF Spec

(* The rows of the archive, of leaves and of a run's list have their       *)
(* types, and a run deletes people of the tenant it is at only.            *)
THEOREM TypeCorrect == Spec => []TypeOK
  BY TypeInvariant, TypeInvImpliesTypeOK, PTL

(* permanentlyDelete and the purge count first and delete later, leaves    *)
(* and allocations are checked first and inserted later: whichever         *)
(* statements come between, a row that refers to a person keeps that       *)
(* person in the tables, and a deleted person gets no row any more.        *)
THEOREM NobodyOrphaned == Spec => []NobodyGoneIsOnFile
<1>1. TypeInv => NobodyGoneIsOnFile
  BY DEF TypeInv
<1>2. QED BY <1>1, TypeInvariant, PTL

=============================================================================
