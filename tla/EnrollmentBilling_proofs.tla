----------------------- MODULE EnrollmentBilling_proofs -----------------------
(* Proofs about EnrollmentBilling for any enrollments, fee items, months   *)
(* and number of handlers and jobs in flight.                              *)
EXTENDS EnrollmentBilling, FiniteSums

EnrollmentRow == [status : Statuses, invoice : Nat, cancelled : BOOLEAN]

ServiceRow == [item : Recurring, from : Months, to : Months \cup {0}]

BillRow == [enrollment : Enrollment, source : {"enrollment", "recurring", "ad_hoc"},
            month : Months, items : SUBSET Item, by : {"confirm", "addService", "run"}]

Locals == [pc : PC, enr : Enrollment \cup {NoEnrollment}, status : Statuses,
           items : SUBSET Item, month : Months, todo : SUBSET Enrollment]

(* A handler past its first read names the enrollment its next step needs. *)
OnEnrollment == {"updateWrite", "deleteWrite", "confirmCommit", "cancelCommit",
                 "addCommit", "runServices", "runInsert"}

LocalOK(q) ==
  /\ q \in Locals
  /\ q.pc \in OnEnrollment => q.enr \in Enrollment
  /\ q.pc = "updateWrite" => q.status \in {"draft", "other"}

EnrollmentsOK ==
  /\ enrollments \in [Enrollment -> EnrollmentRow]
  /\ \A e \in Enrollment : enrollments[e].invoice <= Len(invoices)

TypeInv ==
  /\ today \in Months
  /\ EnrollmentsOK
  /\ services \in Seq(ServiceRow)
  /\ invoices \in Seq(BillRow)
  /\ req \in [Request -> Locals]
  /\ \A r \in Request : LocalOK(req[r])

LEMMA TypeInvImpliesTypeOK == TypeInv => TypeOK
  BY DEF TypeInv, EnrollmentsOK, TypeOK, Locals, ServiceRow, BillRow, EnrollmentRow

(* Invoices are inserted and never change; of a service only the end does. *)
BillsKept ==
  /\ Len(invoices) \in Nat /\ Len(invoices') \in Nat /\ Len(invoices) <= Len(invoices')
  /\ DOMAIN invoices \subseteq DOMAIN invoices'
  /\ \A k \in DOMAIN invoices : invoices'[k] = invoices[k]

ServicesKept ==
  /\ DOMAIN services \subseteq DOMAIN services'
  /\ \A k \in DOMAIN services : /\ services'[k].item = services[k].item
                                /\ services'[k].from = services[k].from

-----------------------------------------------------------------------------
(* The data the handlers insert.                                           *)

(* The locals of a handler, given column by column.                        *)
LEMMA LocalColumns ==
  ASSUME NEW pc \in PC, NEW e \in Enrollment \cup {NoEnrollment}, NEW s \in Statuses,
         NEW items \in SUBSET Item, NEW m \in Months, NEW todo \in SUBSET Enrollment,
         pc \in OnEnrollment => e \in Enrollment,
         pc = "updateWrite" => s \in {"draft", "other"}
  PROVE  LocalOK([pc |-> pc, enr |-> e, status |-> s, items |-> items,
                  month |-> m, todo |-> todo])
  BY DEF LocalOK, Locals

LEMMA Columns ==
  /\ 1 \in Months
  /\ {"draft", "other", "deleted", "approved"} \subseteq Statuses
  /\ OnEnrollment \subseteq PC
  /\ {"idle", "addResolve", "runCheck"} \subseteq PC \ OnEnrollment
  BY BoundAssumption DEF Months, Statuses, PC, OnEnrollment

LEMMA IdleOK == LocalOK(Idle)
  BY LocalColumns, Columns DEF Idle

LEMMA LocalStep ==
  ASSUME TypeInv, NEW r \in Request, NEW q, LocalOK(q), Goto(r, q)
  PROVE  req' \in [Request -> Locals] /\ \A s \in Request : LocalOK(req'[s])
  BY DEF TypeInv, Goto, LocalOK

LEMMA BillAppended ==
  ASSUME TypeInv, NEW row \in BillRow, invoices' = Append(invoices, row)
  PROVE  /\ invoices' \in Seq(BillRow) /\ BillsKept
         /\ DOMAIN invoices' = DOMAIN invoices \cup {Len(invoices) + 1}
         /\ Len(invoices') = Len(invoices) + 1
         /\ Len(invoices) + 1 \notin DOMAIN invoices
         /\ invoices'[Len(invoices) + 1] = row
<1>1. invoices \in Seq(BillRow)
  BY DEF TypeInv
<1>2. QED BY <1>1 DEF BillsKept

LEMMA ServiceRowsType ==
  ASSUME NEW items \in SUBSET Item, NEW from \in Months
  PROVE  ServiceRows(items, from) \in Seq(ServiceRow)
<1> DEFINE I == items \cap Recurring
           row(i) == [item |-> i, from |-> from, to |-> 0]
           S == {row(i) : i \in I}
           f == [i \in I |-> row(i)]
<1>1. IsFiniteSet(I)
  BY ItemAssumption, FS_Subset
<1>2. f \in Surjection(I, S)
  <2>1. f \in [I -> S] /\ \A y \in S : \E x \in I : f[x] = y
    OBVIOUS
  <2> HIDE DEF f, I, S
  <2>2. QED BY <2>1 DEF Surjection
<1>3. IsFiniteSet(S)
  <2> HIDE DEF f, I, S
  <2>1. QED BY <1>1, <1>2, FS_Surjection
<1>4. S \in SUBSET ServiceRow
  BY DEF ServiceRow
<1>5. ServiceRows(items, from) = SetToSeq(S)
  BY DEF ServiceRows
<1> HIDE DEF S
<1>6. QED BY <1>3, <1>4, <1>5, SetToSeqType

LEMMA ServicesAdded ==
  ASSUME TypeInv, NEW items \in SUBSET Item, NEW from \in Months,
         services' = services \o ServiceRows(items, from)
  PROVE  services' \in Seq(ServiceRow) /\ ServicesKept
<1> DEFINE new == ServiceRows(items, from)
<1>1. services \in Seq(ServiceRow) /\ new \in Seq(ServiceRow)
  BY ServiceRowsType DEF TypeInv
<1> HIDE DEF new
<1>2. services' = services \o new
  BY DEF new
<1>3. QED BY <1>1, <1>2 DEF ServicesKept

(* The enrollment confirmed last is one of the approved ones.              *)
LEMMA LatestApproved ==
  ASSUME TypeInv, Approved # {}
  PROVE  Latest \in Approved
<1> DEFINE w == [e \in Enrollment |-> Len(invoices) - enrollments[e].invoice]
<1>1. \A e \in Enrollment : /\ enrollments[e].invoice \in Nat
                            /\ w[e] \in Nat
                            /\ w[e] = Len(invoices) - enrollments[e].invoice
  BY DEF TypeInv, EnrollmentsOK, EnrollmentRow
<1>2. Approved \subseteq Enrollment
  BY DEF Approved
<1> HIDE DEF w
<1>3. PICK e \in Approved : \A f \in Approved : w[e] <= w[f]
  BY <1>1, <1>2, LeastWeight
<1>4. Len(invoices) \in Nat
  BY DEF TypeInv
<1>5. \A f \in Approved : enrollments[f].invoice <= enrollments[e].invoice
  BY <1>1, <1>2, <1>3, <1>4
<1>6. QED BY <1>5 DEF Latest

-----------------------------------------------------------------------------
(* Every operation keeps the types, the invoices and the services.         *)

Keeps == TypeInv' /\ BillsKept /\ ServicesKept

(* A handler that only reads.                                              *)
LEMMA ReadKeeps ==
  ASSUME TypeInv, NEW r \in Request, NEW q, LocalOK(q), Goto(r, q),
         UNCHANGED <<today, enrollments, services, invoices>>
  PROVE  Keeps
<1>1. req' \in [Request -> Locals] /\ \A s \in Request : LocalOK(req'[s])
  BY LocalStep
<1>2. BillsKept /\ ServicesKept
  BY DEF TypeInv, BillsKept, ServicesKept
<1>3. QED BY <1>1, <1>2 DEF Keeps, TypeInv, EnrollmentsOK

(* A handler that writes enrollments only, and ends.                       *)
LEMMA EnrollmentWriteKeeps ==
  ASSUME TypeInv, NEW r \in Request, Goto(r, Idle), EnrollmentsOK',
         UNCHANGED <<today, services, invoices>>
  PROVE  Keeps
<1>1. req' \in [Request -> Locals] /\ \A s \in Request : LocalOK(req'[s])
  BY LocalStep, IdleOK
<1>2. BillsKept /\ ServicesKept
  BY DEF TypeInv, BillsKept, ServicesKept
<1>3. QED BY <1>1, <1>2 DEF Keeps, TypeInv

(* A single field of one enrollment is written.                            *)
LEMMA OneFieldKeeps ==
  ASSUME EnrollmentsOK, NEW e \in Enrollment, UNCHANGED invoices,
         \/ \E s \in Statuses : enrollments' = [enrollments EXCEPT ![e].status = s]
         \/ enrollments' = [enrollments EXCEPT ![e].cancelled = TRUE]
         \/ UNCHANGED enrollments
  PROVE  EnrollmentsOK'
<1>1. enrollments \in [Enrollment -> EnrollmentRow]
  BY DEF EnrollmentsOK
<1>2. enrollments' \in [Enrollment -> EnrollmentRow]
  BY <1>1 DEF EnrollmentRow
<1>3. \A f \in Enrollment : enrollments'[f].invoice = enrollments[f].invoice
  BY <1>1 DEF EnrollmentRow
<1>4. QED BY <1>2, <1>3 DEF EnrollmentsOK

LEMMA AtRequest ==
  ASSUME TypeInv, NEW r \in Request
  PROVE  /\ LocalOK(req[r])
         /\ req[r] \in Locals
  BY DEF TypeInv

LEMMA UpdateKeeps ==
  ASSUME TypeInv, NEW r \in Request,
         UpdateWrite(r) \/ \E e \in Enrollment : UpdateRead(r, e)
  PROVE  Keeps
<1>1. ASSUME NEW e \in Enrollment, UpdateRead(r, e)
      PROVE  Keeps
  <2>1. PICK s \in {"draft", "other"} :
          Goto(r, [Idle EXCEPT !.pc = "updateWrite", !.enr = e, !.status = s])
    BY <1>1 DEF UpdateRead
  <2>2. LocalOK([Idle EXCEPT !.pc = "updateWrite", !.enr = e, !.status = s])
    BY IdleOK, Columns DEF LocalOK, Locals, OnEnrollment
  <2>3. QED BY <1>1, <2>1, <2>2, ReadKeeps DEF UpdateRead
<1>2. CASE UpdateWrite(r)
  <2>1. req[r].enr \in Enrollment /\ req[r].status \in Statuses
    BY <1>2, AtRequest DEF UpdateWrite, At, LocalOK, OnEnrollment, Locals
  <2>2. EnrollmentsOK'
    BY <1>2, <2>1, OneFieldKeeps DEF UpdateWrite, TypeInv
  <2>3. QED BY <1>2, <2>2, EnrollmentWriteKeeps DEF UpdateWrite
<1>3. QED BY <1>1, <1>2

LEMMA DeleteKeeps ==
  ASSUME TypeInv, NEW r \in Request,
         DeleteWrite(r) \/ \E e \in Enrollment : DeleteRead(r, e)
  PROVE  Keeps
<1>1. ASSUME NEW e \in Enrollment, DeleteRead(r, e)
      PROVE  Keeps
  <2>1. LocalOK([Idle EXCEPT !.pc = "deleteWrite", !.enr = e])
    BY IdleOK, Columns DEF LocalOK, Locals, OnEnrollment
  <2>2. QED BY <1>1, <2>1, ReadKeeps DEF DeleteRead
<1>2. CASE DeleteWrite(r)
  <2>1. req[r].enr \in Enrollment /\ "deleted" \in Statuses
    BY <1>2, AtRequest DEF DeleteWrite, At, LocalOK, OnEnrollment, Statuses
  <2>2. EnrollmentsOK'
    BY <1>2, <2>1, OneFieldKeeps DEF DeleteWrite, TypeInv
  <2>3. QED BY <1>2, <2>2, EnrollmentWriteKeeps DEF DeleteWrite
<1>3. QED BY <1>1, <1>2

LEMMA CancelKeeps ==
  ASSUME TypeInv, NEW r \in Request,
         CancelCommit(r) \/ \E e \in Enrollment : CancelRead(r, e)
  PROVE  Keeps
<1>1. ASSUME NEW e \in Enrollment, CancelRead(r, e)
      PROVE  Keeps
  <2>1. LocalOK([Idle EXCEPT !.pc = "cancelCommit", !.enr = e])
    BY IdleOK, Columns DEF LocalOK, Locals, OnEnrollment
  <2>2. QED BY <1>1, <2>1, ReadKeeps DEF CancelRead
<1>2. CASE CancelCommit(r)
  <2>1. req[r].enr \in Enrollment
    BY <1>2, AtRequest DEF CancelCommit, At, LocalOK, OnEnrollment
  <2>2. EnrollmentsOK'
    BY <1>2, <2>1, OneFieldKeeps DEF CancelCommit, TypeInv
  <2>3. services' \in Seq(ServiceRow) /\ ServicesKept
    <3>1. services \in Seq(ServiceRow) /\ today \in Months
      BY DEF TypeInv
    <3>2. ASSUME NEW k \in DOMAIN services PROVE services'[k] \in ServiceRow
      <4>1. services[k] \in ServiceRow
        BY <3>1
      <4>2. services'[k] = IF services[k].to = 0 THEN [services[k] EXCEPT !.to = today]
                           ELSE services[k]
        BY <1>2 DEF CancelCommit
      <4>3. QED BY <3>1, <4>1, <4>2 DEF ServiceRow
    <3>3. DOMAIN services' = 1..Len(services)
      BY <1>2, <3>1 DEF CancelCommit
    <3>4. services' \in Seq(ServiceRow)
      BY <1>2, <3>1, <3>2, <3>3 DEF CancelCommit
    <3>5. ServicesKept
      BY <1>2, <3>1 DEF CancelCommit, ServicesKept, ServiceRow
    <3>6. QED BY <3>4, <3>5
  <2>4. BillsKept
    BY <1>2 DEF CancelCommit, BillsKept, TypeInv
  <2>5. req' \in [Request -> Locals] /\ \A s \in Request : LocalOK(req'[s])
    BY <1>2, LocalStep, IdleOK DEF CancelCommit
  <2>6. QED BY <1>2, <2>2, <2>3, <2>4, <2>5 DEF CancelCommit, Keeps, TypeInv
<1>3. QED BY <1>1, <1>2


(* A handler that inserts an invoice, and services and an enrollment's     *)
(* link with it.                                                           *)
LEMMA InsertKeeps ==
  ASSUME TypeInv, NEW r \in Request, NEW q, LocalOK(q), Goto(r, q),
         NEW row \in BillRow, invoices' = Append(invoices, row),
         services' \in Seq(ServiceRow), ServicesKept,
         \/ UNCHANGED enrollments
         \/ \E e \in Enrollment :
              enrollments' = [enrollments EXCEPT ![e].status = "approved",
                                                 ![e].invoice = Len(invoices) + 1],
         UNCHANGED today
  PROVE  Keeps
<1>1. req' \in [Request -> Locals] /\ \A s \in Request : LocalOK(req'[s])
  BY LocalStep
<1>2. invoices' \in Seq(BillRow) /\ BillsKept /\ Len(invoices') = Len(invoices) + 1
  BY BillAppended
<1>3. EnrollmentsOK'
  <2>1. /\ enrollments \in [Enrollment -> EnrollmentRow]
        /\ \A e \in Enrollment : /\ enrollments[e].invoice \in Nat
                                 /\ enrollments[e].invoice <= Len(invoices)
        /\ Len(invoices) \in Nat
    BY DEF TypeInv, EnrollmentsOK, EnrollmentRow
  <2>2. CASE UNCHANGED enrollments
    BY <1>2, <2>1, <2>2 DEF EnrollmentsOK
  <2>3. ASSUME NEW e \in Enrollment,
               enrollments' = [enrollments EXCEPT ![e].status = "approved",
                                                  ![e].invoice = Len(invoices) + 1]
        PROVE  EnrollmentsOK'
    <3>1. enrollments' \in [Enrollment -> EnrollmentRow]
      BY <2>1, <2>3, Columns DEF EnrollmentRow
    <3>2. \A f \in Enrollment : enrollments'[f].invoice \in
                                  {enrollments[f].invoice, Len(invoices) + 1}
      BY <2>1, <2>3 DEF EnrollmentRow
    <3>3. QED BY <1>2, <2>1, <3>1, <3>2 DEF EnrollmentsOK
  <2>4. QED BY <2>2, <2>3
<1>4. QED BY <1>1, <1>2, <1>3 DEF Keeps, TypeInv

LEMMA ConfirmKeeps ==
  ASSUME TypeInv, NEW r \in Request,
         ConfirmCommit(r) \/ \E e \in Enrollment : ConfirmRead(r, e)
  PROVE  Keeps
<1>1. ASSUME NEW e \in Enrollment, ConfirmRead(r, e)
      PROVE  Keeps
  <2>1. PICK items \in SUBSET Item :
          Goto(r, [Idle EXCEPT !.pc = "confirmCommit", !.enr = e, !.items = items])
    BY <1>1, ItemAssumption DEF ConfirmRead
  <2>2. LocalOK([Idle EXCEPT !.pc = "confirmCommit", !.enr = e, !.items = items])
    BY IdleOK, Columns DEF LocalOK, Locals, OnEnrollment
  <2>3. QED BY <1>1, <2>1, <2>2, ReadKeeps DEF ConfirmRead
<1>2. CASE ConfirmCommit(r)
  <2>1. /\ req[r].enr \in Enrollment /\ req[r].items \in SUBSET Item
        /\ today \in Months
    BY <1>2, AtRequest DEF ConfirmCommit, At, LocalOK, OnEnrollment, Locals, TypeInv
  <2> DEFINE row == InvoiceRow(req[r].enr, "enrollment", today, req[r].items, "confirm")
  <2>2. row \in BillRow
    BY <2>1 DEF BillRow, InvoiceRow
  <2>3. CASE Exists(req[r].enr)
    <3>1. invoices' = Append(invoices, row)
      BY <1>2, <2>3 DEF ConfirmCommit
    <3>2. services' \in Seq(ServiceRow) /\ ServicesKept
      BY <1>2, <2>1, <2>3, ServicesAdded DEF ConfirmCommit
    <3>3. enrollments' = [enrollments EXCEPT ![req[r].enr].status = "approved",
                                       ![req[r].enr].invoice = Len(invoices) + 1]
      BY <1>2, <2>3 DEF ConfirmCommit
    <3>4. Goto(r, Idle) /\ UNCHANGED today
      BY <1>2 DEF ConfirmCommit
    <3> HIDE DEF row
    <3>5. QED BY <2>1, <2>2, <3>1, <3>2, <3>3, <3>4, IdleOK, InsertKeeps
  <2>4. CASE ~ Exists(req[r].enr)
    BY <1>2, <2>4, IdleOK, ReadKeeps DEF ConfirmCommit
  <2>5. QED BY <2>3, <2>4
<1>3. QED BY <1>1, <1>2

LEMMA AddServiceKeeps ==
  ASSUME TypeInv, NEW r \in Request,
         AddRead(r) \/ AddResolve(r) \/ AddCommit(r)
  PROVE  Keeps
<1>1. CASE AddRead(r)
  <2>1. PICK items \in SUBSET Item, from \in Months :
          Goto(r, [Idle EXCEPT !.pc = "addResolve", !.items = items, !.month = from])
    BY <1>1 DEF AddRead
  <2>2. LocalOK([Idle EXCEPT !.pc = "addResolve", !.items = items, !.month = from])
    BY IdleOK, Columns DEF LocalOK, Locals, OnEnrollment
  <2>3. QED BY <1>1, <2>1, <2>2, ReadKeeps DEF AddRead
<1>2. CASE AddResolve(r)
  <2>1. CASE Approved = {}
    BY <1>2, <2>1, IdleOK, ReadKeeps DEF AddResolve
  <2>2. CASE Approved # {}
    <3>1. Latest \in Enrollment /\ req[r] \in Locals
      BY <2>2, LatestApproved, AtRequest DEF Approved
    <3>2. LocalOK([req[r] EXCEPT !.pc = "addCommit", !.enr = Latest])
      BY <3>1, Columns DEF LocalOK, Locals, OnEnrollment
    <3>3. QED BY <1>2, <2>2, <3>2, ReadKeeps DEF AddResolve
  <2>3. QED BY <2>1, <2>2
<1>3. CASE AddCommit(r)
  <2> DEFINE source == IF req[r].items \cap Recurring # {} THEN "recurring" ELSE "ad_hoc"
             row == InvoiceRow(req[r].enr, source, today, req[r].items, "addService")
  <2>1. row \in BillRow /\ req[r].items \in SUBSET Item /\ req[r].month \in Months
    BY <1>3, AtRequest
      DEF AddCommit, At, LocalOK, OnEnrollment, Locals, TypeInv, BillRow, InvoiceRow
  <2>2. invoices' = Append(invoices, row)
    BY <1>3 DEF AddCommit
  <2>3. services' \in Seq(ServiceRow) /\ ServicesKept
    BY <1>3, <2>1, ServicesAdded DEF AddCommit
  <2>4. Goto(r, Idle) /\ UNCHANGED <<today, enrollments>>
    BY <1>3 DEF AddCommit
  <2> HIDE DEF row
  <2>5. QED BY <2>1, <2>2, <2>3, <2>4, IdleOK, InsertKeeps
<1>4. QED BY <1>1, <1>2, <1>3

(* What the loop of a monthly run leaves behind after an enrollment.       *)
LEMMA RunNextOK ==
  ASSUME TypeInv, NEW r \in Request, NEW todo \in SUBSET Enrollment
  PROVE  LocalOK(RunNext(r, todo))
<1>1. CASE todo = {}
  BY <1>1, IdleOK DEF RunNext
<1>2. CASE todo # {}
  <2>1. RunNext(r, todo) = [req[r] EXCEPT !.pc = "runCheck", !.enr = NoEnrollment,
                                          !.items = {}, !.todo = todo]
    BY <1>2 DEF RunNext
  <2>2. req[r] \in Locals
    BY AtRequest
  <2>3. QED BY <2>1, <2>2, Columns DEF LocalOK, Locals, OnEnrollment
<1>3. QED BY <1>1, <1>2

LEMMA RunKeeps ==
  ASSUME TypeInv, NEW r \in Request,
         \/ \E m \in Months : RunStart(r, m)
         \/ RunCheck(r) \/ RunServices(r) \/ RunInsert(r)
  PROVE  Keeps
<1>0. req[r] \in Locals /\ req[r].todo \subseteq Enrollment
  BY AtRequest DEF Locals
<1>1. ASSUME NEW m \in Months, RunStart(r, m)
      PROVE  Keeps
  <2>1. PICK todo \in {Approved} \cup {{e} : e \in Approved} :
          Goto(r, [Idle EXCEPT !.pc = "runCheck", !.month = m, !.todo = todo])
    BY <1>1 DEF RunStart
  <2>2. todo \in SUBSET Enrollment
    BY <2>1 DEF Approved
  <2>3. LocalOK([Idle EXCEPT !.pc = "runCheck", !.month = m, !.todo = todo])
    BY <2>2, IdleOK, Columns DEF LocalOK, Locals, OnEnrollment
  <2>4. QED BY <1>1, <2>1, <2>3, ReadKeeps DEF RunStart
<1>2. CASE RunCheck(r)
  <2>1. PICK e \in req[r].todo :
          \/ Goto(r, RunNext(r, req[r].todo \ {e}))
          \/ Goto(r, [req[r] EXCEPT !.pc = "runServices", !.enr = e])
    BY <1>2 DEF RunCheck
  <2>2. LocalOK([req[r] EXCEPT !.pc = "runServices", !.enr = e])
    BY <1>0, Columns DEF LocalOK, Locals, OnEnrollment
  <2>3. LocalOK(RunNext(r, req[r].todo \ {e}))
    BY <1>0, RunNextOK
  <2>4. QED BY <1>2, <2>1, <2>2, <2>3, ReadKeeps DEF RunCheck
<1>3. CASE RunServices(r)
  <2>1. req[r].enr \in Enrollment
    BY <1>3, AtRequest DEF RunServices, At, LocalOK, OnEnrollment
  <2> DEFINE items == Billable(req[r].month)
  <2>2. items \in SUBSET Item
    BY ItemAssumption DEF Billable
  <2>3. LocalOK([req[r] EXCEPT !.pc = "runInsert", !.items = items])
    <3> HIDE DEF items
    <3>1. QED BY <1>0, <2>1, <2>2, Columns DEF LocalOK, Locals, OnEnrollment
  <2>4. LocalOK(RunNext(r, req[r].todo \ {req[r].enr}))
    BY <1>0, RunNextOK
  <2>5. \/ Goto(r, RunNext(r, req[r].todo \ {req[r].enr}))
        \/ Goto(r, [req[r] EXCEPT !.pc = "runInsert", !.items = items])
    BY <1>3 DEF RunServices
  <2>6. QED BY <1>3, <2>3, <2>4, <2>5, ReadKeeps DEF RunServices
<1>4. CASE RunInsert(r)
  <2> DEFINE row == InvoiceRow(req[r].enr, "recurring", req[r].month, req[r].items, "run")
  <2>1. req[r].enr \in Enrollment
    BY <1>4, AtRequest DEF RunInsert, At, LocalOK, OnEnrollment
  <2>2. row \in BillRow
    BY <1>0, <2>1 DEF BillRow, InvoiceRow, Locals
  <2>3. LocalOK(RunNext(r, req[r].todo \ {req[r].enr}))
    BY <1>0, RunNextOK
  <2>4. invoices' = Append(invoices, row)
    BY <1>4 DEF RunInsert
  <2>5. services' \in Seq(ServiceRow) /\ ServicesKept
    BY <1>4 DEF RunInsert, TypeInv, ServicesKept
  <2> HIDE DEF row
  <2>6. QED BY <1>4, <2>2, <2>3, <2>4, <2>5, InsertKeeps DEF RunInsert
<1>5. QED BY <1>1, <1>2, <1>3, <1>4

LEMMA OthersKeep ==
  ASSUME TypeInv,
         \/ \E e \in Enrollment : CreateEnrollment(e)
         \/ \E k \in DOMAIN services : RemoveService(k)
         \/ NextMonth
         \/ UNCHANGED vars
  PROVE  Keeps
<1>1. BillsKept
  BY DEF BillsKept, TypeInv, CreateEnrollment, RemoveService, NextMonth, vars
<1>2. ASSUME NEW e \in Enrollment, CreateEnrollment(e)
      PROVE  Keeps
  <2>1. EnrollmentsOK'
    BY <1>2, Columns, OneFieldKeeps DEF CreateEnrollment, TypeInv
  <2>2. QED BY <1>1, <1>2, <2>1 DEF CreateEnrollment, Keeps, TypeInv, ServicesKept
<1>3. ASSUME NEW k \in DOMAIN services, RemoveService(k)
      PROVE  Keeps
  <2>1. services \in Seq(ServiceRow) /\ today \in Months
    BY DEF TypeInv
  <2>2. services' = [services EXCEPT ![k].to = today]
    BY <1>3 DEF RemoveService
  <2>3. services[k] \in ServiceRow /\ [services[k] EXCEPT !.to = today] \in ServiceRow
    <3>1. services[k] \in ServiceRow
      BY <2>1
    <3> DEFINE s == services[k]
    <3>2. s \in ServiceRow
      BY <3>1
    <3> HIDE DEF s
    <3>3. [s EXCEPT !.to = today] \in ServiceRow
      BY <2>1, <3>2 DEF ServiceRow
    <3>4. QED BY <3>1, <3>3 DEF s
  <2>4. services' \in Seq(ServiceRow)
    <3> DEFINE row == [services[k] EXCEPT !.to = today]
    <3>1. services' = [services EXCEPT ![k] = row] /\ row \in ServiceRow
      BY <2>2, <2>3
    <3> HIDE DEF row
    <3>2. QED BY <2>1, <3>1
  <2>5. ServicesKept
    BY <2>1, <2>2 DEF ServicesKept, ServiceRow
  <2>6. QED BY <1>1, <1>3, <2>4, <2>5 DEF RemoveService, Keeps, TypeInv, EnrollmentsOK
<1>4. CASE NextMonth
  <2>1. today' \in Months
    BY <1>4, BoundAssumption DEF NextMonth, Months, TypeInv
  <2>2. QED BY <1>1, <1>4, <2>1 DEF NextMonth, Keeps, TypeInv, EnrollmentsOK, ServicesKept
<1>5. CASE UNCHANGED vars
  BY <1>1, <1>5 DEF vars, Keeps, TypeInv, EnrollmentsOK, ServicesKept
<1>6. QED BY <1>2, <1>3, <1>4, <1>5

LEMMA NextKeeps ==
  ASSUME TypeInv, [Next]_vars
  PROVE  Keeps
<1>1. ASSUME NEW r \in Request, ServeEnrollment(r)
      PROVE  Keeps
  BY <1>1, UpdateKeeps, DeleteKeeps, ConfirmKeeps, CancelKeeps DEF ServeEnrollment
<1>2. ASSUME NEW r \in Request, ServeBilling(r)
      PROVE  Keeps
  BY <1>2, AddServiceKeeps, RunKeeps DEF ServeBilling
<1>3. ASSUME NEW r \in Request, Refuse(r)
      PROVE  Keeps
  BY <1>3, OthersKeep DEF Refuse
<1>4. ASSUME NEW r \in Request, Fail(r)
      PROVE  Keeps
  BY <1>4, IdleOK, ReadKeeps DEF Fail
<1>5. QED BY <1>1, <1>2, <1>3, <1>4, OthersKeep DEF Next

LEMMA InitType == Init => TypeInv
<1> SUFFICES ASSUME Init PROVE TypeInv
  OBVIOUS
<1>1. today \in Months /\ services \in Seq(ServiceRow) /\ invoices \in Seq(BillRow)
  BY Columns DEF Init
<1>2. EnrollmentsOK
  BY DEF Init, EnrollmentsOK, EnrollmentRow, Statuses
<1>3. req \in [Request -> Locals] /\ \A r \in Request : LocalOK(req[r])
  BY IdleOK DEF Init, LocalOK
<1>4. QED BY <1>1, <1>2, <1>3 DEF TypeInv

LEMMA TypeInvariant == Spec => []TypeInv
<1>1. TypeInv /\ [Next]_vars => TypeInv'
  BY NextKeeps DEF Keeps
<1>2. QED BY InitType, <1>1, PTL DEF Spec

(* Every variable keeps its type, for any fee items and enrollments and    *)
(* any number of handlers and jobs in flight.                              *)
THEOREM TypeCorrect == Spec => []TypeOK
<1>1. TypeInv => TypeOK
  BY TypeInvImpliesTypeOK
<1>2. QED BY TypeInvariant, <1>1, PTL


-----------------------------------------------------------------------------
(* The links between enrollments and invoices.  What a run or an added     *)
(* service is for are enrollments that were approved when read; those have *)
(* an invoice for good, and the foreign key keeps an enrollment that has   *)
(* one.                                                                    *)

Billed == {invoices[k].enrollment : k \in DOMAIN invoices}

Existing == {e \in Enrollment : Exists(e)}

RunLocal(q, billed) ==
  /\ q.todo \subseteq billed
  /\ q.pc \in {"addCommit", "runServices", "runInsert"} => q.enr \in billed

LinkInv ==
  /\ TypeInv
  /\ InvoiceLinks
  /\ \A r \in Request : RunLocal(req[r], Billed)

LEMMA BilledGrows ==
  ASSUME BillsKept
  PROVE  Billed \subseteq Billed'
<1>1. ASSUME NEW k \in DOMAIN invoices
      PROVE  invoices[k].enrollment \in Billed'
  <2>1. k \in DOMAIN invoices' /\ invoices'[k] = invoices[k]
    BY DEF BillsKept
  <2>2. QED BY <2>1 DEF Billed
<1>2. QED BY <1>1 DEF Billed

LEMMA ApprovedIsBilled ==
  ASSUME TypeInv, InvoiceLinks, NEW e \in Approved
  PROVE  e \in Billed /\ Exists(e)
<1>1. enrollments[e].status = "approved" /\ e \in Enrollment
  BY DEF Approved
<1>2. /\ enrollments[e].invoice \in DOMAIN invoices
      /\ invoices[enrollments[e].invoice].enrollment = e
  BY <1>1 DEF InvoiceLinks
<1>3. QED BY <1>1, <1>2 DEF Billed, Exists

(* The links of the old rows hold as long as an enrollment that has been   *)
(* billed or confirmed stays in place.                                     *)
LEMMA LinksStay ==
  ASSUME TypeInv, InvoiceLinks, BillsKept,
         \A k \in DOMAIN invoices' \ DOMAIN invoices : invoices'[k].enrollment \in Existing',
         \A e \in Enrollment :
           /\ enrollments'[e].status = "approved" => enrollments'[e].invoice # 0
           /\ \/ enrollments'[e].invoice = enrollments[e].invoice
              \/ /\ enrollments'[e].invoice \in DOMAIN invoices'
                 /\ invoices'[enrollments'[e].invoice].enrollment = e
                 /\ invoices'[enrollments'[e].invoice].source = "enrollment"
           /\ e \in Billed \cap Existing => e \in Existing'
  PROVE  InvoiceLinks'
<1>1. ASSUME NEW e \in Enrollment, enrollments'[e].invoice # 0
      PROVE  /\ enrollments'[e].invoice \in DOMAIN invoices'
             /\ invoices'[enrollments'[e].invoice].enrollment = e
             /\ invoices'[enrollments'[e].invoice].source = "enrollment"
  <2>1. CASE enrollments'[e].invoice = enrollments[e].invoice
    <3>1. /\ enrollments[e].invoice \in DOMAIN invoices
          /\ invoices[enrollments[e].invoice].enrollment = e
          /\ invoices[enrollments[e].invoice].source = "enrollment"
      BY <1>1, <2>1 DEF InvoiceLinks
    <3>2. QED BY <2>1, <3>1 DEF BillsKept
  <2>2. QED BY <2>1
<1>2. ASSUME NEW k \in DOMAIN invoices
      PROVE  invoices'[k].enrollment \in Existing'
  <2>1. invoices[k] \in BillRow
    BY DEF TypeInv
  <2>2. invoices[k].enrollment \in Enrollment \cap (Billed \cap Existing)
    BY <2>1 DEF BillRow, Billed, InvoiceLinks, Existing
  <2>3. invoices'[k].enrollment = invoices[k].enrollment
    BY DEF BillsKept
  <2>4. QED BY <2>2, <2>3
<1>3. \A k \in DOMAIN invoices' : invoices'[k].enrollment \in Existing'
  BY <1>2
<1>4. QED BY <1>1, <1>3 DEF InvoiceLinks, Existing

(* A row is appended, for an enrollment that is there, and the enrollments *)
(* stay as they are.                                                       *)
LEMMA AppendKeepsLinks ==
  ASSUME TypeInv, InvoiceLinks, NEW row \in BillRow, invoices' = Append(invoices, row),
         UNCHANGED enrollments, row.enrollment \in Existing
  PROVE  InvoiceLinks'
<1>1. /\ BillsKept
      /\ \A k \in DOMAIN invoices' \ DOMAIN invoices : invoices'[k] = row
  BY BillAppended
<1>2. \A e \in Enrollment : enrollments[e].status = "approved" => enrollments[e].invoice # 0
  BY DEF InvoiceLinks
<1>3. QED BY <1>1, <1>2, LinksStay DEF Exists, Existing

(* No invoice is inserted, and of the enrollments one status changes,      *)
(* neither to approved nor from an enrollment that has been billed to      *)
(* deleted.                                                                *)
LEMMA StatusKeepsLinks ==
  ASSUME TypeInv, InvoiceLinks, UNCHANGED invoices, NEW e \in Enrollment,
         \/ \E s \in {"draft", "other"} :
              enrollments' = [enrollments EXCEPT ![e].status = s]
         \/ e \notin Billed /\ enrollments' = [enrollments EXCEPT ![e].status = "deleted"]
         \/ enrollments' = [enrollments EXCEPT ![e].cancelled = TRUE]
         \/ UNCHANGED enrollments
  PROVE  InvoiceLinks'
<1>1. BillsKept
  BY DEF BillsKept, TypeInv
<1>2. enrollments \in [Enrollment -> EnrollmentRow]
  BY DEF TypeInv, EnrollmentsOK
<1>3. ASSUME NEW f \in Enrollment
      PROVE  /\ enrollments'[f].invoice = enrollments[f].invoice
             /\ enrollments'[f].status \in {enrollments[f].status, "draft", "other"}
                \/ (f = e /\ e \notin Billed /\ enrollments'[f].status = "deleted")
  BY <1>2 DEF EnrollmentRow
<1>4. \A f \in Enrollment : enrollments[f].status = "approved" => enrollments[f].invoice # 0
  BY DEF InvoiceLinks
<1>5. QED BY <1>1, <1>3, <1>4, LinksStay DEF Exists, Existing

LEMMA ServeEnrollmentKeepsLinks ==
  ASSUME LinkInv, NEW r \in Request, ServeEnrollment(r)
  PROVE  InvoiceLinks'
<1>0. TypeInv /\ InvoiceLinks
  BY DEF LinkInv
<1>1. ASSUME UNCHANGED <<enrollments, invoices>>
      PROVE  InvoiceLinks'
  BY <1>1, <1>0 DEF InvoiceLinks, Exists
<1>2. CASE UpdateWrite(r)
  <2>1. req[r].enr \in Enrollment /\ req[r].status \in {"draft", "other"}
    BY <1>0, <1>2, AtRequest DEF UpdateWrite, At, LocalOK, OnEnrollment
  <2>2. QED BY <1>0, <1>2, <2>1, StatusKeepsLinks DEF UpdateWrite
<1>3. CASE DeleteWrite(r)
  <2>1. req[r].enr \in Enrollment
    BY <1>0, <1>3, AtRequest DEF DeleteWrite, At, LocalOK, OnEnrollment
  <2>2. QED BY <1>0, <1>3, <2>1, StatusKeepsLinks DEF DeleteWrite, Billed
<1>4. CASE CancelCommit(r)
  <2>1. req[r].enr \in Enrollment
    BY <1>0, <1>4, AtRequest DEF CancelCommit, At, LocalOK, OnEnrollment
  <2>2. QED BY <1>0, <1>4, <2>1, StatusKeepsLinks DEF CancelCommit
<1>5. CASE ConfirmCommit(r)
  <2> DEFINE e == req[r].enr
             row == InvoiceRow(e, "enrollment", today, req[r].items, "confirm")
             n == Len(invoices) + 1
  <2>1. CASE ~ Exists(e)
    BY <1>1, <1>5, <2>1 DEF ConfirmCommit
  <2>2. CASE Exists(e)
    <3>1. /\ invoices' = Append(invoices, row)
          /\ enrollments' = [enrollments EXCEPT ![e].status = "approved", ![e].invoice = n]
      BY <1>5, <2>2 DEF ConfirmCommit
    <3>2. /\ e \in Enrollment /\ row \in BillRow
          /\ row.enrollment = e /\ row.source = "enrollment"
      BY <1>0, <1>5, AtRequest
        DEF ConfirmCommit, At, LocalOK, OnEnrollment, Locals, TypeInv, BillRow, InvoiceRow
    <3> HIDE DEF row
    <3>3. /\ BillsKept /\ n \in DOMAIN invoices' /\ invoices'[n] = row
          /\ \A k \in DOMAIN invoices' \ DOMAIN invoices : invoices'[k] = row
          /\ n # 0
      BY <1>0, <3>1, <3>2, BillAppended DEF TypeInv
    <3> HIDE DEF n
    <3>4. enrollments \in [Enrollment -> EnrollmentRow]
      BY <1>0 DEF TypeInv, EnrollmentsOK
    <3>5. ASSUME NEW f \in Enrollment
          PROVE  IF f = e
                 THEN enrollments'[f].status = "approved" /\ enrollments'[f].invoice = n
                 ELSE enrollments'[f] = enrollments[f]
      BY <3>1, <3>4 DEF EnrollmentRow
    <3>6. \A f \in Enrollment :
            enrollments[f].status = "approved" => enrollments[f].invoice # 0
      BY <1>0 DEF InvoiceLinks
    <3> HIDE DEF e
    <3>7. QED BY <1>0, <3>2, <3>3, <3>5, <3>6, LinksStay DEF Exists, Existing
  <2>3. QED BY <2>1, <2>2
<1>6. QED
  BY <1>1, <1>2, <1>3, <1>4, <1>5
    DEF ServeEnrollment, UpdateRead, DeleteRead, ConfirmRead, CancelRead


LEMMA ServeBillingKeepsLinks ==
  ASSUME LinkInv, NEW r \in Request, ServeBilling(r)
  PROVE  InvoiceLinks'
<1>0. TypeInv /\ InvoiceLinks /\ RunLocal(req[r], Billed)
  BY DEF LinkInv
<1>1. ASSUME UNCHANGED <<enrollments, invoices>>
      PROVE  InvoiceLinks'
  BY <1>1, <1>0 DEF InvoiceLinks, Exists
<1>2. CASE AddCommit(r)
  <2> DEFINE source == IF req[r].items \cap Recurring # {} THEN "recurring" ELSE "ad_hoc"
             row == InvoiceRow(req[r].enr, source, today, req[r].items, "addService")
  <2>1. req[r].enr \in Enrollment /\ req[r].enr \in Billed
    BY <1>0, <1>2, AtRequest DEF AddCommit, At, LocalOK, OnEnrollment, RunLocal
  <2>2. PICK k \in DOMAIN invoices : invoices[k].enrollment = req[r].enr
    BY <2>1 DEF Billed
  <2>3. Exists(req[r].enr)
    BY <1>0, <2>2 DEF InvoiceLinks
  <2>4. row \in BillRow /\ row.enrollment \in Existing
    BY <1>0, <2>1, <2>3, AtRequest DEF BillRow, InvoiceRow, Locals, Existing, TypeInv
  <2>5. invoices' = Append(invoices, row) /\ UNCHANGED enrollments
    BY <1>2 DEF AddCommit
  <2> HIDE DEF row
  <2>6. QED BY <1>0, <2>4, <2>5, AppendKeepsLinks
<1>3. CASE RunInsert(r)
  <2> DEFINE row == InvoiceRow(req[r].enr, "recurring", req[r].month, req[r].items, "run")
  <2>1. req[r].enr \in Enrollment /\ req[r].enr \in Billed
    BY <1>0, <1>3, AtRequest DEF RunInsert, At, LocalOK, OnEnrollment, RunLocal
  <2>2. PICK k \in DOMAIN invoices : invoices[k].enrollment = req[r].enr
    BY <2>1 DEF Billed
  <2>3. Exists(req[r].enr)
    BY <1>0, <2>2 DEF InvoiceLinks
  <2>4. row \in BillRow /\ row.enrollment \in Existing
    BY <1>0, <2>1, <2>3, AtRequest DEF BillRow, InvoiceRow, Locals, Existing
  <2>5. invoices' = Append(invoices, row) /\ UNCHANGED enrollments
    BY <1>3 DEF RunInsert
  <2> HIDE DEF row
  <2>6. QED BY <1>0, <2>4, <2>5, AppendKeepsLinks
<1>4. QED
  BY <1>1, <1>2, <1>3
    DEF ServeBilling, AddRead, AddResolve, RunStart, RunCheck, RunServices

(* A step of one handler leaves the others' locals alone.                  *)
LEMMA GotoOthers ==
  ASSUME TypeInv, NEW r \in Request, NEW q, Goto(r, q), NEW s \in Request
  PROVE  req'[s] = IF s = r THEN q ELSE req[s]
  BY DEF TypeInv, Goto

(* A handler starts over, or at a step of an operation other than a run.   *)
LEMMA GotoKeepsRuns ==
  ASSUME TypeInv, BillsKept, \A s \in Request : RunLocal(req[s], Billed),
         NEW r \in Request, NEW q, RunLocal(q, Billed'), Goto(r, q)
  PROVE  \A s \in Request : RunLocal(req'[s], Billed')
<1>1. ASSUME NEW s \in Request
      PROVE  RunLocal(req[s], Billed) /\ (req'[s] = IF s = r THEN q ELSE req[s])
  BY GotoOthers
<1>2. QED BY <1>1, BilledGrows DEF RunLocal


LEMMA NextKeepsRuns ==
  ASSUME LinkInv, Next
  PROVE  \A s \in Request : RunLocal(req'[s], Billed')
<1>0. /\ TypeInv /\ InvoiceLinks
      /\ BillsKept /\ Billed \subseteq Billed'
      /\ \A s \in Request : RunLocal(req[s], Billed)
  BY NextKeeps, BilledGrows DEF LinkInv, Keeps
<1>1. CASE UNCHANGED req
  BY <1>0, <1>1 DEF RunLocal
<1>2. ASSUME NEW r \in Request, NEW q, Goto(r, q), q.todo = {},
             q.pc \notin {"addCommit", "runServices", "runInsert"}
      PROVE  \A s \in Request : RunLocal(req'[s], Billed')
  BY <1>0, <1>2, GotoKeepsRuns DEF RunLocal
<1>3. ASSUME NEW r \in Request, Goto(r, Idle)
      PROVE  \A s \in Request : RunLocal(req'[s], Billed')
  BY <1>2, <1>3 DEF Idle
<1>4. ASSUME NEW r \in Request, NEW todo \in SUBSET req[r].todo,
             Goto(r, RunNext(r, todo))
      PROVE  \A s \in Request : RunLocal(req'[s], Billed')
  <2>1. CASE todo = {}
    BY <1>3, <1>4, <2>1 DEF RunNext
  <2>2. CASE todo # {}
    <3>1. RunNext(r, todo) = [req[r] EXCEPT !.pc = "runCheck", !.enr = NoEnrollment,
                                            !.items = {}, !.todo = todo]
      BY <2>2 DEF RunNext
    <3>2. req[r] \in Locals /\ todo \subseteq Billed'
      BY <1>0, AtRequest DEF RunLocal
    <3>3. RunLocal(RunNext(r, todo), Billed')
      BY <3>1, <3>2 DEF RunLocal, Locals
    <3>4. QED BY <1>0, <1>4, <3>3, GotoKeepsRuns
  <2>3. QED BY <2>1, <2>2
<1>5. ASSUME NEW r \in Request, ServeEnrollment(r)
      PROVE  \A s \in Request : RunLocal(req'[s], Billed')
  <2>1. CASE \E e \in Enrollment : UpdateRead(r, e)
    BY <1>2, <2>1 DEF UpdateRead, Idle
  <2>2. CASE \E e \in Enrollment : DeleteRead(r, e)
    BY <1>2, <2>2 DEF DeleteRead, Idle
  <2>3. CASE \E e \in Enrollment : ConfirmRead(r, e)
    BY <1>2, <2>3 DEF ConfirmRead, Idle
  <2>4. CASE \E e \in Enrollment : CancelRead(r, e)
    BY <1>2, <2>4 DEF CancelRead, Idle
  <2>5. QED BY <1>3, <1>5, <2>1, <2>2, <2>3, <2>4
              DEF ServeEnrollment, UpdateWrite, DeleteWrite, ConfirmCommit, CancelCommit
<1>6. ASSUME NEW r \in Request, ServeBilling(r)
      PROVE  \A s \in Request : RunLocal(req'[s], Billed')
  <2>0. req[r] \in Locals /\ RunLocal(req[r], Billed)
    BY <1>0, AtRequest
  <2>1. CASE AddRead(r)
    BY <1>2, <2>1 DEF AddRead, Idle
  <2>2. CASE AddResolve(r)
    <3>1. PICK q : q = [req[r] EXCEPT !.pc = "addCommit", !.enr = Latest]
      OBVIOUS
    <3>2. Goto(r, Idle) \/ (Approved # {} /\ Goto(r, q))
      BY <2>2, <3>1 DEF AddResolve
    <3>3. CASE Approved # {} /\ Goto(r, q)
      <4>1. Latest \in Billed
        BY <1>0, <3>3, LatestApproved, ApprovedIsBilled
      <4>2. RunLocal(q, Billed')
        BY <1>0, <2>0, <3>1, <4>1 DEF RunLocal, Locals
      <4>3. QED BY <1>0, <3>3, <4>2, GotoKeepsRuns
    <3>4. QED BY <1>3, <3>2, <3>3
  <2>3. CASE AddCommit(r)
    BY <1>3, <2>3 DEF AddCommit
  <2>4. ASSUME NEW m \in Months, RunStart(r, m)
        PROVE  \A s \in Request : RunLocal(req'[s], Billed')
    <3>1. PICK todo \in {Approved} \cup {{e} : e \in Approved} :
            Goto(r, [Idle EXCEPT !.pc = "runCheck", !.month = m, !.todo = todo])
      BY <2>4 DEF RunStart
    <3>2. todo \subseteq Billed
      BY <1>0, <3>1, ApprovedIsBilled
    <3>3. RunLocal([Idle EXCEPT !.pc = "runCheck", !.month = m, !.todo = todo], Billed')
      BY <1>0, <3>2 DEF RunLocal, Idle
    <3>4. QED BY <1>0, <3>1, <3>3, GotoKeepsRuns
  <2>5. CASE RunCheck(r)
    <3>1. PICK e \in req[r].todo :
            \/ Goto(r, RunNext(r, req[r].todo \ {e}))
            \/ Goto(r, [req[r] EXCEPT !.pc = "runServices", !.enr = e])
      BY <2>5 DEF RunCheck
    <3>2. RunLocal([req[r] EXCEPT !.pc = "runServices", !.enr = e], Billed')
      BY <1>0, <2>0, <3>1 DEF RunLocal, Locals
    <3>3. QED BY <1>0, <1>4, <3>1, <3>2, GotoKeepsRuns
  <2>6. CASE RunServices(r)
    <3> DEFINE items == Billable(req[r].month)
    <3>1. \/ Goto(r, RunNext(r, req[r].todo \ {req[r].enr}))
          \/ Goto(r, [req[r] EXCEPT !.pc = "runInsert", !.items = items])
      BY <2>6 DEF RunServices
    <3>2. RunLocal([req[r] EXCEPT !.pc = "runInsert", !.items = items], Billed')
      BY <1>0, <2>0, <2>6 DEF RunLocal, Locals, RunServices, At
    <3>3. QED BY <1>0, <1>4, <3>1, <3>2, GotoKeepsRuns
  <2>7. CASE RunInsert(r)
    BY <1>4, <2>7 DEF RunInsert
  <2>8. QED BY <1>6, <2>1, <2>2, <2>3, <2>4, <2>5, <2>6, <2>7 DEF ServeBilling
<1>7. QED
  BY <1>1, <1>3, <1>5, <1>6
    DEF Next, CreateEnrollment, RemoveService, NextMonth, Refuse, Fail, vars

LEMMA NextKeepsLinks ==
  ASSUME LinkInv, [Next]_vars
  PROVE  LinkInv'
<1>0. TypeInv /\ InvoiceLinks
  BY DEF LinkInv
<1>1. TypeInv'
  BY <1>0, NextKeeps DEF Keeps
<1>2. CASE UNCHANGED vars
  <2>1. InvoiceLinks'
    BY <1>0, <1>2 DEF vars, InvoiceLinks, Exists
  <2>2. \A s \in Request : RunLocal(req'[s], Billed')
    BY <1>2 DEF vars, LinkInv, Billed
  <2>3. QED BY <1>1, <2>1, <2>2 DEF LinkInv
<1>3. CASE Next
  <2>1. InvoiceLinks'
    <3>1. ASSUME UNCHANGED <<enrollments, invoices>>
          PROVE  InvoiceLinks'
      BY <3>1, <1>0 DEF InvoiceLinks, Exists
    <3>2. ASSUME NEW e \in Enrollment, CreateEnrollment(e)
          PROVE  InvoiceLinks'
      BY <1>0, <3>2, StatusKeepsLinks DEF CreateEnrollment
    <3>3. QED
      BY <1>3, <3>1, <3>2, ServeEnrollmentKeepsLinks, ServeBillingKeepsLinks
        DEF Next, RemoveService, NextMonth, Refuse, Fail, vars
  <2>2. \A s \in Request : RunLocal(req'[s], Billed')
    BY <1>3, NextKeepsRuns
  <2>3. QED BY <1>1, <2>1, <2>2 DEF LinkInv
<1>4. QED BY <1>2, <1>3

(* An approved enrollment has its own ceremony's invoice and no invoice    *)
(* loses its enrollment, whatever handlers and jobs interleave.            *)
THEOREM LinksHold == Spec => []InvoiceLinks
<1>1. Init => LinkInv
  <2> SUFFICES ASSUME Init PROVE LinkInv
    OBVIOUS
  <2>1. InvoiceLinks
    BY DEF Init, InvoiceLinks, Exists
  <2>2. \A s \in Request : RunLocal(req[s], Billed)
    BY DEF Init, RunLocal, Idle
  <2>3. QED BY InitType, <2>1, <2>2 DEF LinkInv
<1>2. LinkInv /\ [Next]_vars => LinkInv'
  BY NextKeepsLinks
<1>3. LinkInv => InvoiceLinks
  BY DEF LinkInv
<1>4. QED BY <1>1, <1>2, <1>3, PTL DEF Spec


-----------------------------------------------------------------------------
(* What a run bills had begun: the items a job holds between reading the   *)
(* services and inserting the invoice were active in its month, and a      *)
(* service row keeps its item and its start for good.                      *)

(* Item i is a service that begins in month m at the latest.               *)
Begun(i, m) ==
  \E k \in DOMAIN services : services[k].item = i /\ services[k].from <= m

InsertLocal(q) == q.pc = "runInsert" => \A i \in q.items : Begun(i, q.month)

StartInv ==
  /\ TypeInv
  /\ BilledAfterStart
  /\ \A r \in Request : InsertLocal(req[r])

LEMMA BegunStays ==
  ASSUME ServicesKept, NEW i, NEW m, Begun(i, m)
  PROVE  Begun(i, m)'
<1>1. PICK k \in DOMAIN services : services[k].item = i /\ services[k].from <= m
  BY DEF Begun
<1>2. k \in DOMAIN services' /\ services'[k].item = i /\ services'[k].from <= m
  BY <1>1 DEF ServicesKept
<1>3. QED BY <1>2 DEF Begun

(* A handler that reaches its insert knows that its items had begun; the   *)
(* others lose nothing by its step.                                        *)
LEMMA GotoKeepsStarts ==
  ASSUME StartInv, Keeps, NEW r \in Request, NEW q, Goto(r, q),
         q.pc = "runInsert" => \A i \in q.items : Begun(i, q.month)'
  PROVE  \A s \in Request : InsertLocal(req[s])'
<1>1. ASSUME NEW s \in Request
      PROVE  /\ InsertLocal(req[s])
             /\ req'[s] = IF s = r THEN q ELSE req[s]
  BY GotoOthers DEF StartInv
<1>2. QED BY <1>1, BegunStays DEF InsertLocal, Keeps

(* An invoice is inserted by a run only with items that had begun.         *)
LEMMA AppendKeepsStarts ==
  ASSUME StartInv, Keeps, NEW row \in BillRow, invoices' = Append(invoices, row),
         row.by = "run" => \A i \in row.items : Begun(i, row.month)
  PROVE  BilledAfterStart'
<1>1. \A k \in DOMAIN invoices' \ DOMAIN invoices : invoices'[k] = row
  BY BillAppended DEF StartInv
<1>2. ASSUME NEW k \in DOMAIN invoices', invoices'[k].by = "run",
             NEW i \in invoices'[k].items, NEW m, m = invoices'[k].month
      PROVE  Begun(i, m)'
  <2>1. Begun(i, m)
    <3>1. CASE k \in DOMAIN invoices
      <4>1. invoices'[k] = invoices[k]
        BY <3>1 DEF Keeps, BillsKept
      <4>2. Begun(i, invoices[k].month)
        BY <1>2, <3>1, <4>1 DEF StartInv, BilledAfterStart, Begun
      <4>3. QED BY <1>2, <4>1, <4>2
    <3>2. CASE k \notin DOMAIN invoices
      BY <1>1, <1>2, <3>2
    <3>3. QED BY <3>1, <3>2
  <2>2. QED BY <2>1, BegunStays DEF Keeps
<1>3. QED BY <1>2 DEF BilledAfterStart, Begun

LEMMA NextKeepsStarts ==
  ASSUME StartInv, [Next]_vars
  PROVE  StartInv'
<1>0. TypeInv /\ Keeps
  BY NextKeeps DEF StartInv
<1>1. ASSUME UNCHANGED invoices
      PROVE  BilledAfterStart'
  <2>1. ASSUME NEW k \in DOMAIN invoices, invoices[k].by = "run",
               NEW i \in invoices[k].items
        PROVE  \E s \in DOMAIN services' : /\ services'[s].item = i
                                           /\ services'[s].from <= invoices[k].month
    BY <1>0, <2>1 DEF StartInv, BilledAfterStart, Keeps, ServicesKept
  <2>2. QED BY <1>1, <2>1 DEF BilledAfterStart
<1>2. ASSUME UNCHANGED req
      PROVE  \A s \in Request : InsertLocal(req[s])'
  BY <1>0, <1>2, BegunStays DEF StartInv, InsertLocal, Keeps
<1>3. ASSUME NEW r \in Request, NEW q, Goto(r, q), q.pc # "runInsert"
      PROVE  \A s \in Request : InsertLocal(req[s])'
  BY <1>0, <1>3, GotoKeepsStarts
<1>4. ASSUME NEW r \in Request, Goto(r, Idle)
      PROVE  \A s \in Request : InsertLocal(req[s])'
  BY <1>3, <1>4 DEF Idle
<1>5. ASSUME NEW r \in Request, NEW todo, Goto(r, RunNext(r, todo))
      PROVE  \A s \in Request : InsertLocal(req[s])'
  <2>1. CASE todo = {}
    BY <1>4, <1>5, <2>1 DEF RunNext
  <2>2. CASE todo # {}
    <3>1. req[r] \in Locals
      BY <1>0, AtRequest
    <3>2. RunNext(r, todo).pc = "runCheck"
      BY <2>2, <3>1 DEF RunNext, Locals
    <3>3. QED BY <1>3, <1>5, <3>2
  <2>3. QED BY <2>1, <2>2
<1>6. ASSUME NEW r \in Request, ServeEnrollment(r)
      PROVE  StartInv'
  <2>1. \A s \in Request : InsertLocal(req[s])'
    <3>1. CASE \E e \in Enrollment : UpdateRead(r, e)
      BY <1>3, <3>1 DEF UpdateRead, Idle
    <3>2. CASE \E e \in Enrollment : DeleteRead(r, e)
      BY <1>3, <3>2 DEF DeleteRead, Idle
    <3>3. CASE \E e \in Enrollment : ConfirmRead(r, e)
      BY <1>3, <3>3 DEF ConfirmRead, Idle
    <3>4. CASE \E e \in Enrollment : CancelRead(r, e)
      BY <1>3, <3>4 DEF CancelRead, Idle
    <3>5. QED BY <1>4, <1>6, <3>1, <3>2, <3>3, <3>4
                DEF ServeEnrollment, UpdateWrite, DeleteWrite, ConfirmCommit, CancelCommit
  <2>2. BilledAfterStart'
    <3>1. CASE UNCHANGED invoices
      BY <1>1, <3>1
    <3>2. CASE ConfirmCommit(r) /\ ~ UNCHANGED invoices
      <4> DEFINE row == InvoiceRow(req[r].enr, "enrollment", today, req[r].items, "confirm")
      <4>1. invoices' = Append(invoices, row)
        BY <3>2 DEF ConfirmCommit
      <4>2. row \in BillRow /\ row.by # "run"
        BY <1>0, <3>2, AtRequest
          DEF ConfirmCommit, At, LocalOK, OnEnrollment, Locals, TypeInv, BillRow, InvoiceRow
      <4> HIDE DEF row
      <4>3. QED BY <1>0, <4>1, <4>2, AppendKeepsStarts
    <3>3. QED BY <1>6, <3>1, <3>2
             DEF ServeEnrollment, UpdateRead, UpdateWrite, DeleteRead, DeleteWrite,
                 ConfirmRead, CancelRead, CancelCommit
  <2>3. QED BY <1>0, <2>1, <2>2 DEF StartInv, Keeps
<1>7. ASSUME NEW r \in Request, ServeBilling(r)
      PROVE  StartInv'
  <2>0. req[r] \in Locals /\ LocalOK(req[r]) /\ InsertLocal(req[r])
    BY <1>0, AtRequest DEF StartInv
  <2>1. \A s \in Request : InsertLocal(req[s])'
    <3>1. CASE AddRead(r) \/ AddResolve(r)
      <4>1. [req[r] EXCEPT !.pc = "addCommit", !.enr = Latest].pc # "runInsert"
        BY <2>0 DEF Locals
      <4>2. QED BY <1>3, <1>4, <3>1, <4>1 DEF AddRead, AddResolve, Idle
    <3>2. CASE \E m \in Months : RunStart(r, m)
      BY <1>3, <3>2 DEF RunStart, Idle
    <3>3. CASE RunCheck(r)
      <4>1. PICK e \in req[r].todo :
              \/ Goto(r, RunNext(r, req[r].todo \ {e}))
              \/ Goto(r, [req[r] EXCEPT !.pc = "runServices", !.enr = e])
        BY <3>3 DEF RunCheck
      <4>2. [req[r] EXCEPT !.pc = "runServices", !.enr = e].pc # "runInsert"
        BY <2>0 DEF Locals
      <4>3. QED BY <1>3, <1>5, <4>1, <4>2
    <3>4. CASE RunServices(r)
      <4>1. PICK m, items, q : /\ m = req[r].month /\ items = Billable(m)
                               /\ q = [req[r] EXCEPT !.pc = "runInsert", !.items = items]
        OBVIOUS
      <4>2. Goto(r, RunNext(r, req[r].todo \ {req[r].enr})) \/ Goto(r, q)
        BY <3>4, <4>1 DEF RunServices
      <4>3. q.items = items /\ q.month = m
        BY <2>0, <4>1 DEF Locals
      <4>4. ASSUME NEW i \in items
            PROVE  Begun(i, m)'
        <5>1. PICK k \in DOMAIN services : ActiveIn(k, m) /\ services[k].item = i
          BY <4>1, <4>4 DEF Billable
        <5>2. Begun(i, m)
          BY <5>1 DEF ActiveIn, Begun
        <5>3. QED BY <1>0, <5>2, BegunStays DEF Keeps
      <4>5. q.pc = "runInsert" => \A i \in q.items : Begun(i, q.month)'
        BY <4>3, <4>4
      <4>6. QED BY <1>0, <1>5, <4>2, <4>5, GotoKeepsStarts
    <3>5. QED BY <1>4, <1>5, <1>7, <3>1, <3>2, <3>3, <3>4
                DEF ServeBilling, AddCommit, RunInsert
  <2>2. BilledAfterStart'
    <3>1. CASE UNCHANGED invoices
      BY <1>1, <3>1
    <3>2. CASE AddCommit(r)
      <4> DEFINE source == IF req[r].items \cap Recurring # {} THEN "recurring" ELSE "ad_hoc"
                 row == InvoiceRow(req[r].enr, source, today, req[r].items, "addService")
      <4>1. invoices' = Append(invoices, row)
        BY <3>2 DEF AddCommit
      <4>2. row \in BillRow /\ row.by # "run"
        BY <1>0, <2>0, <3>2
          DEF AddCommit, At, LocalOK, OnEnrollment, Locals, TypeInv, BillRow, InvoiceRow
      <4> HIDE DEF row
      <4>3. QED BY <1>0, <4>1, <4>2, AppendKeepsStarts
    <3>3. CASE RunInsert(r)
      <4> DEFINE row == InvoiceRow(req[r].enr, "recurring", req[r].month, req[r].items, "run")
      <4>1. invoices' = Append(invoices, row)
        BY <3>3 DEF RunInsert
      <4>2. row \in BillRow
        BY <2>0, <3>3 DEF RunInsert, At, LocalOK, OnEnrollment, Locals, BillRow, InvoiceRow
      <4>3. \A i \in row.items : Begun(i, row.month)
        BY <2>0, <3>3 DEF RunInsert, At, InsertLocal, InvoiceRow
      <4> HIDE DEF row
      <4>4. QED BY <1>0, <4>1, <4>2, <4>3, AppendKeepsStarts
    <3>4. QED BY <1>7, <3>1, <3>2, <3>3
             DEF ServeBilling, AddRead, AddResolve, RunStart, RunCheck, RunServices
  <2>3. QED BY <1>0, <2>1, <2>2 DEF StartInv, Keeps
<1>8. ASSUME NEW r \in Request, Fail(r)
      PROVE  StartInv'
  BY <1>0, <1>1, <1>4, <1>8 DEF Fail, StartInv, Keeps
<1>9. ASSUME UNCHANGED <<invoices, req>>
      PROVE  StartInv'
  BY <1>0, <1>1, <1>2, <1>9 DEF StartInv, Keeps
<1>10. QED
  BY <1>6, <1>7, <1>8, <1>9
    DEF Next, CreateEnrollment, RemoveService, NextMonth, Refuse, vars

(* However long a job takes between reading a student's services and       *)
(* inserting the invoice, it bills none for a month before it began.       *)
THEOREM RunsBillBegunServices == Spec => []BilledAfterStart
<1>1. Init => StartInv
  BY InitType DEF Init, StartInv, BilledAfterStart, InsertLocal, Idle
<1>2. StartInv /\ [Next]_vars => StartInv'
  BY NextKeepsStarts
<1>3. StartInv => BilledAfterStart
  BY DEF StartInv
<1>4. QED BY <1>1, <1>2, <1>3, PTL DEF Spec


-----------------------------------------------------------------------------
(* One request or job at a time.  Nothing then comes between a test and    *)
(* the write it guards, except the operations of a single statement, none  *)
(* of which confirms an enrollment or inserts an invoice.                  *)

OneAtATime == \A r, s \in Request : r = s

SerialLocal(q) ==
  /\ q.pc \in {"updateWrite", "deleteWrite", "confirmCommit"} =>
       enrollments[q.enr].invoice = 0
  /\ q.pc \in {"runServices", "runInsert"} => ~ HasRecurring(q.month)

(* The invoice of a ceremony is the one its enrollment names.              *)
CeremonyNamed ==
  \A k \in DOMAIN invoices :
    invoices[k].source = "enrollment" => enrollments[invoices[k].enrollment].invoice = k

RunsAreRecurring ==
  \A k \in DOMAIN invoices : invoices[k].by = "run" => invoices[k].source = "recurring"

AbsentUnbilled ==
  \A e \in Enrollment : enrollments[e].status = "absent" => enrollments[e].invoice = 0

SerialData == CeremonyNamed /\ RunsAreRecurring /\ AbsentUnbilled /\ OneRunPerMonth

SerialInv == TypeInv /\ SerialData /\ \A r \in Request : SerialLocal(req[r])

LEMMA BillFacts ==
  ASSUME TypeInv
  PROVE  \A k \in DOMAIN invoices : invoices[k].enrollment \in Enrollment /\ k # 0
<1>1. \A k \in DOMAIN invoices : invoices[k] \in BillRow /\ k # 0
  BY DEF TypeInv
<1>2. QED BY <1>1 DEF BillRow

(* What one step of the system may do to a confirmed enrollment.           *)
Frozen ==
  \A e \in Enrollment : enrollments[e].invoice # 0 =>
    /\ enrollments'[e].status = enrollments[e].status
    /\ enrollments'[e].invoice = enrollments[e].invoice

LEMMA NamedOnce ==
  ASSUME CeremonyNamed
  PROVE  ConfirmedOnce
  BY DEF CeremonyNamed, ConfirmedOnce

(* With one request at a time its step decides the locals of all.          *)
LEMMA SoleHandler ==
  ASSUME OneAtATime, TypeInv, NEW r \in Request, NEW q, Goto(r, q)
  PROVE  \A s \in Request : req'[s] = q
  BY GotoOthers DEF OneAtATime

LEMMA IdleIsSerial ==
  ASSUME OneAtATime, TypeInv, NEW r \in Request, Goto(r, Idle)
  PROVE  \A s \in Request : SerialLocal(req[s])'
  BY SoleHandler DEF SerialLocal, Idle

(* A step that inserts no invoice, and changes at most the status and the  *)
(* cancellation of an enrollment without one.                              *)
LEMMA NoInsertIsSerial ==
  ASSUME TypeInv, SerialData, UNCHANGED invoices,
         \A e \in Enrollment : /\ enrollments'[e].invoice = enrollments[e].invoice
                               /\ \/ enrollments'[e].status = enrollments[e].status
                                  \/ /\ enrollments[e].invoice = 0
                                     /\ enrollments'[e].status # "absent"
  PROVE  SerialData' /\ Frozen
<1>1. \A k \in DOMAIN invoices : invoices[k].enrollment \in Enrollment
  BY BillFacts
<1>2. CeremonyNamed' /\ RunsAreRecurring' /\ OneRunPerMonth'
  BY <1>1 DEF SerialData, CeremonyNamed, RunsAreRecurring, OneRunPerMonth
<1>3. AbsentUnbilled'
  BY DEF SerialData, AbsentUnbilled
<1>4. Frozen
  BY DEF Frozen
<1>5. QED BY <1>2, <1>3, <1>4 DEF SerialData

(* A step that changes neither enrollments nor invoices, by a handler that *)
(* leaves sound locals.                                                    *)
LEMMA ReadIsSerial ==
  ASSUME OneAtATime, SerialInv, NEW r \in Request, NEW q, Goto(r, q),
         q.pc \in {"updateWrite", "deleteWrite", "confirmCommit"} =>
           enrollments[q.enr].invoice = 0,
         q.pc \in {"runServices", "runInsert"} => ~ HasRecurring(q.month),
         UNCHANGED <<enrollments, invoices>>
  PROVE  SerialData' /\ Frozen /\ \A s \in Request : SerialLocal(req[s])'
<1>1. SerialData' /\ Frozen
  BY NoInsertIsSerial DEF SerialInv
<1>2. \A s \in Request : req'[s] = q
  BY SoleHandler DEF SerialInv
<1>3. QED BY <1>1, <1>2 DEF SerialLocal, HasRecurring

LEMMA ServeEnrollmentIsSerial ==
  ASSUME OneAtATime, SerialInv, NEW r \in Request, ServeEnrollment(r)
  PROVE  SerialData' /\ Frozen /\ \A s \in Request : SerialLocal(req[s])'
<1>0. /\ TypeInv /\ SerialData /\ SerialLocal(req[r])
      /\ enrollments \in [Enrollment -> EnrollmentRow]
      /\ LocalOK(req[r]) /\ req[r] \in Locals
  BY AtRequest DEF SerialInv, TypeInv, EnrollmentsOK
<1>1. CASE \E e \in Enrollment : UpdateRead(r, e)
  BY <1>1, ReadIsSerial DEF UpdateRead, Idle
<1>2. CASE \E e \in Enrollment : DeleteRead(r, e)
  BY <1>2, ReadIsSerial DEF DeleteRead, Idle
<1>3. CASE \E e \in Enrollment : ConfirmRead(r, e)
  BY <1>3, ReadIsSerial DEF ConfirmRead, Idle
<1>4. CASE \E e \in Enrollment : CancelRead(r, e)
  BY <1>4, ReadIsSerial DEF CancelRead, Idle
<1>5. CASE UpdateWrite(r)
  <2>1. /\ enrollments[req[r].enr].invoice = 0
        /\ req[r].status \in {"draft", "other"}
    BY <1>0, <1>5 DEF UpdateWrite, At, SerialLocal, LocalOK
  <2>2. \A e \in Enrollment : /\ enrollments'[e].invoice = enrollments[e].invoice
                              /\ \/ enrollments'[e].status = enrollments[e].status
                                 \/ /\ enrollments[e].invoice = 0
                                    /\ enrollments'[e].status # "absent"
    BY <1>0, <1>5, <2>1 DEF UpdateWrite, EnrollmentRow
  <2>3. QED BY <1>0, <1>5, <2>2, NoInsertIsSerial, IdleIsSerial DEF UpdateWrite
<1>6. CASE DeleteWrite(r)
  <2>1. enrollments[req[r].enr].invoice = 0
    BY <1>0, <1>6 DEF DeleteWrite, At, SerialLocal
  <2>2. \A e \in Enrollment : /\ enrollments'[e].invoice = enrollments[e].invoice
                              /\ \/ enrollments'[e].status = enrollments[e].status
                                 \/ /\ enrollments[e].invoice = 0
                                    /\ enrollments'[e].status # "absent"
    BY <1>0, <1>6, <2>1 DEF DeleteWrite, EnrollmentRow
  <2>3. QED BY <1>0, <1>6, <2>2, NoInsertIsSerial, IdleIsSerial DEF DeleteWrite
<1>7. CASE CancelCommit(r)
  <2>1. \A e \in Enrollment : /\ enrollments'[e].invoice = enrollments[e].invoice
                              /\ enrollments'[e].status = enrollments[e].status
    BY <1>0, <1>7 DEF CancelCommit, EnrollmentRow
  <2>2. QED BY <1>0, <1>7, <2>1, NoInsertIsSerial, IdleIsSerial DEF CancelCommit
<1>8. CASE ConfirmCommit(r)
  <2> DEFINE e == req[r].enr
             row == InvoiceRow(e, "enrollment", today, req[r].items, "confirm")
             n == Len(invoices) + 1
  <2>1. e \in Enrollment /\ enrollments[e].invoice = 0 /\ Goto(r, Idle)
    BY <1>0, <1>8 DEF ConfirmCommit, At, SerialLocal, LocalOK, OnEnrollment
  <2>2. CASE ~ Exists(e)
    <3>1. UNCHANGED <<enrollments, invoices>>
      BY <1>8, <2>2 DEF ConfirmCommit
    <3>2. QED BY <1>0, <2>1, <3>1, NoInsertIsSerial, IdleIsSerial
  <2>3. CASE Exists(e)
    <3>1. /\ invoices' = Append(invoices, row)
          /\ enrollments' = [enrollments EXCEPT ![e].status = "approved", ![e].invoice = n]
      BY <1>8, <2>3 DEF ConfirmCommit
    <3>2. row \in BillRow /\ row.enrollment = e /\ row.source = "enrollment"
          /\ row.by = "confirm"
      BY <1>0, <2>1 DEF Locals, TypeInv, BillRow, InvoiceRow
    <3> HIDE DEF row
    <3>3. /\ DOMAIN invoices' = DOMAIN invoices \cup {n}
          /\ n \notin DOMAIN invoices /\ invoices'[n] = row
          /\ \A k \in DOMAIN invoices : invoices'[k] = invoices[k]
      BY <1>0, <3>1, <3>2, BillAppended DEF BillsKept
    <3> HIDE DEF n
    <3>4. \A f \in Enrollment :
            IF f = e THEN enrollments'[f].invoice = n /\ enrollments'[f].status = "approved"
            ELSE enrollments'[f] = enrollments[f]
      BY <1>0, <2>1, <3>1 DEF EnrollmentRow
    <3> HIDE DEF e
    <3>5. CeremonyNamed'
      <4>1. ASSUME NEW k \in DOMAIN invoices, invoices[k].source = "enrollment"
            PROVE  /\ enrollments'[invoices[k].enrollment].invoice = k
        <5>1. /\ enrollments[invoices[k].enrollment].invoice = k
              /\ invoices[k].enrollment \in Enrollment
              /\ k # 0
          BY <1>0, <4>1, BillFacts DEF SerialData, CeremonyNamed
        <5>2. QED BY <2>1, <3>4, <5>1
      <4>2. QED BY <2>1, <3>2, <3>3, <3>4, <4>1 DEF CeremonyNamed
    <3>6. RunsAreRecurring' /\ OneRunPerMonth'
      BY <1>0, <3>2, <3>3 DEF SerialData, RunsAreRecurring, OneRunPerMonth
    <3>7. AbsentUnbilled' /\ Frozen
      BY <1>0, <2>1, <3>4 DEF SerialData, AbsentUnbilled, Frozen
    <3>8. QED BY <1>0, <2>1, <3>5, <3>6, <3>7, IdleIsSerial DEF SerialData
  <2>4. QED BY <2>2, <2>3
<1>9. QED BY <1>1, <1>2, <1>3, <1>4, <1>5, <1>6, <1>7, <1>8 DEF ServeEnrollment


(* An invoice is inserted that is no ceremony's, and if a run inserts it,  *)
(* its month had none.                                                     *)
LEMMA AppendIsSerial ==
  ASSUME TypeInv, SerialData, NEW row \in BillRow, invoices' = Append(invoices, row),
         UNCHANGED enrollments, row.source # "enrollment",
         row.by = "run" => row.source = "recurring" /\ ~ HasRecurring(row.month)
  PROVE  SerialData' /\ Frozen
<1> DEFINE n == Len(invoices) + 1
<1>1. /\ DOMAIN invoices' = DOMAIN invoices \cup {n}
      /\ n \notin DOMAIN invoices /\ invoices'[n] = row
      /\ \A k \in DOMAIN invoices : invoices'[k] = invoices[k]
  BY BillAppended DEF BillsKept
<1> HIDE DEF n
<1>2. CeremonyNamed' /\ RunsAreRecurring' /\ AbsentUnbilled' /\ Frozen
  BY <1>1 DEF SerialData, CeremonyNamed, RunsAreRecurring, AbsentUnbilled, Frozen
<1>3. OneRunPerMonth'
  <2>1. \A k \in DOMAIN invoices :
          row.by = "run" /\ invoices[k].by = "run" => invoices[k].month # row.month
    BY DEF SerialData, RunsAreRecurring, HasRecurring
  <2>2. QED BY <1>1, <2>1 DEF SerialData, OneRunPerMonth
<1>4. QED BY <1>2, <1>3 DEF SerialData

LEMMA ServeBillingIsSerial ==
  ASSUME OneAtATime, SerialInv, NEW r \in Request, ServeBilling(r)
  PROVE  SerialData' /\ Frozen /\ \A s \in Request : SerialLocal(req[s])'
<1>0. /\ TypeInv /\ SerialData /\ SerialLocal(req[r])
      /\ LocalOK(req[r]) /\ req[r] \in Locals
  BY AtRequest DEF SerialInv
<1>1. ASSUME NEW q, Goto(r, q),
             q.pc \in {"idle", "addResolve", "addCommit", "runCheck"},
             UNCHANGED <<enrollments, invoices>>
      PROVE  SerialData' /\ Frozen /\ \A s \in Request : SerialLocal(req[s])'
  BY <1>1, ReadIsSerial
<1>2. ASSUME NEW todo
      PROVE  RunNext(r, todo).pc \in {"idle", "addResolve", "addCommit", "runCheck"}
  BY <1>0 DEF RunNext, Idle, Locals
<1>3. CASE AddRead(r) \/ AddResolve(r)
  <2>1. [req[r] EXCEPT !.pc = "addCommit", !.enr = Latest].pc = "addCommit"
    BY <1>0 DEF Locals
  <2>2. QED BY <1>1, <1>3, <2>1 DEF AddRead, AddResolve, Idle
<1>4. CASE AddCommit(r)
  <2> DEFINE source == IF req[r].items \cap Recurring # {} THEN "recurring" ELSE "ad_hoc"
             row == InvoiceRow(req[r].enr, source, today, req[r].items, "addService")
  <2>1. invoices' = Append(invoices, row) /\ Goto(r, Idle) /\ UNCHANGED enrollments
    BY <1>4 DEF AddCommit
  <2>2. row \in BillRow /\ row.source # "enrollment" /\ row.by # "run"
    BY <1>0, <1>4
      DEF AddCommit, At, LocalOK, OnEnrollment, Locals, TypeInv, BillRow, InvoiceRow
  <2> HIDE DEF row
  <2>3. QED BY <1>0, <2>1, <2>2, AppendIsSerial, IdleIsSerial
<1>5. CASE \E m \in Months : RunStart(r, m)
  BY <1>1, <1>5 DEF RunStart, Idle
<1>6. CASE RunCheck(r)
  <2>1. PICK e \in req[r].todo :
          \/ Goto(r, RunNext(r, req[r].todo \ {e}))
          \/ /\ ~ HasRecurring(req[r].month)
             /\ Goto(r, [req[r] EXCEPT !.pc = "runServices", !.enr = e])
    BY <1>6 DEF RunCheck
  <2>2. PICK q : q = [req[r] EXCEPT !.pc = "runServices", !.enr = e]
    OBVIOUS
  <2>3. q.pc = "runServices" /\ q.month = req[r].month
    BY <1>0, <2>2 DEF Locals
  <2>4. UNCHANGED <<enrollments, invoices>>
    BY <1>6 DEF RunCheck
  <2>5. CASE Goto(r, RunNext(r, req[r].todo \ {e}))
    BY <1>1, <1>2, <2>4, <2>5
  <2>6. CASE ~ HasRecurring(req[r].month) /\ Goto(r, q)
    BY <2>3, <2>4, <2>6, ReadIsSerial
  <2>7. QED BY <2>1, <2>2, <2>5, <2>6
<1>7. CASE RunServices(r)
  <2>1. PICK items, q : /\ items = Billable(req[r].month)
                        /\ q = [req[r] EXCEPT !.pc = "runInsert", !.items = items]
    OBVIOUS
  <2>2. q.pc = "runInsert" /\ q.month = req[r].month
    BY <1>0, <2>1 DEF Locals
  <2>3. UNCHANGED <<enrollments, invoices>> /\ ~ HasRecurring(req[r].month)
    BY <1>0, <1>7 DEF RunServices, At, SerialLocal
  <2>4. CASE Goto(r, RunNext(r, req[r].todo \ {req[r].enr}))
    BY <1>1, <1>2, <2>3, <2>4
  <2>5. CASE Goto(r, q)
    BY <2>2, <2>3, <2>5, ReadIsSerial
  <2>6. QED BY <1>7, <2>1, <2>4, <2>5 DEF RunServices
<1>8. CASE RunInsert(r)
  <2> DEFINE row == InvoiceRow(req[r].enr, "recurring", req[r].month, req[r].items, "run")
  <2>1. invoices' = Append(invoices, row) /\ UNCHANGED enrollments
    BY <1>8 DEF RunInsert
  <2>2. /\ row \in BillRow /\ row.source = "recurring" /\ row.month = req[r].month
        /\ ~ HasRecurring(req[r].month)
    BY <1>0, <1>8
      DEF RunInsert, At, LocalOK, OnEnrollment, Locals, BillRow, InvoiceRow, SerialLocal
  <2> HIDE DEF row
  <2>3. SerialData' /\ Frozen
    BY <1>0, <2>1, <2>2, AppendIsSerial
  <2>4. PICK q : q = RunNext(r, req[r].todo \ {req[r].enr})
    OBVIOUS
  <2>5. \A s \in Request : req'[s] = q
    BY <1>0, <1>8, <2>4, SoleHandler DEF RunInsert
  <2>6. QED BY <1>2, <2>3, <2>4, <2>5 DEF SerialLocal
<1>9. QED BY <1>3, <1>4, <1>5, <1>6, <1>7, <1>8 DEF ServeBilling

LEMMA NextIsSerial ==
  ASSUME OneAtATime, SerialInv, [Next]_vars
  PROVE  SerialInv' /\ Frozen
<1>0. TypeInv /\ TypeInv' /\ SerialData
  BY NextKeeps DEF SerialInv, Keeps
<1>1. ASSUME UNCHANGED <<enrollments, invoices, req>>
      PROVE  SerialData' /\ Frozen /\ \A s \in Request : SerialLocal(req[s])'
  BY <1>0, <1>1, NoInsertIsSerial DEF SerialInv, SerialLocal, HasRecurring
<1>2. ASSUME NEW e \in Enrollment, CreateEnrollment(e)
      PROVE  SerialData' /\ Frozen /\ \A s \in Request : SerialLocal(req[s])'
  <2>1. enrollments \in [Enrollment -> EnrollmentRow] /\ UNCHANGED <<invoices, req>>
    BY <1>0, <1>2 DEF TypeInv, EnrollmentsOK, CreateEnrollment
  <2>2. enrollments[e].invoice = 0
    BY <1>0, <1>2 DEF CreateEnrollment, SerialData, AbsentUnbilled
  <2>3. \A f \in Enrollment : /\ enrollments'[f].invoice = enrollments[f].invoice
                              /\ \/ enrollments'[f].status = enrollments[f].status
                                 \/ /\ enrollments[f].invoice = 0
                                    /\ enrollments'[f].status # "absent"
    BY <1>2, <2>1, <2>2 DEF CreateEnrollment, EnrollmentRow
  <2>4. ASSUME NEW s \in Request
        PROVE  SerialLocal(req[s])'
    <3>1. SerialLocal(req[s]) /\ LocalOK(req[s])
      BY <1>0, AtRequest DEF SerialInv
    <3>2. QED BY <2>1, <2>3, <3>1 DEF SerialLocal, LocalOK, OnEnrollment, HasRecurring
  <2>5. QED BY <1>0, <2>1, <2>3, <2>4, NoInsertIsSerial
<1>3. ASSUME NEW r \in Request, Fail(r)
      PROVE  SerialData' /\ Frozen /\ \A s \in Request : SerialLocal(req[s])'
  BY <1>0, <1>3, IdleIsSerial, NoInsertIsSerial DEF Fail
<1>4. SerialData' /\ Frozen /\ \A s \in Request : SerialLocal(req[s])'
  BY <1>1, <1>2, <1>3, ServeEnrollmentIsSerial, ServeBillingIsSerial
    DEF Next, RemoveService, NextMonth, Refuse, vars
<1>5. QED BY <1>0, <1>4 DEF SerialInv

LEMMA SerialInit ==
  ASSUME Init
  PROVE  SerialInv
<1>1. SerialData
  BY DEF Init, SerialData, CeremonyNamed, RunsAreRecurring, AbsentUnbilled, OneRunPerMonth
<1>2. \A r \in Request : SerialLocal(req[r])
  BY DEF Init, SerialLocal, Idle
<1>3. QED BY InitType, <1>1, <1>2 DEF SerialInv

(* Served one at a time, an enrollment is confirmed once.                  *)
THEOREM SeriallyConfirmedOnce == OneAtATime => (Spec => []ConfirmedOnce)
<1> SUFFICES ASSUME OneAtATime PROVE Spec => []ConfirmedOnce
  OBVIOUS
<1>1. SerialInv /\ [Next]_vars => SerialInv'
  BY NextIsSerial
<1>2. SerialInv => ConfirmedOnce
  BY NamedOnce DEF SerialInv, SerialData
<1>3. QED BY SerialInit, <1>1, <1>2, PTL DEF Spec

(* Served one at a time, a month is billed by one run.                     *)
THEOREM SeriallyOneRunPerMonth == OneAtATime => (Spec => []OneRunPerMonth)
<1> SUFFICES ASSUME OneAtATime PROVE Spec => []OneRunPerMonth
  OBVIOUS
<1>1. SerialInv /\ [Next]_vars => SerialInv'
  BY NextIsSerial
<1>2. SerialInv => OneRunPerMonth
  BY DEF SerialInv, SerialData
<1>3. QED BY SerialInit, <1>1, <1>2, PTL DEF Spec

(* Served one at a time, a confirmed enrollment keeps status and invoice.  *)
THEOREM SeriallyFrozen == OneAtATime => (Spec => ConfirmedIsFrozen)
<1> SUFFICES ASSUME OneAtATime PROVE Spec => ConfirmedIsFrozen
  OBVIOUS
<1>1. SerialInv /\ [Next]_vars => SerialInv'
  BY NextIsSerial
<1>2. SerialInv /\ [Next]_vars => [Frozen]_vars
  BY NextIsSerial
<1>3. QED BY SerialInit, <1>1, <1>2, PTL DEF Spec, ConfirmedIsFrozen, Frozen

-----------------------------------------------------------------------------
(* Any number of requests and jobs at once.  Whoever has passed the test   *)
(* may still insert an invoice; the first one inserted stops the others at *)
(* the test, for good, so that those in flight by then are all there are.  *)

Confirming(e) == {r \in Request : req[r].pc = "confirmCommit" /\ req[r].enr = e}
Running(m) ==
  {r \in Request : req[r].pc \in {"runServices", "runInsert"} /\ req[r].month = m}

CeremoniesCounted(e) ==
  /\ Cardinality(CeremonyInvoices(e)) + Cardinality(Confirming(e)) <= Cardinality(Request)
  /\ enrollments[e].invoice = 0 => CeremonyInvoices(e) = {}

RunsCounted(m) ==
  Cardinality(RunInvoices(m)) + Cardinality(Running(m)) <= Cardinality(Request)

BoundInv ==
  /\ \A e \in Enrollment : CeremoniesCounted(e)
  /\ \A m \in Months : RunsCounted(m)
  /\ RunsAreRecurring

(* Invoices A and handlers B that may each insert one.                     *)
LEMMA CountStays ==
  ASSUME NEW A, IsFiniteSet(A), NEW B \in SUBSET Request, NEW C \in SUBSET B,
         Cardinality(A) + Cardinality(B) <= Cardinality(Request)
  PROVE  Cardinality(A) + Cardinality(C) <= Cardinality(Request)
<1>1. IsFiniteSet(Request) /\ IsFiniteSet(B)
  BY RequestAssumption, FS_Subset
<1>2. IsFiniteSet(C) /\ Cardinality(C) <= Cardinality(B)
  BY <1>1, FS_Subset
<1>3. /\ Cardinality(A) \in Nat /\ Cardinality(B) \in Nat /\ Cardinality(C) \in Nat
      /\ Cardinality(Request) \in Nat
  BY <1>1, <1>2, FS_CardinalityType
<1>4. QED BY <1>2, <1>3

LEMMA CountStarts ==
  ASSUME NEW B \in SUBSET Request
  PROVE  Cardinality({}) + Cardinality(B) <= Cardinality(Request)
<1>1. IsFiniteSet(Request) /\ Cardinality({}) = 0
  BY RequestAssumption, FS_EmptySet
<1>2. Cardinality(B) <= Cardinality(Request) /\ IsFiniteSet(B)
  BY <1>1, FS_Subset
<1>3. Cardinality(B) \in Nat /\ Cardinality(Request) \in Nat
  BY <1>1, <1>2, FS_CardinalityType
<1>4. QED BY <1>1, <1>2, <1>3

LEMMA CountMoves ==
  ASSUME NEW A, IsFiniteSet(A), NEW B \in SUBSET Request, NEW n, NEW r \in B,
         n \notin A, Cardinality(A) + Cardinality(B) <= Cardinality(Request)
  PROVE  Cardinality(A \cup {n}) + Cardinality(B \ {r}) <= Cardinality(Request)
<1>1. IsFiniteSet(Request) /\ IsFiniteSet(B)
  BY RequestAssumption, FS_Subset
<1>2. Cardinality(A \cup {n}) = Cardinality(A) + 1
  BY FS_AddElement
<1>3. Cardinality(B \ {r}) = Cardinality(B) - 1
  BY <1>1, FS_RemoveElement
<1>4. Cardinality(A) \in Nat /\ Cardinality(B) \in Nat /\ Cardinality(Request) \in Nat
  BY <1>1, FS_CardinalityType
<1>5. QED BY <1>2, <1>3, <1>4

LEMMA InvoicesAreFinite ==
  ASSUME TypeInv
  PROVE  /\ \A e \in Enrollment : IsFiniteSet(CeremonyInvoices(e))
         /\ \A m \in Months : IsFiniteSet(RunInvoices(m))
<1>1. DOMAIN invoices = 1..Len(invoices) /\ Len(invoices) \in Nat
  BY DEF TypeInv
<1>2. IsFiniteSet(DOMAIN invoices)
  BY <1>1, FS_Interval
<1>3. QED BY <1>2, FS_Subset DEF CeremonyInvoices, RunInvoices

(* A step that inserts nothing and lets no handler past a test.            *)
LEMMA NothingEnters ==
  ASSUME TypeInv, BoundInv, UNCHANGED invoices,
         \A e \in Enrollment : enrollments'[e].invoice = enrollments[e].invoice,
         \A e \in Enrollment : Confirming(e)' \subseteq Confirming(e),
         \A m \in Months : Running(m)' \subseteq Running(m)
  PROVE  BoundInv'
<1>1. ASSUME NEW e \in Enrollment
      PROVE  CeremoniesCounted(e)'
  <2>1. CeremonyInvoices(e)' = CeremonyInvoices(e) /\ IsFiniteSet(CeremonyInvoices(e))
    BY InvoicesAreFinite DEF CeremonyInvoices
  <2>2. Confirming(e) \in SUBSET Request /\ Confirming(e)' \in SUBSET Confirming(e)
    BY DEF Confirming
  <2>3. CeremoniesCounted(e)
    BY DEF BoundInv
  <2>4. Cardinality(CeremonyInvoices(e)) + Cardinality(Confirming(e)') <= Cardinality(Request)
    BY <2>1, <2>2, <2>3, CountStays DEF CeremoniesCounted
  <2>5. QED BY <2>1, <2>3, <2>4 DEF CeremoniesCounted
<1>2. ASSUME NEW m \in Months
      PROVE  RunsCounted(m)'
  <2>1. RunInvoices(m)' = RunInvoices(m) /\ IsFiniteSet(RunInvoices(m))
    BY InvoicesAreFinite DEF RunInvoices
  <2>2. Running(m) \in SUBSET Request /\ Running(m)' \in SUBSET Running(m)
    BY DEF Running
  <2>3. RunsCounted(m)
    BY DEF BoundInv
  <2>4. Cardinality(RunInvoices(m)) + Cardinality(Running(m)') <= Cardinality(Request)
    BY <2>1, <2>2, <2>3, CountStays DEF RunsCounted
  <2>5. QED BY <2>1, <2>4 DEF RunsCounted
<1>3. RunsAreRecurring'
  BY DEF BoundInv, RunsAreRecurring
<1>4. Months' = Months
  BY DEF Months
<1>5. QED BY <1>1, <1>2, <1>3, <1>4 DEF BoundInv

Tested == {"confirmCommit", "runServices", "runInsert"}

(* Such a step of handler r.                                               *)
LEMMA OutsideKeepsBound ==
  ASSUME TypeInv, BoundInv, NEW r \in Request, NEW q, Goto(r, q), q.pc \notin Tested,
         UNCHANGED invoices,
         \A e \in Enrollment : enrollments'[e].invoice = enrollments[e].invoice
  PROVE  BoundInv'
<1>1. \A s \in Request : req'[s] = IF s = r THEN q ELSE req[s]
  BY GotoOthers
<1>2. \A e \in Enrollment : Confirming(e)' \subseteq Confirming(e)
  BY <1>1 DEF Confirming, Tested
<1>3. \A m \in Months : Running(m)' \subseteq Running(m)
  BY <1>1 DEF Running, Tested
<1>4. QED BY <1>2, <1>3, NothingEnters

(* A row is appended: which invoices that adds to.                         *)
LEMMA AppendedInvoice ==
  ASSUME TypeInv, NEW row \in BillRow, invoices' = Append(invoices, row)
  PROVE  LET n == Len(invoices) + 1
         IN  /\ n \notin DOMAIN invoices
             /\ \A e \in Enrollment :
                  CeremonyInvoices(e)' =
                    IF row.source = "enrollment" /\ row.enrollment = e
                    THEN CeremonyInvoices(e) \cup {n} ELSE CeremonyInvoices(e)
             /\ \A m \in Months :
                  RunInvoices(m)' =
                    IF row.by = "run" /\ row.month = m
                    THEN RunInvoices(m) \cup {n} ELSE RunInvoices(m)
<1> DEFINE n == Len(invoices) + 1
<1>1. /\ DOMAIN invoices' = DOMAIN invoices \cup {n}
      /\ n \notin DOMAIN invoices /\ invoices'[n] = row
      /\ \A k \in DOMAIN invoices : invoices'[k] = invoices[k]
  BY BillAppended DEF BillsKept
<1> HIDE DEF n
<1>2. \A e \in Enrollment :
        CeremonyInvoices(e)' =
          IF row.source = "enrollment" /\ row.enrollment = e
          THEN CeremonyInvoices(e) \cup {n} ELSE CeremonyInvoices(e)
  BY <1>1 DEF CeremonyInvoices
<1>3. \A m \in Months :
        RunInvoices(m)' =
          IF row.by = "run" /\ row.month = m
          THEN RunInvoices(m) \cup {n} ELSE RunInvoices(m)
  BY <1>1 DEF RunInvoices
<1>4. QED BY <1>1, <1>2, <1>3 DEF n

LEMMA ServeEnrollmentKeepsBound ==
  ASSUME TypeInv, BoundInv, NEW r \in Request, ServeEnrollment(r)
  PROVE  BoundInv'
<1>0. /\ enrollments \in [Enrollment -> EnrollmentRow]
      /\ LocalOK(req[r]) /\ req[r] \in Locals
  BY AtRequest DEF TypeInv, EnrollmentsOK
<1>1. CASE \E e \in Enrollment : UpdateRead(r, e) \/ DeleteRead(r, e) \/ CancelRead(r, e)
  BY <1>1, OutsideKeepsBound DEF UpdateRead, DeleteRead, CancelRead, Idle, Tested
<1>2. CASE UpdateWrite(r) \/ DeleteWrite(r) \/ CancelCommit(r)
  <2>1. \A e \in Enrollment : enrollments'[e].invoice = enrollments[e].invoice
    BY <1>0, <1>2 DEF UpdateWrite, DeleteWrite, CancelCommit, EnrollmentRow
  <2>2. UNCHANGED invoices /\ Goto(r, Idle) /\ Idle.pc \notin Tested
    BY <1>2 DEF UpdateWrite, DeleteWrite, CancelCommit, Idle, Tested
  <2>3. QED BY <2>1, <2>2, OutsideKeepsBound
<1>3. ASSUME NEW e \in Enrollment, ConfirmRead(r, e)
      PROVE  BoundInv'
  <2>1. PICK q : Goto(r, q) /\ q.pc = "confirmCommit" /\ q.enr = e
    <3>1. PICK items : Goto(r, [Idle EXCEPT !.pc = "confirmCommit", !.enr = e,
                                            !.items = items])
      BY <1>3 DEF ConfirmRead
    <3>2. PICK q : q = [Idle EXCEPT !.pc = "confirmCommit", !.enr = e, !.items = items]
      OBVIOUS
    <3>3. q.pc = "confirmCommit" /\ q.enr = e
      BY <3>2 DEF Idle
    <3>4. QED BY <3>1, <3>2, <3>3
  <2>2. UNCHANGED <<enrollments, invoices>> /\ enrollments[e].invoice = 0
    BY <1>3 DEF ConfirmRead
  <2>3. \A s \in Request : req'[s] = IF s = r THEN q ELSE req[s]
    BY <2>1, GotoOthers
  <2>4. ASSUME NEW f \in Enrollment
        PROVE  CeremoniesCounted(f)'
    <3>1. CeremonyInvoices(f)' = CeremonyInvoices(f) /\ IsFiniteSet(CeremonyInvoices(f))
      BY <2>2, InvoicesAreFinite DEF CeremonyInvoices
    <3>2. CeremoniesCounted(f)
      BY DEF BoundInv
    <3>3. CASE f = e
      <4>1. CeremonyInvoices(f) = {}
        BY <2>2, <3>2, <3>3 DEF CeremoniesCounted
      <4>2. Confirming(f)' \in SUBSET Request
        BY DEF Confirming
      <4>3. Cardinality({}) + Cardinality(Confirming(f)') <= Cardinality(Request)
        BY <4>2, CountStarts
      <4>4. QED BY <3>1, <4>1, <4>3 DEF CeremoniesCounted
    <3>4. CASE f # e
      <4>1. Confirming(f) \in SUBSET Request /\ Confirming(f)' \in SUBSET Confirming(f)
        BY <2>1, <2>3, <3>4 DEF Confirming
      <4>2. Cardinality(CeremonyInvoices(f)) + Cardinality(Confirming(f)')
              <= Cardinality(Request)
        BY <3>1, <3>2, <4>1, CountStays DEF CeremoniesCounted
      <4>3. QED BY <2>2, <3>1, <3>2, <4>2 DEF CeremoniesCounted
    <3>5. QED BY <3>3, <3>4
  <2>5. ASSUME NEW m \in Months
        PROVE  RunsCounted(m)'
    <3>1. RunInvoices(m)' = RunInvoices(m) /\ IsFiniteSet(RunInvoices(m))
      BY <2>2, InvoicesAreFinite DEF RunInvoices
    <3>2. Running(m) \in SUBSET Request /\ Running(m)' \in SUBSET Running(m)
      BY <2>1, <2>3 DEF Running
    <3>3. Cardinality(RunInvoices(m)) + Cardinality(Running(m)') <= Cardinality(Request)
      BY <3>1, <3>2, CountStays DEF BoundInv, RunsCounted
    <3>4. QED BY <3>1, <3>3 DEF RunsCounted
  <2>6. RunsAreRecurring' /\ Months' = Months
    BY <2>2 DEF BoundInv, RunsAreRecurring, Months
  <2>7. QED BY <2>4, <2>5, <2>6 DEF BoundInv
<1>4. ASSUME ConfirmCommit(r)
      PROVE  BoundInv'
  <2>1. PICK e \in Enrollment : e = req[r].enr
    BY <1>0, <1>4 DEF ConfirmCommit, At, LocalOK, OnEnrollment
  <2>2. Goto(r, Idle) /\ Idle.pc \notin Tested /\ req[r].pc = "confirmCommit"
    BY <1>4 DEF ConfirmCommit, At, Idle, Tested
  <2>3. CASE ~ Exists(e)
    BY <1>4, <2>1, <2>2, <2>3, OutsideKeepsBound DEF ConfirmCommit
  <2>4. CASE Exists(e)
    <3> DEFINE row == InvoiceRow(e, "enrollment", today, req[r].items, "confirm")
    <3>1. /\ invoices' = Append(invoices, row)
          /\ enrollments' = [enrollments EXCEPT ![e].status = "approved",
                               ![e].invoice = Len(invoices) + 1]
      BY <1>4, <2>1, <2>4 DEF ConfirmCommit
    <3>2. /\ row \in BillRow /\ row.source = "enrollment" /\ row.enrollment = e
          /\ row.by = "confirm"
      BY <1>0, <2>1 DEF BillRow, InvoiceRow, Locals, TypeInv
    <3> HIDE DEF row
    <3>3. PICK n : n = Len(invoices) + 1
      OBVIOUS
    <3>4. /\ n \notin DOMAIN invoices
          /\ CeremonyInvoices(e)' = CeremonyInvoices(e) \cup {n}
          /\ \A f \in Enrollment \ {e} : CeremonyInvoices(f)' = CeremonyInvoices(f)
          /\ \A m \in Months : RunInvoices(m)' = RunInvoices(m)
      BY <3>1, <3>2, <3>3, AppendedInvoice
    <3>5. /\ enrollments'[e].invoice # 0
          /\ \A f \in Enrollment \ {e} : enrollments'[f].invoice = enrollments[f].invoice
      BY <1>0, <3>1 DEF EnrollmentRow, TypeInv
    <3>6. \A s \in Request : req'[s] = IF s = r THEN Idle ELSE req[s]
      BY <2>2, GotoOthers
    <3>7. CeremoniesCounted(e)'
      <4>1. Confirming(e)' = Confirming(e) \ {r} /\ r \in Confirming(e)
            /\ Confirming(e) \in SUBSET Request
        BY <2>1, <2>2, <3>6 DEF Confirming, Tested
      <4>2. n \notin CeremonyInvoices(e) /\ IsFiniteSet(CeremonyInvoices(e))
        BY <3>4, InvoicesAreFinite DEF CeremonyInvoices
      <4>3. Cardinality(CeremonyInvoices(e)) + Cardinality(Confirming(e))
              <= Cardinality(Request)
        BY DEF BoundInv, CeremoniesCounted
      <4>4. Cardinality(CeremonyInvoices(e) \cup {n}) + Cardinality(Confirming(e) \ {r})
              <= Cardinality(Request)
        BY <4>1, <4>2, <4>3, CountMoves
      <4>5. QED BY <3>4, <3>5, <4>1, <4>4 DEF CeremoniesCounted
    <3>8. ASSUME NEW f \in Enrollment \ {e}
          PROVE  CeremoniesCounted(f)'
      <4>1. Confirming(f)' \in SUBSET Confirming(f) /\ Confirming(f) \in SUBSET Request
        BY <2>2, <3>6 DEF Confirming, Tested
      <4>2. IsFiniteSet(CeremonyInvoices(f)) /\ CeremoniesCounted(f)
        BY InvoicesAreFinite DEF BoundInv
      <4>3. Cardinality(CeremonyInvoices(f)) + Cardinality(Confirming(f)')
              <= Cardinality(Request)
        BY <4>1, <4>2, CountStays DEF CeremoniesCounted
      <4>4. QED BY <3>4, <3>5, <4>2, <4>3 DEF CeremoniesCounted
    <3>9. ASSUME NEW m \in Months
          PROVE  RunsCounted(m)'
      <4>1. Running(m)' \in SUBSET Running(m) /\ Running(m) \in SUBSET Request
        BY <2>2, <3>6 DEF Running, Tested
      <4>2. IsFiniteSet(RunInvoices(m)) /\ RunsCounted(m)
        BY InvoicesAreFinite DEF BoundInv
      <4>3. Cardinality(RunInvoices(m)) + Cardinality(Running(m)') <= Cardinality(Request)
        BY <4>1, <4>2, CountStays DEF RunsCounted
      <4>4. QED BY <3>4, <4>3 DEF RunsCounted
    <3>10. RunsAreRecurring'
      BY <3>1, <3>2, BillAppended DEF BoundInv, RunsAreRecurring, BillsKept
    <3>11. Months' = Months
      BY DEF Months
    <3>12. QED BY <3>7, <3>8, <3>9, <3>10, <3>11 DEF BoundInv
  <2>5. QED BY <2>3, <2>4
<1>5. QED BY <1>1, <1>2, <1>3, <1>4 DEF ServeEnrollment

(* An invoice of another kind.                                             *)
LEMMA AddKeepsBound ==
  ASSUME TypeInv, BoundInv, NEW r \in Request, AddCommit(r)
  PROVE  BoundInv'
<1> DEFINE source == IF req[r].items \cap Recurring # {} THEN "recurring" ELSE "ad_hoc"
           row == InvoiceRow(req[r].enr, source, today, req[r].items, "addService")
<1>0. LocalOK(req[r]) /\ req[r] \in Locals
  BY AtRequest
<1>1. /\ invoices' = Append(invoices, row) /\ Goto(r, Idle) /\ UNCHANGED enrollments
      /\ Idle.pc \notin Tested
  BY DEF AddCommit, Idle, Tested
<1>2. row \in BillRow /\ row.source # "enrollment" /\ row.by # "run"
  BY <1>0 DEF AddCommit, At, LocalOK, OnEnrollment, Locals, TypeInv, BillRow, InvoiceRow
<1> HIDE DEF row
<1>3. \A s \in Request : req'[s] = IF s = r THEN Idle ELSE req[s]
  BY <1>1, GotoOthers
<1>4. /\ \A f \in Enrollment : CeremonyInvoices(f)' = CeremonyInvoices(f)
      /\ \A m \in Months : RunInvoices(m)' = RunInvoices(m)
  BY <1>1, <1>2, AppendedInvoice
<1>5. ASSUME NEW f \in Enrollment
      PROVE  CeremoniesCounted(f)'
  <2>1. Confirming(f)' \in SUBSET Confirming(f) /\ Confirming(f) \in SUBSET Request
    BY <1>1, <1>3 DEF Confirming, Tested
  <2>2. IsFiniteSet(CeremonyInvoices(f)) /\ CeremoniesCounted(f)
    BY InvoicesAreFinite DEF BoundInv
  <2>3. Cardinality(CeremonyInvoices(f)) + Cardinality(Confirming(f)') <= Cardinality(Request)
    BY <2>1, <2>2, CountStays DEF CeremoniesCounted
  <2>4. QED BY <1>1, <1>4, <2>2, <2>3 DEF CeremoniesCounted
<1>6. ASSUME NEW m \in Months
      PROVE  RunsCounted(m)'
  <2>1. Running(m)' \in SUBSET Running(m) /\ Running(m) \in SUBSET Request
    BY <1>1, <1>3 DEF Running, Tested
  <2>2. IsFiniteSet(RunInvoices(m)) /\ RunsCounted(m)
    BY InvoicesAreFinite DEF BoundInv
  <2>3. Cardinality(RunInvoices(m)) + Cardinality(Running(m)') <= Cardinality(Request)
    BY <2>1, <2>2, CountStays DEF RunsCounted
  <2>4. QED BY <1>4, <2>3 DEF RunsCounted
<1>7. RunsAreRecurring' /\ Months' = Months
  BY <1>1, <1>2, BillAppended DEF BoundInv, RunsAreRecurring, BillsKept, Months
<1>8. QED BY <1>5, <1>6, <1>7 DEF BoundInv

LEMMA CheckKeepsBound ==
  ASSUME TypeInv, BoundInv, NEW r \in Request, RunCheck(r)
  PROVE  BoundInv'
<1>0. LocalOK(req[r]) /\ req[r] \in Locals
  BY AtRequest
<1>1. PICK e \in req[r].todo :
        \/ Goto(r, RunNext(r, req[r].todo \ {e}))
        \/ /\ ~ HasRecurring(req[r].month)
           /\ Goto(r, [req[r] EXCEPT !.pc = "runServices", !.enr = e])
  BY DEF RunCheck
<1>2. UNCHANGED <<enrollments, invoices>>
  BY DEF RunCheck
<1>3. CASE Goto(r, RunNext(r, req[r].todo \ {e}))
  <2>1. RunNext(r, req[r].todo \ {e}).pc \notin Tested
    BY <1>0 DEF RunNext, Idle, Locals, Tested
  <2>2. PICK q : q = RunNext(r, req[r].todo \ {e})
    OBVIOUS
  <2>3. QED BY <1>2, <1>3, <2>1, <2>2, OutsideKeepsBound
<1>4. CASE /\ ~ HasRecurring(req[r].month)
           /\ Goto(r, [req[r] EXCEPT !.pc = "runServices", !.enr = e])
  <2>1. PICK q : q = [req[r] EXCEPT !.pc = "runServices", !.enr = e]
    OBVIOUS
  <2>2. PICK m \in Months : m = req[r].month
    BY <1>0 DEF Locals
  <2>3. q.pc = "runServices" /\ q.month = m
    BY <1>0, <2>1, <2>2 DEF Locals
  <2>4. \A s \in Request : req'[s] = IF s = r THEN q ELSE req[s]
    BY <1>4, <2>1, GotoOthers
  <2>5. RunInvoices(m) = {}
    BY <1>4, <2>2 DEF RunInvoices, HasRecurring, BoundInv, RunsAreRecurring
  <2>6. ASSUME NEW l \in Months
        PROVE  RunsCounted(l)'
    <3>1. RunInvoices(l)' = RunInvoices(l) /\ IsFiniteSet(RunInvoices(l))
      BY <1>2, InvoicesAreFinite DEF RunInvoices
    <3>2. CASE l = m
      <4>1. Running(l)' \in SUBSET Request
        BY DEF Running
      <4>2. Cardinality({}) + Cardinality(Running(l)') <= Cardinality(Request)
        BY <4>1, CountStarts
      <4>3. QED BY <2>5, <3>1, <3>2, <4>2 DEF RunsCounted
    <3>3. CASE l # m
      <4>1. Running(l)' \in SUBSET Running(l) /\ Running(l) \in SUBSET Request
        BY <2>3, <2>4, <3>3 DEF Running
      <4>2. Cardinality(RunInvoices(l)) + Cardinality(Running(l)') <= Cardinality(Request)
        BY <3>1, <4>1, CountStays DEF BoundInv, RunsCounted
      <4>3. QED BY <3>1, <4>2 DEF RunsCounted
    <3>4. QED BY <3>2, <3>3
  <2>7. ASSUME NEW f \in Enrollment
        PROVE  CeremoniesCounted(f)'
    <3>1. CeremonyInvoices(f)' = CeremonyInvoices(f) /\ IsFiniteSet(CeremonyInvoices(f))
      BY <1>2, InvoicesAreFinite DEF CeremonyInvoices
    <3>2. Confirming(f)' \in SUBSET Confirming(f) /\ Confirming(f) \in SUBSET Request
      BY <2>3, <2>4 DEF Confirming
    <3>3. CeremoniesCounted(f)
      BY DEF BoundInv
    <3>4. Cardinality(CeremonyInvoices(f)) + Cardinality(Confirming(f)')
            <= Cardinality(Request)
      BY <3>1, <3>2, <3>3, CountStays DEF CeremoniesCounted
    <3>5. QED BY <1>2, <3>1, <3>3, <3>4 DEF CeremoniesCounted
  <2>8. RunsAreRecurring' /\ Months' = Months
    BY <1>2 DEF BoundInv, RunsAreRecurring, Months
  <2>9. QED BY <2>6, <2>7, <2>8 DEF BoundInv
<1>5. QED BY <1>1, <1>3, <1>4

(* A run that goes on to its insertion has passed the test already.        *)
LEMMA ServicesKeepBound ==
  ASSUME TypeInv, BoundInv, NEW r \in Request, RunServices(r)
  PROVE  BoundInv'
<1>0. LocalOK(req[r]) /\ req[r] \in Locals
  BY AtRequest
<1>1. UNCHANGED <<enrollments, invoices>> /\ req[r].pc = "runServices"
  BY DEF RunServices, At
<1>2. PICK items, p, q : /\ items = Billable(req[r].month)
                         /\ p = RunNext(r, req[r].todo \ {req[r].enr})
                         /\ q = [req[r] EXCEPT !.pc = "runInsert", !.items = items]
  OBVIOUS
<1>3. p.pc \notin Tested
  BY <1>0, <1>2 DEF RunNext, Idle, Locals, Tested
<1>4. q.pc = "runInsert" /\ q.month = req[r].month
  BY <1>0, <1>2 DEF Locals
<1>5. Goto(r, p) \/ Goto(r, q)
  BY <1>2 DEF RunServices
<1>6. CASE Goto(r, p)
  BY <1>1, <1>3, <1>6, OutsideKeepsBound
<1>7. CASE Goto(r, q)
  <2>1. \A s \in Request : req'[s] = IF s = r THEN q ELSE req[s]
    BY <1>7, GotoOthers
  <2>2. \A e \in Enrollment : Confirming(e)' \subseteq Confirming(e)
    BY <1>4, <2>1 DEF Confirming
  <2>3. \A m \in Months : Running(m)' \subseteq Running(m)
    BY <1>1, <1>4, <2>1 DEF Running
  <2>4. QED BY <1>1, <2>2, <2>3, NothingEnters
<1>8. QED BY <1>5, <1>6, <1>7

LEMMA InsertKeepsBound ==
  ASSUME TypeInv, BoundInv, NEW r \in Request, RunInsert(r)
  PROVE  BoundInv'
<1> DEFINE row == InvoiceRow(req[r].enr, "recurring", req[r].month, req[r].items, "run")
<1>0. LocalOK(req[r]) /\ req[r] \in Locals /\ req[r].pc = "runInsert"
  BY AtRequest DEF RunInsert, At
<1>1. PICK m \in Months : m = req[r].month
  BY <1>0 DEF Locals
<1>2. invoices' = Append(invoices, row) /\ UNCHANGED enrollments
  BY DEF RunInsert
<1>3. /\ row \in BillRow /\ row.source = "recurring" /\ row.by = "run" /\ row.month = m
  BY <1>0, <1>1 DEF LocalOK, OnEnrollment, Locals, BillRow, InvoiceRow
<1> HIDE DEF row
<1>4. PICK q : q = RunNext(r, req[r].todo \ {req[r].enr})
  OBVIOUS
<1>5. q.pc \notin Tested
  BY <1>0, <1>4 DEF RunNext, Idle, Locals, Tested
<1>6. \A s \in Request : req'[s] = IF s = r THEN q ELSE req[s]
  BY <1>4, GotoOthers DEF RunInsert
<1>7. PICK n : n = Len(invoices) + 1
  OBVIOUS
<1>8. /\ n \notin DOMAIN invoices
      /\ RunInvoices(m)' = RunInvoices(m) \cup {n}
      /\ \A l \in Months \ {m} : RunInvoices(l)' = RunInvoices(l)
      /\ \A f \in Enrollment : CeremonyInvoices(f)' = CeremonyInvoices(f)
  BY <1>2, <1>3, <1>7, AppendedInvoice
<1>9. RunsCounted(m)'
  <2>1. Running(m)' = Running(m) \ {r} /\ r \in Running(m) /\ Running(m) \in SUBSET Request
    BY <1>0, <1>1, <1>5, <1>6 DEF Running, Tested
  <2>2. n \notin RunInvoices(m) /\ IsFiniteSet(RunInvoices(m))
    BY <1>8, InvoicesAreFinite DEF RunInvoices
  <2>3. Cardinality(RunInvoices(m)) + Cardinality(Running(m)) <= Cardinality(Request)
    BY DEF BoundInv, RunsCounted
  <2>4. Cardinality(RunInvoices(m) \cup {n}) + Cardinality(Running(m) \ {r})
          <= Cardinality(Request)
    BY <2>1, <2>2, <2>3, CountMoves
  <2>5. QED BY <1>8, <2>1, <2>4 DEF RunsCounted
<1>10. ASSUME NEW l \in Months \ {m}
       PROVE  RunsCounted(l)'
  <2>1. Running(l)' \in SUBSET Running(l) /\ Running(l) \in SUBSET Request
    BY <1>5, <1>6 DEF Running, Tested
  <2>2. IsFiniteSet(RunInvoices(l)) /\ RunsCounted(l)
    BY InvoicesAreFinite DEF BoundInv
  <2>3. Cardinality(RunInvoices(l)) + Cardinality(Running(l)') <= Cardinality(Request)
    BY <2>1, <2>2, CountStays DEF RunsCounted
  <2>4. QED BY <1>8, <2>3 DEF RunsCounted
<1>11. ASSUME NEW f \in Enrollment
       PROVE  CeremoniesCounted(f)'
  <2>1. Confirming(f)' \in SUBSET Confirming(f) /\ Confirming(f) \in SUBSET Request
    BY <1>5, <1>6 DEF Confirming, Tested
  <2>2. IsFiniteSet(CeremonyInvoices(f)) /\ CeremoniesCounted(f)
    BY InvoicesAreFinite DEF BoundInv
  <2>3. Cardinality(CeremonyInvoices(f)) + Cardinality(Confirming(f)') <= Cardinality(Request)
    BY <2>1, <2>2, CountStays DEF CeremoniesCounted
  <2>4. QED BY <1>2, <1>8, <2>2, <2>3 DEF CeremoniesCounted
<1>12. RunsAreRecurring'
  BY <1>2, <1>3, BillAppended DEF BoundInv, RunsAreRecurring, BillsKept
<1>13. Months' = Months
  BY DEF Months
<1>14. QED BY <1>9, <1>10, <1>11, <1>12, <1>13 DEF BoundInv

LEMMA NextKeepsBound ==
  ASSUME TypeInv, BoundInv, [Next]_vars
  PROVE  BoundInv'
<1>1. ASSUME UNCHANGED <<enrollments, invoices, req>>
      PROVE  BoundInv'
  BY <1>1, NothingEnters DEF Confirming, Running
<1>2. ASSUME NEW e \in Enrollment, CreateEnrollment(e)
      PROVE  BoundInv'
  <2>1. enrollments \in [Enrollment -> EnrollmentRow] /\ UNCHANGED <<invoices, req>>
    BY <1>2 DEF TypeInv, EnrollmentsOK, CreateEnrollment
  <2>2. \A f \in Enrollment : enrollments'[f].invoice = enrollments[f].invoice
    BY <1>2, <2>1 DEF CreateEnrollment, EnrollmentRow
  <2>3. QED BY <2>1, <2>2, NothingEnters DEF Confirming, Running
<1>3. ASSUME NEW r \in Request, Fail(r)
      PROVE  BoundInv'
  BY <1>3, OutsideKeepsBound DEF Fail, Idle, Tested
<1>4. ASSUME NEW r \in Request, ServeBilling(r)
      PROVE  BoundInv'
  <2>0. req[r] \in Locals
    BY AtRequest
  <2>1. CASE AddRead(r) \/ AddResolve(r)
    <3>1. PICK q : q = [req[r] EXCEPT !.pc = "addCommit", !.enr = Latest]
      OBVIOUS
    <3>2. q.pc \notin Tested
      BY <2>0, <3>1 DEF Locals, Tested
    <3>3. QED BY <2>1, <3>1, <3>2, OutsideKeepsBound DEF AddRead, AddResolve, Idle, Tested
  <2>2. CASE \E m \in Months : RunStart(r, m)
    BY <2>2, OutsideKeepsBound DEF RunStart, Idle, Tested
  <2>3. QED BY <1>4, <2>1, <2>2, AddKeepsBound, CheckKeepsBound, ServicesKeepBound,
               InsertKeepsBound DEF ServeBilling
<1>5. QED BY <1>1, <1>2, <1>3, <1>4, ServeEnrollmentKeepsBound
        DEF Next, RemoveService, NextMonth, Refuse, vars

(* However handlers and jobs overlap, stop and are repeated, there are no  *)
(* more ceremony invoices of an enrollment, and no more run invoices of a  *)
(* month, than handlers that may be in flight at once.                     *)
THEOREM DoubleBillingBounded == Spec => []DoubleBillingIsBounded
<1>1. Init => BoundInv
  <2> SUFFICES ASSUME Init PROVE BoundInv
    OBVIOUS
  <2>1. DOMAIN invoices = {}
    BY DEF Init
  <2>2. /\ \A e \in Enrollment : CeremonyInvoices(e) = {} /\ Confirming(e) \in SUBSET Request
        /\ \A m \in Months : RunInvoices(m) = {} /\ Running(m) \in SUBSET Request
        /\ RunsAreRecurring
    BY <2>1 DEF CeremonyInvoices, RunInvoices, Confirming, Running, RunsAreRecurring
  <2>3. QED BY <2>2, CountStarts DEF BoundInv, CeremoniesCounted, RunsCounted
<1>2. TypeInv /\ BoundInv /\ [Next]_vars => BoundInv'
  BY NextKeepsBound
<1>3. TypeInv /\ BoundInv => DoubleBillingIsBounded
  <2> SUFFICES ASSUME TypeInv, BoundInv PROVE DoubleBillingIsBounded
    OBVIOUS
  <2>1. ASSUME NEW A, IsFiniteSet(A), NEW B \in SUBSET Request,
               Cardinality(A) + Cardinality(B) <= Cardinality(Request)
        PROVE  Cardinality(A) <= Cardinality(Request)
    <3>1. IsFiniteSet(B) /\ IsFiniteSet(Request)
      BY RequestAssumption, FS_Subset
    <3>2. Cardinality(A) \in Nat /\ Cardinality(B) \in Nat /\ Cardinality(Request) \in Nat
      BY <2>1, <3>1, FS_CardinalityType
    <3>3. QED BY <2>1, <3>2
  <2>2. ASSUME NEW e \in Enrollment
        PROVE  Cardinality(CeremonyInvoices(e)) <= Cardinality(Request)
    <3>1. Confirming(e) \in SUBSET Request /\ IsFiniteSet(CeremonyInvoices(e))
      BY InvoicesAreFinite DEF Confirming
    <3>2. QED BY <2>1, <3>1 DEF BoundInv, CeremoniesCounted
  <2>3. ASSUME NEW m \in Months
        PROVE  Cardinality(RunInvoices(m)) <= Cardinality(Request)
    <3>1. Running(m) \in SUBSET Request /\ IsFiniteSet(RunInvoices(m))
      BY InvoicesAreFinite DEF Running
    <3>2. QED BY <2>1, <3>1 DEF BoundInv, RunsCounted
  <2>4. QED BY <2>2, <2>3 DEF DoubleBillingIsBounded
<1>4. QED BY <1>1, <1>2, <1>3, TypeInvariant, PTL DEF Spec
=============================================================================
