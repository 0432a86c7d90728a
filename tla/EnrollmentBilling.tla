-------------------------- MODULE EnrollmentBilling --------------------------
(***************************************************************************)
(* From enrollment to invoice: the enrollments of one student in one       *)
(* academic year, the student's services, and the invoices that confirm,   *)
(* confirmAddStudentService (enrollment-billing.service.ts) and the        *)
(* monthly run (recurring-billing.logic.ts) insert for them.               *)
(*                                                                         *)
(* The monthly run is asked for over HTTP, by a queued job that BullMQ may *)
(* deliver again, and by collectPayment for one student; nothing orders    *)
(* them.  Every check-then-write pair is therefore two actions.  What the  *)
(* invoices cost, and how they are paid, is the subject of Receivables.    *)
(*                                                                         *)
(* Dates count months: every test here compares a date with the first or   *)
(* the last day of a month.  Classrooms are left out, and with them        *)
(* assertNoDuplicateEnrollment: a request that names a classroom is        *)
(* compared with the enrollments of that classroom only, so a student may  *)
(* have several.  Discounts and fee plans do not change during a run.      *)
(***************************************************************************)
EXTENDS Integers, Sequences, SequencesExt

CONSTANTS
  Enrollment,    \* ids of the enrollments that may be created
  NoEnrollment,  \* null
  Item,          \* fee items of the grade's plan
  Mandatory,     \* those of a mandatory type, billed to everyone
  Recurring,     \* those billed monthly, by term or yearly
  Monthly,       \* those billed monthly
  LastMonth,     \* BOUND: the months are 1..LastMonth
  Request,       \* handlers and jobs that may be in flight at once
  MaxInvoices    \* BOUND: with so many invoices nothing that adds one starts

ASSUME EnrollmentAssumption == NoEnrollment \notin Enrollment

ASSUME ItemAssumption ==
  /\ IsFiniteSet(Item)
  /\ Mandatory \subseteq Item /\ Recurring \subseteq Item
  /\ Monthly \subseteq Recurring

ASSUME RequestAssumption == IsFiniteSet(Request)

ASSUME BoundAssumption == LastMonth \in Nat \ {0} /\ MaxInvoices \in Nat

Months == 1..LastMonth

VARIABLES
  today,        \* the month of the current date
  enrollments,  \* enrollments[e]: status, invoiceId, cancelledAt
  services,     \* rows of student_services; to = 0 while effectiveTo is null
  invoices,     \* rows of invoices, in insertion order
  req           \* req[r]: where handler r is and what it has read

vars == <<today, enrollments, services, invoices, req>>

Idle == [pc |-> "idle", enr |-> NoEnrollment, status |-> "draft",
         items |-> {}, month |-> 1, todo |-> {}]

At(r, pc) == req[r].pc = pc
Goto(r, locals) == req' = [req EXCEPT ![r] = locals]

(* BOUND of the model: a handler that inserts an invoice may still start.  *)
Room == Len(invoices) < MaxInvoices

Exists(e) == enrollments[e].status \notin {"absent", "deleted"}
Approved == {e \in Enrollment : enrollments[e].status = "approved"}

(* The approved enrollment confirmed last.                                 *)
Latest == CHOOSE e \in Approved :
            \A f \in Approved : enrollments[f].invoice <= enrollments[e].invoice

(* The row carries, beside what the code stores, which handler inserted    *)
(* it; in the database only the audit row tells.                           *)
InvoiceRow(e, source, month, items, by) ==
  [enrollment |-> e, source |-> source, month |-> month, items |-> items, by |-> by]

(* The service rows inserted for items: one each, for the recurring ones.  *)
ServiceRows(items, from) ==
  SetToSeq({[item |-> i, from |-> from, to |-> 0] : i \in items \cap Recurring})

OpenItems == {services[k].item : k \in {k \in DOMAIN services : services[k].to = 0}}

(* Mutant of ActiveIn: a service that starts after the month is billed.    *)
ActiveInWithoutStart(k, m) == services[k].to = 0 \/ services[k].to >= m

(* Service row k is active in month m.                                     *)
ActiveIn(k, m) ==
  /\ services[k].from <= m
  /\ services[k].to = 0 \/ services[k].to >= m

(* What the monthly run bills for month m.                                 *)
Billable(m) ==
  {services[k].item : k \in {k \in DOMAIN services : ActiveIn(k, m)}} \cap Monthly

(* Mutant of HasRecurring: gt for gte, so that an invoice of the run, which *)
(* is issued on the first day of its month, is not seen.                   *)
HasRecurringAfterFirst(m) ==
  \E k \in DOMAIN invoices : /\ invoices[k].source = "recurring"
                             /\ invoices[k].month = m
                             /\ invoices[k].by # "run"

(* The student has a recurring invoice issued in month m.                  *)
HasRecurring(m) ==
  \E k \in DOMAIN invoices : /\ invoices[k].source = "recurring"
                             /\ invoices[k].month = m

Init ==
  /\ today = 1
  /\ enrollments = [e \in Enrollment |->
                      [status |-> "absent", invoice |-> 0, cancelled |-> FALSE]]
  /\ services = <<>>
  /\ invoices = <<>>
  /\ req = [r \in Request |-> Idle]

-----------------------------------------------------------------------------
(* createEnrollment.                                                       *)
CreateEnrollment(e) ==
  /\ enrollments[e].status = "absent"
  /\ enrollments' = [enrollments EXCEPT ![e].status = "draft"]
  /\ UNCHANGED <<today, services, invoices, req>>

(* Mutant of UpdateRead: a confirmed enrollment is not refused.            *)
UpdateConfirmedToo(r, e) ==
  /\ At(r, "idle")
  /\ Exists(e)
  /\ \E s \in {"draft", "other"} :
       Goto(r, [Idle EXCEPT !.pc = "updateWrite", !.enr = e, !.status = s])
  /\ UNCHANGED <<today, enrollments, services, invoices>>

(* updateEnrollment: an enrollment without an invoice gets any status but  *)
(* approved ("other" is any status beside draft and approved).             *)
UpdateRead(r, e) ==
  /\ At(r, "idle")
  /\ Exists(e) /\ enrollments[e].invoice = 0
  /\ \E s \in {"draft", "other"} :
       Goto(r, [Idle EXCEPT !.pc = "updateWrite", !.enr = e, !.status = s])
  /\ UNCHANGED <<today, enrollments, services, invoices>>

(* The update names the row by its id only.                                *)
UpdateWrite(r) ==
  /\ At(r, "updateWrite")
  /\ LET e == req[r].enr
     IN  enrollments' = IF Exists(e)
                        THEN [enrollments EXCEPT ![e].status = req[r].status]
                        ELSE enrollments
  /\ Goto(r, Idle)
  /\ UNCHANGED <<today, services, invoices>>

(* deleteEnrollment.                                                       *)
DeleteRead(r, e) ==
  /\ At(r, "idle")
  /\ enrollments[e].status = "draft" /\ enrollments[e].invoice = 0
  /\ Goto(r, [Idle EXCEPT !.pc = "deleteWrite", !.enr = e])
  /\ UNCHANGED <<today, enrollments, services, invoices>>

(* Mutant of DeleteWrite: no foreign key refuses the deletion.             *)
DeleteUnchecked(r) ==
  /\ At(r, "deleteWrite")
  /\ enrollments' = [enrollments EXCEPT ![req[r].enr].status = "deleted"]
  /\ Goto(r, Idle)
  /\ UNCHANGED <<today, services, invoices>>

(* The foreign key of invoices.enrollmentId refuses the deletion of an     *)
(* enrollment that has been billed meanwhile.                              *)
DeleteWrite(r) ==
  /\ At(r, "deleteWrite")
  /\ LET e == req[r].enr
         billed == \E k \in DOMAIN invoices : invoices[k].enrollment = e
     IN  enrollments' = IF billed THEN enrollments
                        ELSE [enrollments EXCEPT ![e].status = "deleted"]
  /\ Goto(r, Idle)
  /\ UNCHANGED <<today, services, invoices>>

-----------------------------------------------------------------------------
(* confirm: the test for an invoice precedes the preview; the transaction  *)
(* that follows does not repeat it.  Neither the status nor cancelledAt is *)
(* looked at.                                                              *)

(* Mutant of ConfirmRead: a confirmed enrollment is confirmed again.       *)
ConfirmAgain(r, e) ==
  /\ At(r, "idle") /\ Room
  /\ Exists(e)
  /\ \E optional \in SUBSET (Item \ Mandatory) :
       /\ Mandatory \cup optional # {}
       /\ Goto(r, [Idle EXCEPT !.pc = "confirmCommit", !.enr = e,
                               !.items = Mandatory \cup optional])
  /\ UNCHANGED <<today, enrollments, services, invoices>>

ConfirmRead(r, e) ==
  /\ At(r, "idle") /\ Room
  /\ Exists(e) /\ enrollments[e].invoice = 0
  /\ \E optional \in SUBSET (Item \ Mandatory) :
       /\ Mandatory \cup optional # {}
       /\ Goto(r, [Idle EXCEPT !.pc = "confirmCommit", !.enr = e,
                               !.items = Mandatory \cup optional])
  /\ UNCHANGED <<today, enrollments, services, invoices>>

(* The enrollment may have been deleted: the foreign key then aborts the   *)
(* transaction.                                                            *)
ConfirmCommit(r) ==
  /\ At(r, "confirmCommit")
  /\ LET e == req[r].enr
         items == req[r].items
     IN  \/ /\ Exists(e)
            /\ invoices' = Append(invoices,
                             InvoiceRow(e, "enrollment", today, items, "confirm"))
            /\ services' = services \o ServiceRows(items, today)
            /\ enrollments' = [enrollments EXCEPT ![e].status = "approved",
                                 ![e].invoice = Len(invoices) + 1]
         \/ /\ ~ Exists(e)
            /\ UNCHANGED <<invoices, services, enrollments>>
  /\ Goto(r, Idle)
  /\ UNCHANGED today

-----------------------------------------------------------------------------
(* confirmAddStudentService: optional items that are not active, from any  *)
(* date, for a student with an approved enrollment, cancelled or not.      *)
AddRead(r) ==
  /\ At(r, "idle") /\ Room
  /\ Approved # {}
  /\ \E items \in SUBSET (Item \ (Mandatory \cup OpenItems)) \ {{}}, from \in Months :
       Goto(r, [Idle EXCEPT !.pc = "addResolve", !.items = items, !.month = from])
  /\ UNCHANGED <<today, enrollments, services, invoices>>

(* The enrollment the invoice is for is looked up again, after the preview. *)
AddResolve(r) ==
  /\ At(r, "addResolve")
  /\ Goto(r, IF Approved = {} THEN Idle
             ELSE [req[r] EXCEPT !.pc = "addCommit", !.enr = Latest])
  /\ UNCHANGED <<today, enrollments, services, invoices>>

AddCommit(r) ==
  /\ At(r, "addCommit")
  /\ LET items == req[r].items
         source == IF items \cap Recurring # {} THEN "recurring" ELSE "ad_hoc"
     IN  /\ invoices' = Append(invoices,
                          InvoiceRow(req[r].enr, source, today, items, "addService"))
         /\ services' = services \o ServiceRows(items, req[r].month)
  /\ Goto(r, Idle)
  /\ UNCHANGED <<today, enrollments>>

(* removeStudentService: the end is today even for a service that ended.   *)
RemoveService(k) ==
  /\ services' = [services EXCEPT ![k].to = today]
  /\ UNCHANGED <<today, enrollments, invoices, req>>

(* cancelEnrollment: one transaction, of which only cancelledAt is read    *)
(* before it is written.  Every open service of the student ends.          *)
CancelRead(r, e) ==
  /\ At(r, "idle")
  /\ Exists(e) /\ ~ enrollments[e].cancelled
  /\ Goto(r, [Idle EXCEPT !.pc = "cancelCommit", !.enr = e])
  /\ UNCHANGED <<today, enrollments, services, invoices>>

CancelCommit(r) ==
  /\ At(r, "cancelCommit")
  /\ services' = [k \in DOMAIN services |->
                    IF services[k].to = 0 THEN [services[k] EXCEPT !.to = today]
                    ELSE services[k]]
  /\ LET e == req[r].enr
     IN  enrollments' = IF Exists(e)
                        THEN [enrollments EXCEPT ![e].cancelled = TRUE]
                        ELSE enrollments
  /\ Goto(r, Idle)
  /\ UNCHANGED <<today, invoices>>

-----------------------------------------------------------------------------
(* generateMonthlyInvoices for month m, or ensureRecurringInvoiceForStudent*)
(* for one enrollment: for each approved enrollment read, look for an      *)
(* invoice of the month, read the active services, insert.                 *)
RunStart(r, m) ==
  /\ At(r, "idle") /\ Room
  /\ \E todo \in {Approved} \cup {{e} : e \in Approved} :
       /\ todo # {}
       /\ Goto(r, [Idle EXCEPT !.pc = "runCheck", !.month = m, !.todo = todo])
  /\ UNCHANGED <<today, enrollments, services, invoices>>

(* The loop goes on with what is left to do.                               *)
RunNext(r, todo) ==
  IF todo = {} THEN Idle
  ELSE [req[r] EXCEPT !.pc = "runCheck", !.enr = NoEnrollment, !.items = {},
                      !.todo = todo]

RunCheck(r) ==
  /\ At(r, "runCheck")
  /\ \E e \in req[r].todo :
       Goto(r, IF HasRecurring(req[r].month) THEN RunNext(r, req[r].todo \ {e})
               ELSE [req[r] EXCEPT !.pc = "runServices", !.enr = e])
  /\ UNCHANGED <<today, enrollments, services, invoices>>

RunServices(r) ==
  /\ At(r, "runServices")
  /\ LET items == Billable(req[r].month)
     IN  Goto(r, IF items = {} THEN RunNext(r, req[r].todo \ {req[r].enr})
                 ELSE [req[r] EXCEPT !.pc = "runInsert", !.items = items])
  /\ UNCHANGED <<today, enrollments, services, invoices>>

RunInsert(r) ==
  /\ At(r, "runInsert")
  /\ invoices' = Append(invoices, InvoiceRow(req[r].enr, "recurring",
                                    req[r].month, req[r].items, "run"))
  /\ Goto(r, RunNext(r, req[r].todo \ {req[r].enr}))
  /\ UNCHANGED <<today, enrollments, services>>

-----------------------------------------------------------------------------
NextMonth ==
  /\ today < LastMonth
  /\ today' = today + 1
  /\ UNCHANGED <<enrollments, services, invoices, req>>

(* A request its handler's first test refuses: an enrollment that has an   *)
(* invoice or is cancelled, no approved enrollment, a service in use.      *)
Refuse(r) ==
  /\ At(r, "idle")
  /\ \/ \E e \in Enrollment : enrollments[e].invoice # 0 \/ enrollments[e].cancelled
     \/ Approved = {}
     \/ OpenItems # {}
  /\ UNCHANGED vars

(* A handler or job ends after any of its statements.                      *)
Fail(r) ==
  /\ ~ At(r, "idle")
  /\ Goto(r, Idle)
  /\ UNCHANGED <<today, enrollments, services, invoices>>

ServeEnrollment(r) ==
  \/ \E e \in Enrollment : \/ UpdateRead(r, e) \/ DeleteRead(r, e)
                           \/ ConfirmRead(r, e) \/ CancelRead(r, e)
  \/ UpdateWrite(r) \/ DeleteWrite(r) \/ ConfirmCommit(r) \/ CancelCommit(r)

ServeBilling(r) ==
  \/ AddRead(r) \/ AddResolve(r) \/ AddCommit(r)
  \/ \E m \in Months : RunStart(r, m)
  \/ RunCheck(r) \/ RunServices(r) \/ RunInsert(r)

Next ==
  \/ \E e \in Enrollment : CreateEnrollment(e)
  \/ \E k \in DOMAIN services : RemoveService(k)
  \/ NextMonth
  \/ \E r \in Request : \/ ServeEnrollment(r) \/ ServeBilling(r)
                        \/ Refuse(r) \/ Fail(r)

Spec == Init /\ [][Next]_vars

-----------------------------------------------------------------------------
(* Properties.                                                             *)

PC == {"idle", "updateWrite", "deleteWrite", "confirmCommit", "addResolve",
       "addCommit", "cancelCommit", "runCheck", "runServices", "runInsert"}

Statuses == {"absent", "draft", "other", "approved", "deleted"}

(* Every variable keeps its type: rows with the columns of their tables,   *)
(* months within the calendar, handlers with the locals they use.          *)
TypeOK ==
  /\ today \in Months
  /\ enrollments \in [Enrollment -> [status : Statuses, invoice : Nat,
                                     cancelled : BOOLEAN]]
  /\ services \in Seq([item : Recurring, from : Months, to : Months \cup {0}])
  /\ invoices \in Seq([enrollment : Enrollment,
                       source : {"enrollment", "recurring", "ad_hoc"},
                       month : Months, items : SUBSET Item,
                       by : {"confirm", "addService", "run"}])
  /\ req \in [Request -> [pc : PC, enr : Enrollment \cup {NoEnrollment},
                          status : Statuses, items : SUBSET Item,
                          month : Months, todo : SUBSET Enrollment]]

(* The links between enrollments and invoices hold whatever interleaves:   *)
(* an approved enrollment has been billed, the invoice it names exists and *)
(* is its own ceremony's, and no invoice is left without its enrollment by *)
(* a deletion that had already passed its checks.                          *)
InvoiceLinks ==
  /\ \A e \in Enrollment :
       /\ enrollments[e].status = "approved" => enrollments[e].invoice # 0
       /\ enrollments[e].invoice # 0 =>
            /\ enrollments[e].invoice \in DOMAIN invoices
            /\ invoices[enrollments[e].invoice].enrollment = e
            /\ invoices[enrollments[e].invoice].source = "enrollment"
  /\ \A k \in DOMAIN invoices : Exists(invoices[k].enrollment)

(* A monthly run bills a service only for months it had begun by, however  *)
(* long after reading the services it inserts the invoice.                 *)
BilledAfterStart ==
  \A k \in DOMAIN invoices : invoices[k].by = "run" =>
    \A i \in invoices[k].items :
      \E s \in DOMAIN services : /\ services[s].item = i
                                 /\ services[s].from <= invoices[k].month

(* "Confirm on already-confirmed enrollment -> 409 Conflict"               *)
(* (docs/unified-enrollment-billing-plan.md:231): one ceremony invoice.    *)
ConfirmedOnce ==
  \A j, k \in DOMAIN invoices :
    /\ invoices[j].source = "enrollment" /\ invoices[k].source = "enrollment"
    /\ invoices[j].enrollment = invoices[k].enrollment
    => j = k

(* "Confirmed enrollments cannot be edited" (enrollments.service.ts:297):  *)
(* neither the status nor the invoice of a confirmed one changes.          *)
ConfirmedIsFrozen ==
  [][\A e \in Enrollment : enrollments[e].invoice # 0 =>
       /\ enrollments'[e].status = enrollments[e].status
       /\ enrollments'[e].invoice = enrollments[e].invoice]_vars

(* The run of a month is safe to repeat: however many runs, jobs and       *)
(* collections ask for it, and wherever one of them stops, the student     *)
(* gets one invoice from it.                                               *)
OneRunPerMonth ==
  \A j, k \in DOMAIN invoices :
    /\ invoices[j].by = "run" /\ invoices[k].by = "run"
    /\ invoices[j].month = invoices[k].month
    => j = k

CeremonyInvoices(e) ==
  {k \in DOMAIN invoices : invoices[k].source = "enrollment" /\ invoices[k].enrollment = e}
RunInvoices(m) == {k \in DOMAIN invoices : invoices[k].by = "run" /\ invoices[k].month = m}

(* How wrong it can get when requests and jobs overlap: both look for an   *)
(* invoice in one statement and insert it in a later one, so that each of  *)
(* those in flight together may insert one.  However often a confirmation  *)
(* is retried or a job delivered again, there are no more than that.       *)
DoubleBillingIsBounded ==
  /\ \A e \in Enrollment : Cardinality(CeremonyInvoices(e)) <= Cardinality(Request)
  /\ \A m \in Months : Cardinality(RunInvoices(m)) <= Cardinality(Request)
=============================================================================
