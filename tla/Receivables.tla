----------------------------- MODULE Receivables -----------------------------
(***************************************************************************)
(* The receivables ledger of one student account: the invoices of one      *)
(* student in one academic year and the payment and refund rows against    *)
(* them, as FinanceService keeps them (finance.service.ts).                *)
(*                                                                         *)
(* No handler of FinanceService opens a database transaction: each one is  *)
(* a chain of awaited statements, every statement its own READ COMMITTED   *)
(* transaction.  A handler is therefore a request with a program counter   *)
(* and the values it has read so far, and every statement that reads or    *)
(* writes invoices or payments is an action.  Other requests may take      *)
(* steps between any two of them.  confirm, confirmAddStudentService and   *)
(* cancelEnrollment (enrollment-billing.service.ts) write inside one       *)
(* transaction, whose writes the other requests see at once, at the commit.*)
(*                                                                         *)
(* The amount and method a request carries matter only from the step that  *)
(* checks them, so they are chosen at that step.  Amounts are whole units. *)
(* Audit rows, receipts, reference numbers, notes and dates other than the *)
(* order of the issue dates are left out: no handler reads them back.      *)
(***************************************************************************)
EXTENDS Integers, Sequences, SequencesExt

CONSTANTS
  Invoice,            \* invoice ids of the account
  EnrollmentInvoice,  \* those that carry the enrollment's id
  RecurringInvoice,   \* those a month's run may insert
  ServiceInvoice,     \* those an added optional service may insert
  Total,              \* invoices.total, fixed when the invoice is inserted
  IssueDate,          \* invoices.issueDate, as a number
  NoInvoice,          \* null
  Request,            \* handlers that may be in flight at once
  Amounts,            \* amounts a request may carry
  Method,             \* payment methods in use: "cash" and "transfer" (any other)
  MaxPayments         \* BOUND: with so many rows no handler starts to add another

ASSUME InvoiceAssumption ==
  /\ IsFiniteSet(Invoice) /\ NoInvoice \notin Invoice
  /\ EnrollmentInvoice \subseteq Invoice
  /\ RecurringInvoice \cup ServiceInvoice \subseteq EnrollmentInvoice
  /\ Total \in [Invoice -> Nat] /\ IssueDate \in [Invoice -> Nat]

ASSUME RequestAssumption ==
  /\ Amounts \subseteq Int
  /\ Method \subseteq {"cash", "transfer"}
  /\ MaxPayments \in Nat

VARIABLES
  status,     \* status[i]: invoices.status, "absent" before the insert
  payments,   \* the rows of the payments table in insertion order
  cancelled,  \* enrollments.cancelledAt is set
  req         \* req[r]: where handler r is and what it has read

vars == <<status, payments, cancelled, req>>

Open     == {"unpaid", "partial"}
Closed   == {"paid", "refunded", "cancelled"}
Statuses == {"absent"} \cup Open \cup Closed

-----------------------------------------------------------------------------
(* The sums the code selects over the payments table.                      *)

AmountOf == [p \in DOMAIN payments |-> payments[p].amount]

VerifiedPayments(i) ==
  {p \in DOMAIN payments : /\ payments[p].invoice = i
                           /\ payments[p].kind = "payment"
                           /\ payments[p].verified}

UnverifiedPayments(i) ==
  {p \in DOMAIN payments : /\ payments[p].invoice = i
                           /\ payments[p].kind = "payment"
                           /\ ~ payments[p].verified}

VerifiedRefunds(i) ==
  {p \in DOMAIN payments : /\ payments[p].invoice = i
                           /\ payments[p].kind = "refund"
                           /\ payments[p].verified}

RefundsOf(p) ==
  {f \in DOMAIN payments : /\ payments[f].kind = "refund"
                           /\ payments[f].of = p
                           /\ payments[f].verified}

Gross(i)    == SumFunctionOnSet(AmountOf, VerifiedPayments(i))
Pending(i)  == SumFunctionOnSet(AmountOf, UnverifiedPayments(i))
Net(i)      == Gross(i) - SumFunctionOnSet(AmountOf, VerifiedRefunds(i))
Refunded(p) == SumFunctionOnSet(AmountOf, RefundsOf(p))

(* Mutant of Recordable: payments awaiting verification are not reserved.  *)
RecordableIgnoringPending(due, pending) == Max({0, due})

(* What may still be collected once pending payments are reserved.         *)
Recordable(due, pending) == Max({0, due - pending})

(* Mutants of RecalculatedStatus: refunds reduce what counts as paid, and  *)
(* the test for a full refund comes before the test for no payment.        *)
StatusByNet(gross, net, total) ==
  IF gross <= 0 THEN "unpaid"
  ELSE IF net <= 0 THEN "refunded"
  ELSE IF net >= total THEN "paid" ELSE "partial"

StatusRefundedFirst(gross, net, total) ==
  IF net <= 0 THEN "refunded"
  ELSE IF gross <= 0 THEN "unpaid"
  ELSE IF gross >= total THEN "paid" ELSE "partial"

(* The status recalculateInvoiceStatus derives from the sums it has read.  *)
RecalculatedStatus(gross, net, total) ==
  IF gross <= 0 THEN "unpaid"
  ELSE IF net <= 0 THEN "refunded"
  ELSE IF gross >= total THEN "paid" ELSE "partial"

-----------------------------------------------------------------------------
(* Requests.                                                               *)

Idle ==
  [pc |-> "idle", op |-> "none", inv |-> NoInvoice, pay |-> 0, gross |-> 0,
   next |-> "absent", left |-> 0, method |-> "cash",
   quota |-> [i \in Invoice |-> 0], todo |-> {}, plan |-> <<>>]

(* r is at step pc; Goto changes nothing but r's own locals.               *)
At(r, pc) == req[r].pc = pc
Goto(r, locals) == req' = [req EXCEPT ![r] = locals]

(* BOUND of the model: a handler that adds payment rows may still start.   *)
Room == Len(payments) < MaxPayments

PaymentRow(i, amount, method) ==
  [kind |-> "payment", invoice |-> i, amount |-> amount, method |-> method,
   verified |-> method = "cash", of |-> 0]

(* Mutant of RefundRow: the row does not carry the payment's invoice.      *)
RefundRowWithoutInvoice(p, amount, method) ==
  [kind |-> "refund", invoice |-> NoInvoice, amount |-> amount,
   method |-> method, verified |-> method = "cash", of |-> p]

RefundRow(p, amount, method) ==
  [kind |-> "refund", invoice |-> payments[p].invoice, amount |-> amount,
   method |-> method, verified |-> method = "cash", of |-> p]

Oldest(S) == CHOOSE i \in S : \A j \in S : IssueDate[i] <= IssueDate[j]

Init ==
  /\ status = [i \in Invoice |-> "absent"]
  /\ payments = <<>>
  /\ cancelled = FALSE
  /\ req = [r \in Request |-> Idle]

-----------------------------------------------------------------------------
(* Invoices are inserted by four handlers, each in one statement or one    *)
(* transaction as far as this ledger is concerned.                         *)

(* createInvoice: an ad-hoc invoice.                                       *)
CreateInvoice(i) ==
  /\ i \in Invoice \ EnrollmentInvoice
  /\ status[i] = "absent"
  /\ status' = [status EXCEPT ![i] = "unpaid"]
  /\ UNCHANGED <<payments, cancelled, req>>

(* An invoice with, when payment is collected at the desk, one payment row *)
(* in the same transaction; only cash moves the status.                    *)
IssueAtDesk(i) ==
  /\ status[i] = "absent"
  /\ \/ /\ status' = [status EXCEPT ![i] = "unpaid"]
        /\ UNCHANGED payments
     \/ /\ Room
        /\ \E a \in Amounts \cup {Total[i]}, m \in Method :
             /\ 0 < a /\ a <= Total[i]
             /\ payments' = Append(payments, PaymentRow(i, a, m))
             /\ status' = [status EXCEPT ![i] =
                  IF m # "cash" THEN "unpaid"
                  ELSE IF a >= Total[i] THEN "paid" ELSE "partial"]
  /\ UNCHANGED <<cancelled, req>>

CeremonyInvoice == EnrollmentInvoice \ (RecurringInvoice \cup ServiceInvoice)

(* confirm: the enrollment ceremony.  A cancelled enrollment is not        *)
(* refused.                                                                *)
Confirm(i) ==
  /\ i \in CeremonyInvoice
  /\ IssueAtDesk(i)

Confirmed == \E i \in CeremonyInvoice : status[i] # "absent"

(* confirmAddStudentService: optional services for a confirmed enrollment. *)
AddService(i) ==
  /\ i \in ServiceInvoice
  /\ Confirmed
  /\ IssueAtDesk(i)

(* createRecurringInvoiceForEnrollment: a month's invoice of an approved    *)
(* enrollment, cancelled or not; only confirm approves one.  Which month,  *)
(* and whether it bills anything, is left open.                            *)
IssueRecurring(i) ==
  /\ i \in RecurringInvoice
  /\ Confirmed
  /\ status[i] = "absent"
  /\ status' = [status EXCEPT ![i] = "unpaid"]

GenerateMonthly(i) ==
  /\ IssueRecurring(i)
  /\ UNCHANGED <<payments, cancelled, req>>

-----------------------------------------------------------------------------
(* recalculateInvoiceStatus, on behalf of the request that called it.      *)

(* Where a handler goes on: only collectPayment loops, while something is  *)
(* left to apply and an invoice can still take it.                         *)
AfterRecalc(q) ==
  IF q.op = "collect" /\ q.left > 0 /\ \E i \in Invoice : q.quota[i] > 0
  THEN [q EXCEPT !.pc = "spread"]
  ELSE Idle

(* Mutant of RecalcInvoice: a cancelled invoice is recalculated too.       *)
RecalcCancelledToo(r) ==
  /\ At(r, "recalc")
  /\ Goto(r, [req[r] EXCEPT !.pc = "recalcGross"])
  /\ UNCHANGED <<status, payments, cancelled>>

RecalcInvoice(r) ==
  /\ At(r, "recalc")
  /\ Goto(r, IF status[req[r].inv] = "cancelled"
             THEN AfterRecalc(req[r])
             ELSE [req[r] EXCEPT !.pc = "recalcGross"])
  /\ UNCHANGED <<status, payments, cancelled>>

RecalcGross(r) ==
  /\ At(r, "recalcGross")
  /\ Goto(r, [req[r] EXCEPT !.pc = "recalcNet", !.gross = Gross(req[r].inv)])
  /\ UNCHANGED <<status, payments, cancelled>>

RecalcNet(r) ==
  /\ At(r, "recalcNet")
  /\ LET i == req[r].inv
     IN  Goto(r, [req[r] EXCEPT !.pc = "recalcWrite", !.gross = 0,
                    !.next = RecalculatedStatus(req[r].gross, Net(i), Total[i])])
  /\ UNCHANGED <<status, payments, cancelled>>

(* The update has no condition on the status it overwrites.                *)
RecalcWrite(r) ==
  /\ At(r, "recalcWrite")
  /\ status' = [status EXCEPT ![req[r].inv] = req[r].next]
  /\ Goto(r, AfterRecalc([req[r] EXCEPT !.next = "absent"]))
  /\ UNCHANGED <<payments, cancelled>>

Recalculate(r) ==
  RecalcInvoice(r) \/ RecalcGross(r) \/ RecalcNet(r) \/ RecalcWrite(r)

-----------------------------------------------------------------------------
(* recordPayment.                                                          *)

RecordStart(r, i) ==
  /\ At(r, "idle") /\ Room
  /\ status[i] \in Open
  /\ Goto(r, [Idle EXCEPT !.pc = "recordGross", !.op = "record", !.inv = i])
  /\ UNCHANGED <<status, payments, cancelled>>

RecordGross(r) ==
  /\ At(r, "recordGross")
  /\ Goto(r, [req[r] EXCEPT !.pc = "recordPending", !.gross = Gross(req[r].inv)])
  /\ UNCHANGED <<status, payments, cancelled>>

RecordAccept(r) ==
  /\ At(r, "recordPending")
  /\ LET due == Total[req[r].inv] - req[r].gross
         recordable == Recordable(due, Pending(req[r].inv))
     IN  /\ due > 0 /\ recordable > 0
         /\ \E a \in Amounts, m \in Method :
              /\ a <= recordable
              /\ Goto(r, [req[r] EXCEPT !.pc = "recordInsert", !.gross = 0,
                                        !.left = a, !.method = m])
  /\ UNCHANGED <<status, payments, cancelled>>

RecordReject(r) ==
  /\ At(r, "recordPending")
  /\ LET due == Total[req[r].inv] - req[r].gross
         recordable == Recordable(due, Pending(req[r].inv))
     IN  due <= 0 \/ recordable <= 0 \/ \E a \in Amounts : a > recordable
  /\ Goto(r, Idle)
  /\ UNCHANGED <<status, payments, cancelled>>

RecordInsert(r) ==
  /\ At(r, "recordInsert")
  /\ payments' = Append(payments,
                   PaymentRow(req[r].inv, req[r].left, req[r].method))
  /\ Goto(r, [req[r] EXCEPT !.pc = "recalc", !.left = 0, !.method = "cash"])
  /\ UNCHANGED <<status, cancelled>>

RecordPayment(r) ==
  \/ \E i \in Invoice : RecordStart(r, i)
  \/ RecordGross(r) \/ RecordAccept(r) \/ RecordReject(r) \/ RecordInsert(r)

-----------------------------------------------------------------------------
(* collectPayment: read the open invoices, then the recordable balance of  *)
(* each, then spread the amount over them, oldest first.                   *)

CollectStart(r) ==
  /\ At(r, "idle") /\ Room
  /\ Goto(r, [Idle EXCEPT !.pc = "collectOpen", !.op = "collect"])
  /\ \/ \E i \in RecurringInvoice : IssueRecurring(i)
     \/ UNCHANGED status
  /\ UNCHANGED <<payments, cancelled>>

CollectOpen(r) ==
  /\ At(r, "collectOpen")
  /\ LET open == {i \in Invoice : status[i] \in Open}
     IN  Goto(r, IF open = {} THEN Idle
                 ELSE [req[r] EXCEPT !.pc = "collectGross", !.todo = open])
  /\ UNCHANGED <<status, payments, cancelled>>

CollectGross(r) ==
  /\ At(r, "collectGross")
  /\ LET i == Oldest(req[r].todo)
     IN  Goto(r, [req[r] EXCEPT !.pc = "collectPending", !.inv = i,
                                !.gross = Gross(i)])
  /\ UNCHANGED <<status, payments, cancelled>>

CollectPending(r) ==
  /\ At(r, "collectPending")
  /\ LET i == req[r].inv
         rest == req[r].todo \ {i}
     IN  Goto(r, [req[r] EXCEPT
                    !.pc = IF rest = {} THEN "collectDecide" ELSE "collectGross",
                    !.todo = rest, !.inv = NoInvoice, !.gross = 0,
                    !.quota[i] = Recordable(Total[i] - req[r].gross, Pending(i))])
  /\ UNCHANGED <<status, payments, cancelled>>

TotalRecordable(r) == SumFunctionOnSet(req[r].quota, Invoice)

CollectAccept(r) ==
  /\ At(r, "collectDecide")
  /\ \E a \in Amounts, m \in Method :
       /\ 0 < a /\ a <= TotalRecordable(r)
       /\ Goto(r, [req[r] EXCEPT !.pc = "spread", !.left = a, !.method = m])
  /\ UNCHANGED <<status, payments, cancelled>>

CollectReject(r) ==
  /\ At(r, "collectDecide")
  /\ \/ TotalRecordable(r) <= 0
     \/ \E a \in Amounts : a <= 0 \/ a > TotalRecordable(r)
  /\ Goto(r, Idle)
  /\ UNCHANGED <<status, payments, cancelled>>

(* One turn of the loop up to its insert; recalculation follows.           *)
CollectInsert(r) ==
  /\ At(r, "spread")
  /\ LET i == Oldest({j \in Invoice : req[r].quota[j] > 0})
         applied == Min({req[r].left, req[r].quota[i]})
     IN  /\ payments' = Append(payments, PaymentRow(i, applied, req[r].method))
         /\ Goto(r, [req[r] EXCEPT !.pc = "recalc", !.inv = i,
                                   !.quota[i] = 0, !.left = req[r].left - applied])
  /\ UNCHANGED <<status, cancelled>>

CollectPayment(r) ==
  \/ CollectStart(r) \/ CollectOpen(r) \/ CollectGross(r) \/ CollectPending(r)
  \/ CollectAccept(r) \/ CollectReject(r) \/ CollectInsert(r)

-----------------------------------------------------------------------------
(* verifyPayment: accepts a row of either kind, whatever the invoice's     *)
(* status.  The update does not repeat the test made on the row read.      *)

VerifyStart(r, p) ==
  /\ At(r, "idle")
  /\ ~ payments[p].verified
  /\ Goto(r, [Idle EXCEPT !.pc = "verifyWrite", !.op = "verify", !.pay = p])
  /\ UNCHANGED <<status, payments, cancelled>>

(* Mutant of VerifyWrite: the invoice is not recalculated.                 *)
VerifyWithoutRecalc(r) ==
  /\ At(r, "verifyWrite")
  /\ payments' = [payments EXCEPT ![req[r].pay].verified = TRUE]
  /\ Goto(r, Idle)
  /\ UNCHANGED <<status, cancelled>>

VerifyWrite(r) ==
  /\ At(r, "verifyWrite")
  /\ payments' = [payments EXCEPT ![req[r].pay].verified = TRUE]
  /\ Goto(r, [req[r] EXCEPT !.pc = "recalc", !.inv = payments[req[r].pay].invoice,
                            !.pay = 0])
  /\ UNCHANGED <<status, cancelled>>

VerifyPayment(r) ==
  \/ \E p \in DOMAIN payments : VerifyStart(r, p)
  \/ VerifyWrite(r)

-----------------------------------------------------------------------------
(* refundPayment: the refundable rest counts verified refunds only, and a  *)
(* refund of a non-cash payment is inserted unverified.                    *)

(* Mutant of RefundStart: an unverified payment is accepted.               *)
RefundUnverifiedStart(r, p) ==
  /\ At(r, "idle") /\ Room
  /\ payments[p].kind = "payment"
  /\ Goto(r, [Idle EXCEPT !.pc = "refundRead", !.op = "refund", !.pay = p])
  /\ UNCHANGED <<status, payments, cancelled>>

RefundStart(r, p) ==
  /\ At(r, "idle") /\ Room
  /\ payments[p].kind = "payment" /\ payments[p].verified
  /\ Goto(r, [Idle EXCEPT !.pc = "refundRead", !.op = "refund", !.pay = p])
  /\ UNCHANGED <<status, payments, cancelled>>

RefundAccept(r) ==
  /\ At(r, "refundRead")
  /\ LET p == req[r].pay
         max == payments[p].amount - Refunded(p)
     IN  \E a \in Amounts \cup {max} :
           /\ 0 < a /\ a <= max
           /\ Goto(r, [req[r] EXCEPT !.pc = "refundInsert", !.left = a])
  /\ UNCHANGED <<status, payments, cancelled>>

RefundReject(r) ==
  /\ At(r, "refundRead")
  /\ LET max == payments[req[r].pay].amount - Refunded(req[r].pay)
     IN  max <= 0 \/ \E a \in Amounts : a <= 0 \/ a > max
  /\ Goto(r, Idle)
  /\ UNCHANGED <<status, payments, cancelled>>

RefundInsert(r) ==
  /\ At(r, "refundInsert")
  /\ LET p == req[r].pay
     IN  /\ payments' = Append(payments,
                          RefundRow(p, req[r].left, payments[p].method))
         /\ Goto(r, [req[r] EXCEPT !.pc = "recalc", !.inv = payments[p].invoice,
                                   !.pay = 0, !.left = 0])
  /\ UNCHANGED <<status, cancelled>>

RefundPayment(r) ==
  \/ \E p \in DOMAIN payments : RefundStart(r, p)
  \/ RefundAccept(r) \/ RefundReject(r) \/ RefundInsert(r)

-----------------------------------------------------------------------------
(* cancelEnrollment: one READ COMMITTED transaction.  Its reads are        *)
(* separate snapshots, its writes appear together at the commit.           *)

CancelRead(r) ==
  /\ At(r, "idle") /\ Room
  /\ ~ cancelled
  /\ Goto(r, [Idle EXCEPT !.pc = "cancelPlan", !.op = "cancel",
                !.todo = {i \in EnrollmentInvoice : status[i] # "absent"}])
  /\ UNCHANGED <<status, payments, cancelled>>

(* What is left to refund of each verified payment of the invoices read.   *)
Refundable(S) ==
  [p \in UNION {VerifiedPayments(i) : i \in S} |->
     Max({0, payments[p].amount - Refunded(p)})]

(* alloc shares the refund target out, largest refundable payment first.   *)
Allocates(alloc, left, target) ==
  /\ \A p \in DOMAIN left : alloc[p] <= left[p]
  /\ SumFunctionOnSet(alloc, DOMAIN left) = target
  /\ \A p, q \in DOMAIN left :
       left[p] > left[q] /\ alloc[q] > 0 => alloc[p] = left[p]

RefundPlan(alloc, m) ==
  SetToSeq({RefundRow(p, alloc[p], m) : p \in {p \in DOMAIN alloc : alloc[p] > 0}})

CancelPlan(r) ==
  /\ At(r, "cancelPlan")
  /\ LET left == Refundable(req[r].todo)
         netCash == SumFunctionOnSet(left, DOMAIN left)
     IN  \E target \in Amounts \cup {0, netCash}, m \in Method :
           /\ 0 <= target /\ target <= netCash
           /\ \E alloc \in [DOMAIN left -> 0..netCash] :
                /\ Allocates(alloc, left, target)
                /\ Goto(r, [req[r] EXCEPT !.pc = "cancelCommit",
                                          !.plan = RefundPlan(alloc, m)])
  /\ UNCHANGED <<status, payments, cancelled>>

CancelReject(r) ==
  /\ At(r, "cancelPlan")
  /\ LET left == Refundable(req[r].todo)
     IN  \E a \in Amounts : a <= 0 \/ a > SumFunctionOnSet(left, DOMAIN left)
  /\ Goto(r, Idle)
  /\ UNCHANGED <<status, payments, cancelled>>

CancelCommit(r) ==
  /\ At(r, "cancelCommit")
  /\ payments' = payments \o req[r].plan
  /\ status' = [i \in Invoice |->
                  IF i \in req[r].todo THEN "cancelled" ELSE status[i]]
  /\ cancelled' = TRUE
  /\ Goto(r, Idle)

CancelEnrollment(r) ==
  CancelRead(r) \/ CancelPlan(r) \/ CancelReject(r) \/ CancelCommit(r)

-----------------------------------------------------------------------------
(* A request the first check of its handler refuses: a closed invoice, a   *)
(* row already verified, a row that is no verified payment, an enrollment  *)
(* already cancelled.                                                      *)
Refuse(r) ==
  /\ At(r, "idle")
  /\ \/ \E i \in Invoice : status[i] \in Closed
     \/ \E p \in DOMAIN payments : payments[p].verified
     \/ \E p \in DOMAIN payments : payments[p].kind = "refund"
     \/ cancelled
  /\ UNCHANGED vars

(* A handler that has started can end after any statement: the process is  *)
(* restarted, or the statement throws and nothing catches it.              *)
Fail(r) ==
  /\ ~ At(r, "idle")
  /\ Goto(r, Idle)
  /\ UNCHANGED <<status, payments, cancelled>>

Serve(r) ==
  \/ RecordPayment(r) \/ CollectPayment(r) \/ VerifyPayment(r)
  \/ RefundPayment(r) \/ CancelEnrollment(r)
  \/ Recalculate(r) \/ Refuse(r)

Work ==
  \/ \E i \in Invoice \ EnrollmentInvoice : CreateInvoice(i)
  \/ \E i \in CeremonyInvoice : Confirm(i)
  \/ \E i \in ServiceInvoice : AddService(i)
  \/ \E i \in RecurringInvoice : GenerateMonthly(i)
  \/ \E r \in Request : Serve(r)

Next == Work \/ \E r \in Request : Fail(r)

Spec == Init /\ [][Next]_vars

(* A handler under way is not abandoned: the event loop resumes it when    *)
(* the database has answered.  Nothing obliges anyone to start one.        *)
Fairness == \A r \in Request : WF_vars(~ At(r, "idle") /\ Serve(r))

FairSpec == Init /\ [][Work]_vars /\ Fairness

-----------------------------------------------------------------------------
(* Properties.                                                             *)

Row ==
  [kind : {"payment", "refund"}, invoice : Invoice, amount : Int,
   method : {"cash", "transfer"}, verified : BOOLEAN, of : Nat]

PC == {"idle", "recordGross", "recordPending", "recordInsert", "collectOpen",
       "collectGross", "collectPending", "collectDecide", "spread",
       "verifyWrite", "refundRead", "refundInsert", "cancelPlan",
       "cancelCommit", "recalc", "recalcGross", "recalcNet", "recalcWrite"}

Locals ==
  [pc : PC, op : {"none", "record", "collect", "verify", "refund", "cancel"},
   inv : Invoice \cup {NoInvoice}, pay : Nat, gross : Int, next : Statuses,
   left : Int, method : {"cash", "transfer"}, quota : [Invoice -> Nat],
   todo : SUBSET Invoice, plan : Seq(Row)]

(* Every variable keeps its type: statuses from the enum, rows with the    *)
(* columns of the payments table, handlers with the locals they use.       *)
TypeOK ==
  /\ status \in [Invoice -> Statuses]
  /\ payments \in Seq(Row)
  /\ cancelled \in BOOLEAN
  /\ req \in [Request -> Locals]

(* What the sums of invoice i must show for it to have status s.           *)
Earned(s, i) ==
  /\ s = "paid" => Gross(i) >= Total[i]
  /\ s \in {"paid", "partial", "refunded"} => Gross(i) > 0
  /\ s = "refunded" => VerifiedRefunds(i) # {}

(* A status that reports money was earned: a paid invoice is covered by    *)
(* verified payments, a partial or refunded one has some, and a refunded   *)
(* one has a verified refund.  The status is written by a handler that     *)
(* read the sums two statements earlier, while others were at work.        *)
StatusEarned == \A i \in Invoice : Earned(status[i], i)

(* f is no larger than the verified payment of its own invoice it refunds. *)
Backed(f, rows) ==
  /\ f.of \in DOMAIN rows
  /\ 0 < f.amount /\ f.amount <= rows[f.of].amount
  /\ rows[f.of].kind = "payment" /\ rows[f.of].verified
  /\ rows[f.of].invoice = f.invoice

(* Every refund gives back money that was received: it names a verified    *)
(* payment of the same invoice and is no larger than it, even when the     *)
(* payment was read long before the refund row was inserted.               *)
RefundsMatchPayments ==
  \A k \in DOMAIN payments :
    payments[k].kind = "refund" => Backed(payments[k], payments)

(* What was collected and what awaits verification never exceed the        *)
(* invoice, whichever of confirm, recordPayment and collectPayment took    *)
(* it and wherever a handler stopped half way.                             *)
NoOvercollection ==
  \A i \in Invoice : Gross(i) + Pending(i) <= Total[i]

(* "A refund never downgrades a paid invoice back to partial"              *)
(* (finance.service.ts:1433): a paid invoice stays closed.                 *)
PaidNeverReopens ==
  [][\A i \in Invoice : status[i] = "paid" => status'[i] \in Closed]_vars

(* Cancelling an enrollment voids its invoices for good: verifying or      *)
(* refunding a payment afterwards does not bring one back.                 *)
CancelledIsFinal ==
  [][\A i \in Invoice : status[i] = "cancelled" => status'[i] = "cancelled"]_vars

(* An invoice whose verified payments cover it is eventually closed: the   *)
(* status catches up with the rows.                                        *)
CoveredIsClosed ==
  \A i \in Invoice :
    (Total[i] > 0 /\ Gross(i) >= Total[i]) ~> (status[i] \in Closed)

(* The account as Ledger has it: its rows summed up.                       *)
GrossOf    == [i \in Invoice |-> Gross(i)]
PendingOf  == [i \in Invoice |-> Pending(i)]
ReturnedOf == [i \in Invoice |-> SumFunctionOnSet(AmountOf, VerifiedRefunds(i))]

Account == INSTANCE Ledger WITH
  collected <- GrossOf, awaiting <- PendingOf, returned <- ReturnedOf

(* Statement by statement, and with handlers that fail, the handlers keep  *)
(* the promise of Ledger: no money is taken for an invoice that was never  *)
(* issued or given back that was not collected, verifying loses none, and  *)
(* a status is written only if the money justifies it by then.             *)
ImplementsLedger == Account!Spec

=============================================================================
