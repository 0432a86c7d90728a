------------------------- MODULE Receivables_proofs -------------------------
(* Proofs about Receivables for every set of invoices, requests and        *)
(* amounts, with any number of handlers in flight.                         *)
EXTENDS Receivables, FiniteSums

(* What a handler's locals satisfy at each program counter, given the     *)
(* payments table's keys.                                                 *)
OnInvoice ==
  {"recordGross", "recordPending", "recordInsert", "collectPending",
   "recalc", "recalcGross", "recalcNet", "recalcWrite"}

OnPayment == {"verifyWrite", "refundRead", "refundInsert"}

LocalOK(q, rows) ==
  /\ q \in Locals
  /\ q.pc \in OnInvoice => q.inv \in Invoice
  /\ q.pc \in OnPayment => q.pay \in rows
  /\ q.pc = "collectGross" => q.todo # {}
  /\ q.pc = "spread" => \E i \in Invoice : q.quota[i] > 0

LedgerType ==
  /\ status \in [Invoice -> Statuses]
  /\ payments \in Seq(Row)
  /\ cancelled \in BOOLEAN

TypeInv ==
  /\ LedgerType
  /\ DOMAIN req = Request
  /\ req = [r \in Request |-> req[r]]
  /\ \A r \in Request : LocalOK(req[r], DOMAIN payments)

(* The handlers that insert an invoice; the others are requests served.    *)
Issue(i) ==
  CreateInvoice(i) \/ Confirm(i) \/ AddService(i) \/ GenerateMonthly(i)

LEMMA WorkCases ==
  Work => (\E i \in Invoice : Issue(i)) \/ (\E r \in Request : Serve(r))
  BY InvoiceAssumption DEF Work, Issue, CeremonyInvoice

LEMMA TypeInvImpliesTypeOK == TypeInv => TypeOK
  BY DEF TypeInv, LedgerType, TypeOK, LocalOK

(* Rows of a table that only grows keep what they say, except that a       *)
(* payment may become verified.                                            *)
Grows ==
  /\ DOMAIN payments \subseteq DOMAIN payments'
  /\ \A k \in DOMAIN payments :
       /\ payments'[k].kind = payments[k].kind
       /\ payments'[k].invoice = payments[k].invoice
       /\ payments'[k].amount = payments[k].amount
       /\ payments'[k].of = payments[k].of
       /\ payments[k].verified => payments'[k].verified

(* A step of handler r that leaves sound locals behind keeps all of them.  *)
LEMMA GotoKeepsLocals ==
  ASSUME TypeInv, NEW r \in Request, NEW q, Goto(r, q),
         LocalOK(q, DOMAIN payments'),
         DOMAIN payments \subseteq DOMAIN payments'
  PROVE  /\ DOMAIN req' = Request
         /\ req' = [s \in Request |-> req'[s]]
         /\ \A s \in Request : LocalOK(req'[s], DOMAIN payments')
  BY DEF Goto, TypeInv, LocalOK

-----------------------------------------------------------------------------
(* The data the code computes.                                             *)

LEMMA RowsFinite ==
  ASSUME payments \in Seq(Row)
  PROVE  IsFiniteSet(DOMAIN payments)
<1>1. DOMAIN payments = 1..Len(payments) /\ Len(payments) \in Nat
  OBVIOUS
<1>2. QED BY <1>1, FS_Interval

LEMMA AmountOfType ==
  ASSUME payments \in Seq(Row)
  PROVE  \A k \in DOMAIN payments : AmountOf[k] \in Int /\ payments[k] \in Row
<1>1. \A k \in DOMAIN payments : payments[k] \in Row
  OBVIOUS
<1>2. \A row \in Row : row.amount \in Int
  BY DEF Row
<1>3. QED BY <1>1, <1>2 DEF AmountOf

(* The sums a query returns are integers.                                  *)
LEMMA SumsAreIntegers ==
  ASSUME payments \in Seq(Row)
  PROVE  /\ \A S \in SUBSET DOMAIN payments : SumFunctionOnSet(AmountOf, S) \in Int
         /\ \A i : Gross(i) \in Int /\ Pending(i) \in Int /\ Net(i) \in Int
         /\ \A p : Refunded(p) \in Int
<1>1. ASSUME NEW S \in SUBSET DOMAIN payments
      PROVE  SumFunctionOnSet(AmountOf, S) \in Int
  <2>1. IsFiniteSet(S)
    BY RowsFinite, FS_Subset
  <2>2. \A k \in S : AmountOf[k] \in Int
    BY AmountOfType
  <2>3. QED BY <2>1, <2>2, SumType
<1>2. \A i : /\ VerifiedPayments(i) \in SUBSET DOMAIN payments
             /\ UnverifiedPayments(i) \in SUBSET DOMAIN payments
             /\ VerifiedRefunds(i) \in SUBSET DOMAIN payments
             /\ RefundsOf(i) \in SUBSET DOMAIN payments
  BY DEF VerifiedPayments, UnverifiedPayments, VerifiedRefunds, RefundsOf
<1>3. QED BY <1>1, <1>2 DEF Gross, Pending, Net, Refunded

LEMMA MaxOfTwo ==
  ASSUME NEW a \in Int, NEW b \in Int
  PROVE  Max({a, b}) = IF a >= b THEN a ELSE b
  BY DEF Max

LEMMA MinOfTwo ==
  ASSUME NEW a \in Int, NEW b \in Int
  PROVE  Min({a, b}) = IF a <= b THEN a ELSE b
  BY DEF Min

LEMMA RecordableType ==
  ASSUME NEW due \in Int, NEW pending \in Int
  PROVE  Recordable(due, pending) \in Nat
  BY MaxOfTwo DEF Recordable

LEMMA OldestIsMember ==
  ASSUME NEW S \in SUBSET Invoice, S # {}
  PROVE  Oldest(S) \in S
<1>1. \A i \in S : IssueDate[i] \in Nat
  BY InvoiceAssumption
<1>2. \E i \in S : \A j \in S : IssueDate[i] <= IssueDate[j]
  BY <1>1, LeastWeight
<1>3. QED BY <1>2 DEF Oldest

LEMMA RecalculatedStatusType ==
  ASSUME NEW g, NEW n, NEW t
  PROVE  RecalculatedStatus(g, n, t) \in {"unpaid", "partial", "paid", "refunded"}
  BY DEF RecalculatedStatus

(* Appending rows of the table's type keeps the type and the old rows.     *)
LEMMA AppendGrows ==
  ASSUME payments \in Seq(Row), NEW row \in Row, payments' = Append(payments, row)
  PROVE  /\ payments' \in Seq(Row)
         /\ DOMAIN payments' = DOMAIN payments \cup {Len(payments) + 1}
         /\ Len(payments) + 1 \notin DOMAIN payments
         /\ \A k \in DOMAIN payments : payments'[k] = payments[k]
         /\ payments'[Len(payments) + 1] = row
         /\ Grows
  BY DEF Grows

LEMMA ConcatGrows ==
  ASSUME payments \in Seq(Row), NEW rows \in Seq(Row), payments' = payments \o rows
  PROVE  /\ payments' \in Seq(Row)
         /\ \A k \in DOMAIN payments : k \in DOMAIN payments' /\ payments'[k] = payments[k]
         /\ \A k \in DOMAIN payments' \ DOMAIN payments :
              \E j \in DOMAIN rows : payments'[k] = rows[j]
         /\ Grows
<1>1. /\ Len(payments) \in Nat /\ Len(rows) \in Nat
      /\ DOMAIN payments = 1..Len(payments) /\ DOMAIN rows = 1..Len(rows)
  OBVIOUS
<1>2. /\ payments' \in Seq(Row) /\ Len(payments') = Len(payments) + Len(rows)
      /\ DOMAIN payments' = 1..Len(payments')
  OBVIOUS
<1>3. \A k \in 1..(Len(payments) + Len(rows)) :
        payments'[k] = IF k <= Len(payments) THEN payments[k] ELSE rows[k - Len(payments)]
  OBVIOUS
<1>4. \A k \in DOMAIN payments' \ DOMAIN payments :
        k - Len(payments) \in DOMAIN rows /\ payments'[k] = rows[k - Len(payments)]
  BY <1>1, <1>2, <1>3
<1>5. \A k \in DOMAIN payments : k \in DOMAIN payments' /\ payments'[k] = payments[k]
  BY <1>1, <1>2, <1>3
<1>6. QED BY <1>2, <1>4, <1>5 DEF Grows

LEMMA SameGrows ==
  ASSUME payments' = payments
  PROVE  Grows
  BY DEF Grows

-----------------------------------------------------------------------------
(* The locals each step leaves behind are sound.  The table of payments    *)
(* has grown to the rows D' by then, or is as it was.                      *)

LEMMA IdleOK == ASSUME NEW D PROVE LocalOK(Idle, D)
  BY DEF LocalOK, Idle, Locals, PC, Statuses, Open, Closed, OnInvoice, OnPayment

LEMMA AfterRecalcOK ==
  ASSUME NEW D, NEW q, LocalOK(q, D)
  PROVE  LocalOK(AfterRecalc(q), D)
<1>1. CASE q.op = "collect" /\ q.left > 0 /\ \E i \in Invoice : q.quota[i] > 0
  BY <1>1 DEF AfterRecalc, LocalOK, Locals, PC, OnInvoice, OnPayment
<1>2. CASE ~ (q.op = "collect" /\ q.left > 0 /\ \E i \in Invoice : q.quota[i] > 0)
  BY <1>2, IdleOK DEF AfterRecalc
<1>3. QED BY <1>1, <1>2

(* What a step of handler r has to establish to keep the types.            *)
LEMMA StepKeepsType ==
  ASSUME TypeInv, NEW r \in Request, NEW l, Goto(r, l),
         LocalOK(l, DOMAIN payments'), LedgerType',
         DOMAIN payments \subseteq DOMAIN payments'
  PROVE  TypeInv'
  BY GotoKeepsLocals DEF TypeInv

LEMMA LocalStepKeepsType ==
  ASSUME TypeInv, NEW r \in Request, NEW l, Goto(r, l), LocalOK(l, DOMAIN payments),
         UNCHANGED <<status, payments, cancelled>>
  PROVE  TypeInv'
  BY StepKeepsType DEF TypeInv, LedgerType

(* The facts about the handler at hand that every case starts from.        *)
LEMMA AtStep ==
  ASSUME TypeInv, NEW r \in Request, NEW pc, At(r, pc)
  PROVE  /\ LocalOK(req[r], DOMAIN payments) /\ req[r] \in Locals /\ req[r].pc = pc
         /\ pc \in OnInvoice => req[r].inv \in Invoice
         /\ pc \in OnPayment => req[r].pay \in DOMAIN payments
         /\ status \in [Invoice -> Statuses] /\ payments \in Seq(Row) /\ cancelled \in BOOLEAN
  BY DEF TypeInv, LedgerType, LocalOK, At

LEMMA ProgramCounters ==
  /\ "idle" \in PC /\ "recordGross" \in PC /\ "recordPending" \in PC
  /\ "recordInsert" \in PC /\ "collectOpen" \in PC /\ "collectGross" \in PC
  /\ "collectPending" \in PC /\ "collectDecide" \in PC /\ "spread" \in PC
  /\ "verifyWrite" \in PC /\ "refundRead" \in PC /\ "refundInsert" \in PC
  /\ "cancelPlan" \in PC /\ "cancelCommit" \in PC /\ "recalc" \in PC
  /\ "recalcGross" \in PC /\ "recalcNet" \in PC /\ "recalcWrite" \in PC
  BY DEF PC

LEMMA SmallNumbers == 0 \in Int /\ 0 \in Nat
  OBVIOUS

(* The steps of recalculateInvoiceStatus keep the type.                    *)
LEMMA RecalculateType ==
  ASSUME TypeInv, NEW r \in Request, Recalculate(r)
  PROVE  TypeInv'
<1> DEFINE q == req[r]
           D == DOMAIN payments
<1>1. CASE RecalcInvoice(r)
  <2> DEFINE l == [q EXCEPT !.pc = "recalcGross"]
  <2>1. LocalOK(q, D) /\ q \in Locals /\ q.inv \in Invoice
    BY <1>1, AtStep DEF RecalcInvoice, OnInvoice
  <2>2. l \in Locals
    BY Zenon, <2>1, ProgramCounters DEF Locals
  <2>3. LocalOK(l, D)
    BY <2>1, <2>2 DEF LocalOK, Locals, OnInvoice, OnPayment
  <2>4. LocalOK(AfterRecalc(q), D)
    BY <2>1, AfterRecalcOK
  <2> HIDE DEF l
  <2>5. QED BY <1>1, <2>3, <2>4, LocalStepKeepsType DEF RecalcInvoice, l
<1>2. CASE RecalcGross(r)
  <2> DEFINE l == [q EXCEPT !.pc = "recalcNet", !.gross = Gross(q.inv)]
  <2>1. q \in Locals /\ q.inv \in Invoice /\ Gross(q.inv) \in Int
    BY <1>2, AtStep, SumsAreIntegers DEF RecalcGross, OnInvoice
  <2>2. l \in Locals
    BY Zenon, <2>1, ProgramCounters DEF Locals
  <2>3. LocalOK(l, D)
    BY <2>1, <2>2 DEF LocalOK, Locals, OnInvoice, OnPayment
  <2> HIDE DEF l
  <2>4. QED BY <1>2, <2>3, LocalStepKeepsType DEF RecalcGross, l
<1>3. CASE RecalcNet(r)
  <2> DEFINE n == RecalculatedStatus(q.gross, Net(q.inv), Total[q.inv])
             l == [q EXCEPT !.pc = "recalcWrite", !.gross = 0, !.next = n]
  <2>1. q \in Locals /\ q.inv \in Invoice
    BY <1>3, AtStep DEF RecalcNet, OnInvoice
  <2>2. n \in Statuses
    BY RecalculatedStatusType DEF Statuses, Open, Closed
  <2> HIDE DEF n
  <2>3. l \in Locals
    BY Zenon, <2>1, <2>2, ProgramCounters, SmallNumbers DEF Locals
  <2>4. LocalOK(l, D)
    BY <2>1, <2>3 DEF LocalOK, Locals, OnInvoice, OnPayment
  <2> HIDE DEF l
  <2>5. QED BY <1>3, <2>4, LocalStepKeepsType DEF RecalcNet, l, n
<1>4. CASE RecalcWrite(r)
  <2> DEFINE l == [q EXCEPT !.next = "absent"]
  <2>1. /\ LocalOK(q, D) /\ q \in Locals /\ q.pc = "recalcWrite" /\ q.inv \in Invoice
        /\ LedgerType
    BY <1>4, AtStep DEF RecalcWrite, OnInvoice, LedgerType
  <2>2. "absent" \in Statuses /\ q.next \in Statuses
    BY <2>1 DEF Locals, Statuses
  <2>3. l \in Locals
    BY Zenon, <2>1, <2>2 DEF Locals
  <2>4. LocalOK(l, D)
    BY <2>1, <2>3 DEF LocalOK, Locals, OnInvoice, OnPayment
  <2>5. LocalOK(AfterRecalc(l), D)
    BY <2>4, AfterRecalcOK
  <2>6. LedgerType'
    BY <1>4, <2>1, <2>2 DEF RecalcWrite, LedgerType
  <2> HIDE DEF l
  <2>7. QED BY <1>4, <2>5, <2>6, StepKeepsType DEF RecalcWrite, l
<1>5. QED BY <1>1, <1>2, <1>3, <1>4 DEF Recalculate

LEMMA PaymentRowType ==
  ASSUME NEW i \in Invoice, NEW a \in Int, NEW m \in {"cash", "transfer"}
  PROVE  PaymentRow(i, a, m) \in Row
<1>1. (m = "cash") \in BOOLEAN
  OBVIOUS
<1>2. QED BY Zenon, <1>1, SmallNumbers DEF PaymentRow, Row

LEMMA RefundRowType ==
  ASSUME payments \in Seq(Row), NEW p \in DOMAIN payments, NEW a \in Int,
         NEW m \in {"cash", "transfer"}
  PROVE  RefundRow(p, a, m) \in Row
<1>1. (m = "cash") \in BOOLEAN
  OBVIOUS
<1>2. payments[p].invoice \in Invoice /\ p \in Nat
  <2>1. payments[p] \in Row /\ p \in Nat
    OBVIOUS
  <2>2. QED BY Zenon, <2>1 DEF Row
<1>3. QED BY Zenon, <1>1, <1>2 DEF RefundRow, Row

(* A handler that inserts a row keeps the type.                            *)
LEMMA InsertKeepsType ==
  ASSUME TypeInv, NEW r \in Request, NEW l, Goto(r, l), NEW row \in Row,
         payments' = Append(payments, row), UNCHANGED <<status, cancelled>>,
         l \in Locals, l.pc = "recalc", l.inv \in Invoice
  PROVE  TypeInv'
<1>1. payments \in Seq(Row) /\ LedgerType
  BY DEF TypeInv, LedgerType
<1>2. payments' \in Seq(Row) /\ DOMAIN payments \subseteq DOMAIN payments'
  BY <1>1, AppendGrows
<1>3. LedgerType'
  BY <1>1, <1>2 DEF LedgerType
<1>4. LocalOK(l, DOMAIN payments')
  BY DEF LocalOK, OnPayment
<1>5. QED BY <1>2, <1>3, <1>4, StepKeepsType

LEMMA RecordPaymentType ==
  ASSUME TypeInv, NEW r \in Request, RecordPayment(r)
  PROVE  TypeInv'
<1> DEFINE q == req[r]
           D == DOMAIN payments
<1>1. ASSUME NEW i \in Invoice, RecordStart(r, i)
      PROVE  TypeInv'
  <2> DEFINE l == [Idle EXCEPT !.pc = "recordGross", !.op = "record", !.inv = i]
  <2>1. Idle \in Locals
    BY IdleOK DEF LocalOK
  <2>2. l \in Locals
    BY Zenon, <2>1, ProgramCounters DEF Locals
  <2>3. LocalOK(l, D)
    BY <2>1, <2>2 DEF LocalOK, Locals, OnInvoice, OnPayment
  <2> HIDE DEF l
  <2>4. QED BY <1>1, <2>3, LocalStepKeepsType DEF RecordStart, l
<1>2. CASE RecordGross(r)
  <2> DEFINE l == [q EXCEPT !.pc = "recordPending", !.gross = Gross(q.inv)]
  <2>1. q \in Locals /\ q.inv \in Invoice /\ Gross(q.inv) \in Int
    BY <1>2, AtStep, SumsAreIntegers DEF RecordGross, OnInvoice
  <2>2. l \in Locals
    BY Zenon, <2>1, ProgramCounters DEF Locals
  <2>3. LocalOK(l, D)
    BY <2>1, <2>2 DEF LocalOK, Locals, OnInvoice, OnPayment
  <2> HIDE DEF l
  <2>4. QED BY <1>2, <2>3, LocalStepKeepsType DEF RecordGross, l
<1>3. CASE RecordAccept(r)
  <2>1. q \in Locals /\ q.inv \in Invoice
    BY <1>3, AtStep DEF RecordAccept, OnInvoice
  <2>2. PICK a \in Amounts, m \in Method :
          Goto(r, [q EXCEPT !.pc = "recordInsert", !.gross = 0, !.left = a, !.method = m])
    BY <1>3 DEF RecordAccept
  <2> DEFINE l == [q EXCEPT !.pc = "recordInsert", !.gross = 0, !.left = a, !.method = m]
  <2>3. a \in Int /\ m \in {"cash", "transfer"}
    BY RequestAssumption
  <2>4. l \in Locals
    BY Zenon, <2>1, <2>3, ProgramCounters, SmallNumbers DEF Locals
  <2>5. LocalOK(l, D)
    BY <2>1, <2>4 DEF LocalOK, Locals, OnInvoice, OnPayment
  <2> HIDE DEF l
  <2>6. QED BY <1>3, <2>2, <2>5, LocalStepKeepsType DEF RecordAccept, l
<1>4. CASE RecordReject(r)
  BY <1>4, IdleOK, LocalStepKeepsType DEF RecordReject
<1>5. CASE RecordInsert(r)
  <2> DEFINE l == [q EXCEPT !.pc = "recalc", !.left = 0, !.method = "cash"]
             row == PaymentRow(q.inv, q.left, q.method)
  <2>1. q \in Locals /\ q.inv \in Invoice
    BY <1>5, AtStep DEF RecordInsert, OnInvoice
  <2>2. row \in Row
    <3>1. q.left \in Int /\ q.method \in {"cash", "transfer"}
      BY Zenon, <2>1 DEF Locals
    <3>2. QED BY <2>1, <3>1, PaymentRowType
  <2>3. l \in Locals
    <3>1. "cash" \in {"cash", "transfer"}
      OBVIOUS
    <3>2. QED BY Zenon, <2>1, <3>1, ProgramCounters, SmallNumbers DEF Locals
  <2>4. l.pc = "recalc" /\ l.inv \in Invoice
    BY <2>1 DEF Locals
  <2> HIDE DEF l, row
  <2>5. QED BY <1>5, <2>2, <2>3, <2>4, InsertKeepsType DEF RecordInsert, l, row
<1>6. QED BY <1>1, <1>2, <1>3, <1>4, <1>5 DEF RecordPayment

LEMMA VerifyPaymentType ==
  ASSUME TypeInv, NEW r \in Request, VerifyPayment(r)
  PROVE  TypeInv'
<1> DEFINE q == req[r]
           D == DOMAIN payments
<1>1. ASSUME NEW p \in D, VerifyStart(r, p)
      PROVE  TypeInv'
  <2> DEFINE l == [Idle EXCEPT !.pc = "verifyWrite", !.op = "verify", !.pay = p]
  <2>1. Idle \in Locals /\ p \in Nat
    BY IdleOK DEF LocalOK, TypeInv, LedgerType
  <2>2. l \in Locals
    BY Zenon, <2>1, ProgramCounters DEF Locals
  <2>3. LocalOK(l, D)
    BY <2>1, <2>2 DEF LocalOK, Locals, OnInvoice, OnPayment
  <2> HIDE DEF l
  <2>4. QED BY <1>1, <2>3, LocalStepKeepsType DEF VerifyStart, l
<1>2. CASE VerifyWrite(r)
  <2> DEFINE l == [q EXCEPT !.pc = "recalc", !.inv = payments[q.pay].invoice, !.pay = 0]
  <2>1. q \in Locals /\ q.pay \in DOMAIN payments /\ payments \in Seq(Row) /\ LedgerType
    BY <1>2, AtStep DEF VerifyWrite, OnPayment, LedgerType
  <2>2. payments[q.pay] \in Row /\ payments[q.pay].invoice \in Invoice
    <3>1. payments[q.pay] \in Row
      BY <2>1
    <3>2. QED BY Zenon, <3>1 DEF Row
  <2>3. l \in Locals
    BY Zenon, <2>1, <2>2, ProgramCounters, SmallNumbers DEF Locals
  <2>4. LocalOK(l, D)
    BY <2>1, <2>2, <2>3 DEF LocalOK, Locals, OnInvoice, OnPayment
  <2>5. [payments[q.pay] EXCEPT !.verified = TRUE] \in Row
    BY Zenon, <2>2 DEF Row
  <2>6. payments' = [payments EXCEPT ![q.pay] = [payments[q.pay] EXCEPT !.verified = TRUE]]
    BY <1>2 DEF VerifyWrite
  <2>7. payments' \in Seq(Row) /\ DOMAIN payments' = D
    BY <2>1, <2>5, <2>6
  <2>8. LedgerType'
    BY <1>2, <2>1, <2>7 DEF VerifyWrite, LedgerType
  <2> HIDE DEF l
  <2>9. QED BY <1>2, <2>4, <2>7, <2>8, StepKeepsType DEF VerifyWrite, l
<1>3. QED BY <1>1, <1>2 DEF VerifyPayment

LEMMA RefundPaymentType ==
  ASSUME TypeInv, NEW r \in Request, RefundPayment(r)
  PROVE  TypeInv'
<1> DEFINE q == req[r]
           D == DOMAIN payments
<1>1. ASSUME NEW p \in D, RefundStart(r, p)
      PROVE  TypeInv'
  <2> DEFINE l == [Idle EXCEPT !.pc = "refundRead", !.op = "refund", !.pay = p]
  <2>1. Idle \in Locals /\ p \in Nat
    BY IdleOK DEF LocalOK, TypeInv, LedgerType
  <2>2. l \in Locals
    BY Zenon, <2>1, ProgramCounters DEF Locals
  <2>3. LocalOK(l, D)
    BY <2>1, <2>2 DEF LocalOK, Locals, OnInvoice, OnPayment
  <2> HIDE DEF l
  <2>4. QED BY <1>1, <2>3, LocalStepKeepsType DEF RefundStart, l
<1>2. CASE RefundAccept(r)
  <2> DEFINE max == payments[q.pay].amount - Refunded(q.pay)
  <2>1. q \in Locals /\ q.pay \in D /\ payments \in Seq(Row)
    BY <1>2, AtStep DEF RefundAccept, OnPayment
  <2>2. PICK a \in Amounts \cup {max} :
          Goto(r, [q EXCEPT !.pc = "refundInsert", !.left = a])
    BY <1>2 DEF RefundAccept
  <2> DEFINE l == [q EXCEPT !.pc = "refundInsert", !.left = a]
  <2>3. a \in Int
    <3>1. payments[q.pay].amount \in Int
      BY <2>1, AmountOfType DEF AmountOf
    <3>2. Refunded(q.pay) \in Int
      BY <2>1, SumsAreIntegers
    <3>3. QED BY <2>2, <3>1, <3>2, RequestAssumption
  <2>4. l \in Locals
    BY Zenon, <2>1, <2>3, ProgramCounters DEF Locals
  <2>5. LocalOK(l, D)
    BY <2>1, <2>4 DEF LocalOK, Locals, OnInvoice, OnPayment
  <2> HIDE DEF l
  <2>6. QED BY <1>2, <2>2, <2>5, LocalStepKeepsType DEF RefundAccept, l
<1>3. CASE RefundReject(r)
  BY <1>3, IdleOK, LocalStepKeepsType DEF RefundReject
<1>4. CASE RefundInsert(r)
  <2> DEFINE p == q.pay
             row == RefundRow(p, q.left, payments[p].method)
             l == [q EXCEPT !.pc = "recalc", !.inv = payments[p].invoice, !.pay = 0, !.left = 0]
  <2>1. q \in Locals /\ p \in D /\ payments \in Seq(Row)
    BY <1>4, AtStep DEF RefundInsert, OnPayment
  <2>2. /\ payments[p].invoice \in Invoice /\ payments[p].method \in {"cash", "transfer"}
        /\ q.left \in Int
    <3>1. payments[p] \in Row
      BY <2>1
    <3>2. QED BY Zenon, <2>1, <3>1 DEF Row, Locals
  <2>3. row \in Row
    BY <2>1, <2>2, RefundRowType
  <2>4. l \in Locals
    BY Zenon, <2>1, <2>2, ProgramCounters, SmallNumbers DEF Locals
  <2>5. l.pc = "recalc" /\ l.inv \in Invoice
    BY <2>1, <2>2 DEF Locals
  <2> HIDE DEF l, row
  <2>6. QED BY <1>4, <2>3, <2>4, <2>5, InsertKeepsType DEF RefundInsert, l, row
<1>5. QED BY <1>1, <1>2, <1>3, <1>4 DEF RefundPayment

LEMMA IssueRecurringType ==
  ASSUME TypeInv, NEW i \in Invoice, IssueRecurring(i), UNCHANGED <<payments, cancelled>>
  PROVE  LedgerType'
  BY DEF IssueRecurring, TypeInv, LedgerType, Statuses, Open

LEMMA CollectPaymentType ==
  ASSUME TypeInv, NEW r \in Request, CollectPayment(r)
  PROVE  TypeInv'
<1> DEFINE q == req[r]
           D == DOMAIN payments
<1>1. CASE CollectStart(r)
  <2> DEFINE l == [Idle EXCEPT !.pc = "collectOpen", !.op = "collect"]
  <2>1. Idle \in Locals
    BY IdleOK DEF LocalOK
  <2>2. l \in Locals
    BY Zenon, <2>1, ProgramCounters DEF Locals
  <2>3. LocalOK(l, D)
    BY <2>1, <2>2 DEF LocalOK, Locals, OnInvoice, OnPayment
  <2>4. LedgerType'
    <3>1. CASE UNCHANGED status
      BY <1>1, <3>1 DEF CollectStart, TypeInv, LedgerType
    <3>2. CASE \E i \in RecurringInvoice : IssueRecurring(i)
      BY <1>1, <3>2, IssueRecurringType, InvoiceAssumption DEF CollectStart
    <3>3. QED BY <1>1, <3>1, <3>2 DEF CollectStart
  <2> HIDE DEF l
  <2>5. QED BY <1>1, <2>3, <2>4, StepKeepsType DEF CollectStart, l
<1>2. CASE CollectOpen(r)
  <2> DEFINE open == {i \in Invoice : status[i] \in Open}
             l == [q EXCEPT !.pc = "collectGross", !.todo = open]
  <2>1. q \in Locals
    BY <1>2, AtStep DEF CollectOpen
  <2>2. Goto(r, IF open = {} THEN Idle ELSE l) /\ UNCHANGED <<status, payments, cancelled>>
    BY <1>2 DEF CollectOpen
  <2>3. open \in SUBSET Invoice
    OBVIOUS
  <2> HIDE DEF open
  <2>4. CASE open = {}
    BY <2>2, <2>4, IdleOK, LocalStepKeepsType
  <2>5. CASE open # {}
    <3>1. l \in Locals
      BY Zenon, <2>1, <2>3, ProgramCounters DEF Locals
    <3>2. LocalOK(l, D)
      BY <2>1, <2>5, <3>1 DEF LocalOK, Locals, OnInvoice, OnPayment
    <3> HIDE DEF l
    <3>3. QED BY <2>2, <2>5, <3>2, LocalStepKeepsType
  <2>6. QED BY <2>4, <2>5
<1>3. CASE CollectGross(r)
  <2> DEFINE i == Oldest(q.todo)
             l == [q EXCEPT !.pc = "collectPending", !.inv = i, !.gross = Gross(i)]
  <2>1. q \in Locals /\ q.pc = "collectGross" /\ LocalOK(q, D) /\ payments \in Seq(Row)
    BY <1>3, AtStep DEF CollectGross
  <2>2. i \in Invoice
    <3>1. q.todo \in SUBSET Invoice /\ q.todo # {}
      BY <2>1 DEF LocalOK, Locals
    <3>2. QED BY <3>1, OldestIsMember
  <2>3. Gross(i) \in Int
    BY <2>1, SumsAreIntegers
  <2> HIDE DEF i
  <2>4. l \in Locals
    BY Zenon, <2>1, <2>2, <2>3, ProgramCounters DEF Locals
  <2>5. LocalOK(l, D)
    BY <2>1, <2>2, <2>4 DEF LocalOK, Locals, OnInvoice, OnPayment
  <2> HIDE DEF l
  <2>6. QED BY <1>3, <2>5, LocalStepKeepsType DEF CollectGross, l, i
<1>4. CASE CollectPending(r)
  <2> DEFINE i == q.inv
             rest == q.todo \ {i}
             pc == IF rest = {} THEN "collectDecide" ELSE "collectGross"
             n == Recordable(Total[i] - q.gross, Pending(i))
             quota == [q.quota EXCEPT ![i] = n]
             l == [q EXCEPT !.pc = pc, !.todo = rest, !.inv = NoInvoice, !.gross = 0,
                            !.quota = quota]
  <2>1. q \in Locals /\ i \in Invoice /\ payments \in Seq(Row)
    BY <1>4, AtStep DEF CollectPending, OnInvoice
  <2>2. /\ q.todo \in SUBSET Invoice /\ q.gross \in Int /\ q.quota \in [Invoice -> Nat]
    BY Zenon, <2>1 DEF Locals
  <2>3. n \in Nat
    <3>1. Pending(i) \in Int
      BY <2>1, SumsAreIntegers
    <3>2. Total[i] - q.gross \in Int
      BY <2>1, <2>2, InvoiceAssumption
    <3>3. QED BY <3>1, <3>2, RecordableType
  <2>4. Goto(r, l) /\ UNCHANGED <<status, payments, cancelled>>
    <3>1. Goto(r, [q EXCEPT !.pc = pc, !.todo = rest, !.inv = NoInvoice, !.gross = 0,
                            !.quota[i] = n])
      BY <1>4 DEF CollectPending
    <3>2. [q EXCEPT !.pc = pc, !.todo = rest, !.inv = NoInvoice, !.gross = 0,
                    !.quota[i] = n] = l
      OBVIOUS
    <3>3. QED BY <1>4, <3>1, <3>2 DEF CollectPending
  <2>5. rest \in SUBSET Invoice /\ pc \in PC
    BY <2>2, ProgramCounters
  <2>6. quota \in [Invoice -> Nat]
    BY <2>2, <2>3
  <2>7. NoInvoice \in Invoice \cup {NoInvoice}
    OBVIOUS
  <2>8. (pc = "collectDecide" \/ pc = "collectGross") /\ (pc = "collectGross" => rest # {})
    OBVIOUS
  <2> HIDE DEF i, rest, pc, n, quota
  <2>9. l \in Locals
    BY Zenon, <2>1, <2>5, <2>6, <2>7, SmallNumbers DEF Locals
  <2>10. LocalOK(l, D)
    BY <2>1, <2>8, <2>9 DEF LocalOK, Locals, OnInvoice, OnPayment
  <2> HIDE DEF l
  <2>11. QED BY <2>4, <2>10, LocalStepKeepsType
<1>5. CASE CollectAccept(r)
  <2>1. q \in Locals
    BY <1>5, AtStep DEF CollectAccept
  <2>2. PICK a \in Amounts, m \in Method :
          /\ 0 < a /\ a <= TotalRecordable(r)
          /\ Goto(r, [q EXCEPT !.pc = "spread", !.left = a, !.method = m])
    BY <1>5 DEF CollectAccept
  <2> DEFINE l == [q EXCEPT !.pc = "spread", !.left = a, !.method = m]
  <2>3. a \in Int /\ m \in {"cash", "transfer"}
    BY RequestAssumption
  <2>4. \E i \in Invoice : q.quota[i] > 0
    <3>1. q.quota \in [Invoice -> Nat]
      BY Zenon, <2>1 DEF Locals
    <3> DEFINE f == q.quota
    <3>2. IsFiniteSet(Invoice) /\ \A x \in Invoice : f[x] \in Nat
      BY <3>1, InvoiceAssumption
    <3>3. SumFunctionOnSet(f, Invoice) \in Nat
      <4> HIDE DEF f
      <4>1. QED BY <3>2, SumNonNegative
    <3>4. SumFunctionOnSet(f, Invoice) > 0
      BY <2>2, <2>3, <3>3 DEF TotalRecordable
    <3> HIDE DEF f
    <3>5. \E y \in Invoice : f[y] > 0
      BY <3>2, <3>4, SumPositive
    <3>6. QED BY <3>5 DEF f
  <2>5. l \in Locals
    BY Zenon, <2>1, <2>3, ProgramCounters DEF Locals
  <2>6. l.quota = q.quota /\ l.pc = "spread"
    BY <2>1 DEF Locals
  <2> HIDE DEF l
  <2>7. LocalOK(l, D)
    BY <2>4, <2>5, <2>6 DEF LocalOK, OnInvoice, OnPayment
  <2>8. QED BY <1>5, <2>2, <2>7, LocalStepKeepsType DEF CollectAccept, l
<1>6. CASE CollectReject(r)
  BY <1>6, IdleOK, LocalStepKeepsType DEF CollectReject
<1>7. CASE CollectInsert(r)
  <2> DEFINE i == Oldest({j \in Invoice : q.quota[j] > 0})
             applied == Min({q.left, q.quota[i]})
             row == PaymentRow(i, applied, q.method)
             quota == [q.quota EXCEPT ![i] = 0]
             rest == q.left - applied
             l == [q EXCEPT !.pc = "recalc", !.inv = i, !.quota = quota, !.left = rest]
  <2>1. q \in Locals /\ LocalOK(q, D) /\ q.pc = "spread"
    BY <1>7, AtStep DEF CollectInsert
  <2>2. i \in Invoice
    <3>1. {j \in Invoice : q.quota[j] > 0} # {}
      BY <2>1 DEF LocalOK
    <3>2. QED BY <3>1, OldestIsMember
  <2>3. /\ q.left \in Int /\ q.method \in {"cash", "transfer"}
        /\ q.quota \in [Invoice -> Nat]
    BY Zenon, <2>1 DEF Locals
  <2> HIDE DEF i
  <2>4. applied \in Int
    <3>1. q.quota[i] \in Int
      BY <2>2, <2>3
    <3>2. QED BY <2>3, <3>1, MinOfTwo
  <2> HIDE DEF applied
  <2>5. row \in Row
    BY <2>2, <2>3, <2>4, PaymentRowType
  <2>6. quota \in [Invoice -> Nat] /\ rest \in Int
    BY <2>2, <2>3, <2>4
  <2>7. Goto(r, l) /\ UNCHANGED <<status, cancelled>> /\ payments' = Append(payments, row)
    <3>1. Goto(r, [q EXCEPT !.pc = "recalc", !.inv = i, !.quota[i] = 0,
                            !.left = q.left - applied])
      BY <1>7 DEF CollectInsert, i, applied
    <3>2. [q EXCEPT !.pc = "recalc", !.inv = i, !.quota[i] = 0, !.left = q.left - applied] = l
      OBVIOUS
    <3>3. QED BY <1>7, <3>1, <3>2 DEF CollectInsert, i, applied
  <2> HIDE DEF quota, rest, row
  <2>8. l \in Locals
    BY Zenon, <2>1, <2>2, <2>6, ProgramCounters DEF Locals
  <2>9. l.pc = "recalc" /\ l.inv \in Invoice
    BY <2>1, <2>2 DEF Locals
  <2> HIDE DEF l
  <2>10. QED BY <2>5, <2>7, <2>8, <2>9, InsertKeepsType
<1>8. QED BY <1>1, <1>2, <1>3, <1>4, <1>5, <1>6, <1>7 DEF CollectPayment

(* The refunds of a cancellation are rows of refunds, one per payment that *)
(* gives something back.                                                   *)
LEMMA RefundPlanType ==
  ASSUME payments \in Seq(Row), NEW P \in SUBSET DOMAIN payments, NEW t \in Int,
         NEW alloc \in [P -> 0..t], NEW m \in {"cash", "transfer"}
  PROVE  /\ RefundPlan(alloc, m) \in Seq(Row)
         /\ \A k \in DOMAIN RefundPlan(alloc, m) :
              \E p \in P : alloc[p] > 0 /\ RefundPlan(alloc, m)[k] = RefundRow(p, alloc[p], m)
<1> DEFINE Q == {p \in DOMAIN alloc : alloc[p] > 0}
           S == {RefundRow(p, alloc[p], m) : p \in Q}
           f == [p \in Q |-> RefundRow(p, alloc[p], m)]
<1>1. IsFiniteSet(Q)
  BY RowsFinite, FS_Subset
<1>2. f \in Surjection(Q, S)
  <2>1. f \in [Q -> S] /\ \A y \in S : \E x \in Q : f[x] = y
    OBVIOUS
  <2> HIDE DEF f, Q, S
  <2>2. QED BY <2>1 DEF Surjection
<1>3. IsFiniteSet(S)
  <2> HIDE DEF f, Q, S
  <2>1. QED BY <1>1, <1>2, FS_Surjection
<1>4. S \in SUBSET Row
  <2>1. ASSUME NEW p \in Q PROVE RefundRow(p, alloc[p], m) \in Row
    <3>1. p \in DOMAIN payments /\ alloc[p] \in Int
      OBVIOUS
    <3>2. QED BY <3>1, RefundRowType
  <2>2. QED BY <2>1
<1>5. RefundPlan(alloc, m) = SetToSeq(S)
  BY DEF RefundPlan
<1>6. \A row \in S : \E p \in P : alloc[p] > 0 /\ row = RefundRow(p, alloc[p], m)
  OBVIOUS
<1> HIDE DEF S
<1>7. QED BY <1>3, <1>4, <1>5, <1>6, SetToSeqType

LEMMA RefundableType ==
  ASSUME payments \in Seq(Row), NEW S
  PROVE  /\ DOMAIN Refundable(S) \in SUBSET DOMAIN payments
         /\ \A p \in DOMAIN Refundable(S) :
              /\ Refundable(S)[p] \in Nat
              /\ Refundable(S)[p] = Max({0, payments[p].amount - Refunded(p)})
         /\ SumFunctionOnSet(Refundable(S), DOMAIN Refundable(S)) \in Nat
<1> DEFINE D == DOMAIN Refundable(S)
           f == Refundable(S)
<1>1. D \in SUBSET DOMAIN payments
  BY DEF Refundable, VerifiedPayments
<1>2. \A p \in D : f[p] = Max({0, payments[p].amount - Refunded(p)})
  BY DEF Refundable
<1>3. ASSUME NEW p \in D PROVE f[p] \in Nat
  <2>1. payments[p].amount \in Int /\ Refunded(p) \in Int
    BY <1>1, AmountOfType, SumsAreIntegers DEF AmountOf
  <2> DEFINE rest == payments[p].amount - Refunded(p)
  <2>2. rest \in Int
    BY <2>1
  <2> HIDE DEF rest
  <2>3. Max({0, rest}) \in Nat
    BY <2>2, MaxOfTwo
  <2>4. QED BY <1>2, <2>3 DEF rest
<1>4. IsFiniteSet(D)
  BY <1>1, RowsFinite, FS_Subset
<1>5. SumFunctionOnSet(f, D) \in Nat
  <2> HIDE DEF f, D
  <2>1. QED BY <1>3, <1>4, SumNonNegative
<1>6. QED BY <1>1, <1>2, <1>3, <1>5

LEMMA CancelEnrollmentType ==
  ASSUME TypeInv, NEW r \in Request, CancelEnrollment(r)
  PROVE  TypeInv'
<1> DEFINE q == req[r]
           D == DOMAIN payments
<1>1. CASE CancelRead(r)
  <2> DEFINE read == {i \in EnrollmentInvoice : status[i] # "absent"}
             l == [Idle EXCEPT !.pc = "cancelPlan", !.op = "cancel", !.todo = read]
  <2>1. Idle \in Locals /\ read \in SUBSET Invoice
    BY IdleOK, InvoiceAssumption DEF LocalOK
  <2> HIDE DEF read
  <2>2. l \in Locals
    BY Zenon, <2>1, ProgramCounters DEF Locals
  <2>3. LocalOK(l, D)
    BY <2>1, <2>2 DEF LocalOK, Locals, OnInvoice, OnPayment
  <2> HIDE DEF l
  <2>4. QED BY <1>1, <2>3, LocalStepKeepsType DEF CancelRead, l, read
<1>2. CASE CancelPlan(r)
  <2> DEFINE left == Refundable(q.todo)
             netCash == SumFunctionOnSet(left, DOMAIN left)
  <2>1. q \in Locals /\ payments \in Seq(Row)
    BY <1>2, AtStep DEF CancelPlan
  <2>2. PICK m \in Method, alloc \in [DOMAIN left -> 0..netCash] :
          Goto(r, [q EXCEPT !.pc = "cancelCommit", !.plan = RefundPlan(alloc, m)])
    BY <1>2 DEF CancelPlan
  <2> DEFINE plan == RefundPlan(alloc, m)
             l == [q EXCEPT !.pc = "cancelCommit", !.plan = plan]
  <2>3. plan \in Seq(Row)
    <3>1. DOMAIN left \in SUBSET DOMAIN payments /\ netCash \in Int
      BY <2>1, RefundableType
    <3>2. m \in {"cash", "transfer"}
      BY RequestAssumption
    <3> HIDE DEF left, netCash
    <3>3. QED BY <2>1, <2>2, <3>1, <3>2, RefundPlanType
  <2> HIDE DEF plan
  <2>4. l \in Locals
    BY Zenon, <2>1, <2>3, ProgramCounters DEF Locals
  <2>5. LocalOK(l, D)
    BY <2>1, <2>4 DEF LocalOK, Locals, OnInvoice, OnPayment
  <2> HIDE DEF l
  <2>6. QED BY <1>2, <2>2, <2>5, LocalStepKeepsType DEF CancelPlan, l, plan
<1>3. CASE CancelReject(r)
  BY <1>3, IdleOK, LocalStepKeepsType DEF CancelReject
<1>4. CASE CancelCommit(r)
  <2>1. q \in Locals /\ payments \in Seq(Row) /\ status \in [Invoice -> Statuses]
    BY <1>4, AtStep DEF CancelCommit
  <2>2. q.plan \in Seq(Row)
    BY Zenon, <2>1 DEF Locals
  <2>3. payments' \in Seq(Row) /\ D \subseteq DOMAIN payments'
    BY <1>4, <2>1, <2>2, ConcatGrows DEF CancelCommit
  <2>4. LedgerType'
    BY <1>4, <2>1, <2>3 DEF CancelCommit, LedgerType, Statuses, Closed
  <2>5. QED BY <1>4, <2>3, <2>4, IdleOK, StepKeepsType DEF CancelCommit
<1>5. QED BY <1>1, <1>2, <1>3, <1>4 DEF CancelEnrollment

(* Inserting an invoice keeps the type.                                    *)
LEMMA IssueType ==
  ASSUME TypeInv, NEW i \in Invoice, Issue(i)
  PROVE  TypeInv'
<1>1. status \in [Invoice -> Statuses] /\ payments \in Seq(Row) /\ cancelled \in BOOLEAN
  BY DEF TypeInv, LedgerType
<1>2. ASSUME LedgerType', DOMAIN payments \subseteq DOMAIN payments', UNCHANGED req
      PROVE  TypeInv'
  BY <1>2 DEF TypeInv, LocalOK
<1>3. CASE CreateInvoice(i)
  BY <1>1, <1>2, <1>3 DEF CreateInvoice, LedgerType, Statuses, Open
<1>4. CASE GenerateMonthly(i)
  BY <1>2, <1>4, IssueRecurringType DEF GenerateMonthly
<1>5. ASSUME IssueAtDesk(i), UNCHANGED <<cancelled, req>>
      PROVE  TypeInv'
  <2>1. status' \in [Invoice -> Statuses]
    BY <1>1, <1>5 DEF IssueAtDesk, Statuses, Open, Closed
  <2>2. payments' \in Seq(Row) /\ DOMAIN payments \subseteq DOMAIN payments'
    <3>1. CASE UNCHANGED payments
      BY <1>1, <3>1
    <3>2. CASE ~ UNCHANGED payments
      <4>1. PICK a \in Amounts \cup {Total[i]}, m \in Method :
              payments' = Append(payments, PaymentRow(i, a, m))
        BY <1>5, <3>2 DEF IssueAtDesk
      <4>2. a \in Int /\ m \in {"cash", "transfer"}
        BY RequestAssumption, InvoiceAssumption
      <4>3. PaymentRow(i, a, m) \in Row
        BY <4>2, PaymentRowType
      <4>4. QED BY <1>1, <4>1, <4>3, AppendGrows
    <3>3. QED BY <3>1, <3>2
  <2>3. QED BY <1>1, <1>2, <1>5, <2>1, <2>2 DEF LedgerType
<1>6. QED BY <1>3, <1>4, <1>5 DEF Issue, Confirm, AddService, IssueAtDesk

(* Every step keeps the types.                                             *)
LEMMA NextKeepsType ==
  ASSUME TypeInv, [Next]_vars
  PROVE  TypeInv'
<1>1. CASE UNCHANGED vars
  BY <1>1 DEF vars, TypeInv, LedgerType, LocalOK
<1>2. ASSUME NEW i \in Invoice, Issue(i)
      PROVE  TypeInv'
  BY <1>2, IssueType
<1>3. ASSUME NEW r \in Request, Serve(r)
      PROVE  TypeInv'
  <2>1. CASE Refuse(r)
    BY <1>1, <2>1 DEF Refuse
  <2>2. QED BY <1>3, <2>1, RecordPaymentType, CollectPaymentType, VerifyPaymentType,
               RefundPaymentType, CancelEnrollmentType, RecalculateType DEF Serve
<1>4. ASSUME NEW r \in Request, Fail(r)
      PROVE  TypeInv'
  BY <1>4, IdleOK, LocalStepKeepsType DEF Fail
<1>5. QED BY <1>1, <1>2, <1>3, <1>4, WorkCases DEF Next

LEMMA InitType == Init => TypeInv
<1> SUFFICES ASSUME Init PROVE TypeInv
  OBVIOUS
<1>1. payments \in Seq(Row)
  BY DEF Init
<1>2. status \in [Invoice -> Statuses] /\ cancelled \in BOOLEAN
  BY DEF Init, Statuses
<1>3. QED BY <1>1, <1>2, IdleOK DEF Init, TypeInv, LedgerType

LEMMA TypeInvariant == Spec => []TypeInv
<1>1. TypeInv /\ [Next]_vars => TypeInv'
  BY NextKeepsType
<1>2. QED BY InitType, <1>1, PTL DEF Spec

(* Every variable keeps its type, for any accounts and any number of       *)
(* handlers in flight.                                                     *)
THEOREM TypeCorrect == Spec => []TypeOK
<1>1. TypeInv => TypeOK
  BY TypeInvImpliesTypeOK
<1>2. QED BY TypeInvariant, <1>1, PTL

-----------------------------------------------------------------------------

(* No step removes a row or changes what it says.                          *)

LEMMA AnyAppendGrows ==
  ASSUME payments \in Seq(Row), NEW row, payments' = Append(payments, row)
  PROVE  /\ Grows
         /\ Len(payments) + 1 \in DOMAIN payments' /\ payments'[Len(payments) + 1] = row
         /\ \A k \in DOMAIN payments' \ DOMAIN payments : k = Len(payments) + 1
<1>1. /\ DOMAIN payments = 1..Len(payments) /\ Len(payments) \in Nat
      /\ DOMAIN payments' = 1..(Len(payments) + 1)
      /\ \A k \in 1..Len(payments) : payments'[k] = payments[k]
      /\ payments'[Len(payments) + 1] = row
  OBVIOUS
<1>2. QED BY <1>1 DEF Grows

LEMMA VerifyGrows ==
  ASSUME TypeInv, NEW r \in Request, VerifyWrite(r)
  PROVE  /\ Grows /\ DOMAIN payments' = DOMAIN payments
         /\ payments'[req[r].pay].verified
<1> DEFINE p == req[r].pay
<1>1. p \in DOMAIN payments /\ payments \in Seq(Row)
  BY AtStep DEF VerifyWrite, OnPayment
<1>2. payments' = [payments EXCEPT ![p] = [payments[p] EXCEPT !.verified = TRUE]]
  BY DEF VerifyWrite
<1>3. payments[p] \in Row
  BY <1>1
<1> HIDE DEF p
<1>4. /\ DOMAIN payments' = DOMAIN payments
      /\ \A k \in DOMAIN payments \ {p} : payments'[k] = payments[k]
      /\ payments'[p] = [payments[p] EXCEPT !.verified = TRUE]
  BY <1>1, <1>2
<1>5. /\ payments'[p].kind = payments[p].kind
      /\ payments'[p].invoice = payments[p].invoice
      /\ payments'[p].amount = payments[p].amount
      /\ payments'[p].of = payments[p].of
      /\ payments'[p].verified
  BY <1>3, <1>4 DEF Row
<1>6. QED BY <1>4, <1>5 DEF Grows, p

(* What a serving step does to the table of payments.                      *)
LEMMA NextGrows ==
  ASSUME TypeInv, [Next]_vars
  PROVE  Grows
<1>1. payments \in Seq(Row)
  BY DEF TypeInv, LedgerType
<1>2. CASE UNCHANGED vars
  BY <1>2, SameGrows DEF vars
<1>3. ASSUME NEW i \in Invoice, Issue(i)
      PROVE  Grows
  <2>1. CASE UNCHANGED payments
    BY <2>1, SameGrows
  <2>2. CASE ~ UNCHANGED payments
    <3>1. IssueAtDesk(i)
      BY <1>3, <2>2 DEF Issue, CreateInvoice, Confirm, AddService, GenerateMonthly
    <3>2. PICK a \in Amounts \cup {Total[i]}, m \in Method :
            payments' = Append(payments, PaymentRow(i, a, m))
      BY <2>2, <3>1 DEF IssueAtDesk
    <3>3. QED BY <1>1, <3>2, AnyAppendGrows
  <2>3. QED BY <2>1, <2>2
<1>4. ASSUME NEW r \in Request, Serve(r)
      PROVE  Grows
  <2>1. CASE UNCHANGED payments
    BY <2>1, SameGrows
  <2>2. CASE VerifyWrite(r)
    BY <2>2, VerifyGrows
  <2>3. CASE RecordInsert(r) \/ CollectInsert(r) \/ RefundInsert(r)
    <3>1. \E row : payments' = Append(payments, row)
      BY <2>3 DEF RecordInsert, CollectInsert, RefundInsert
    <3>2. QED BY <1>1, <3>1, AnyAppendGrows
  <2>4. CASE CancelCommit(r)
    <3>1. req[r] \in Locals
      BY <2>4, AtStep DEF CancelCommit
    <3>2. req[r].plan \in Seq(Row)
      BY Zenon, <3>1 DEF Locals
    <3>3. QED BY <1>1, <2>4, <3>2, ConcatGrows DEF CancelCommit
  <2>5. QED
    BY <1>4, <2>1, <2>2, <2>3, <2>4
       DEF Serve, Recalculate, RecalcInvoice, RecalcGross, RecalcNet, RecalcWrite,
           RecordPayment, RecordStart, RecordGross, RecordAccept, RecordReject,
           CollectPayment, CollectStart, CollectOpen, CollectGross, CollectPending,
           CollectAccept, CollectReject, VerifyPayment, VerifyStart,
           RefundPayment, RefundStart, RefundAccept, RefundReject,
           CancelEnrollment, CancelRead, CancelPlan, CancelReject, Refuse, vars
<1>5. ASSUME NEW r \in Request, Fail(r)
      PROVE  Grows
  BY <1>5, SameGrows DEF Fail
<1>6. QED BY <1>2, <1>3, <1>4, <1>5, WorkCases DEF Next

-----------------------------------------------------------------------------
(* Refunds are backed by payments.  The invariant also says what a handler *)
(* knows between its checks and its insert.                                *)

RefundPC == {"refundRead", "refundInsert", "cancelCommit"}

RefundLocal(q, rows) ==
  /\ q.pc \in {"refundRead", "refundInsert"} =>
       rows[q.pay].kind = "payment" /\ rows[q.pay].verified
  /\ q.pc = "refundInsert" => 0 < q.left /\ q.left <= rows[q.pay].amount
  /\ q.pc = "cancelCommit" =>
       \A k \in DOMAIN q.plan : q.plan[k].kind = "refund" /\ Backed(q.plan[k], rows)

RefundInv ==
  /\ RefundsMatchPayments
  /\ \A r \in Request : RefundLocal(req[r], payments)

LEMMA GotoReaches ==
  ASSUME TypeInv, NEW r \in Request, NEW q, Goto(r, q)
  PROVE  req'[r] = q /\ \A s \in Request \ {r} : req'[s] = req[s]
  BY DEF Goto, TypeInv

LEMMA BackedStays ==
  ASSUME Grows, NEW f, Backed(f, payments)
  PROVE  Backed(f, payments')
  BY DEF Grows, Backed

LEMMA RefundLocalStays ==
  ASSUME Grows, NEW q, LocalOK(q, DOMAIN payments), RefundLocal(q, payments)
  PROVE  RefundLocal(q, payments')
<1>1. q.pc \in {"refundRead", "refundInsert"} => q.pay \in DOMAIN payments
  BY DEF LocalOK, OnPayment
<1>2. q.pc = "cancelCommit" =>
        \A k \in DOMAIN q.plan : q.plan[k].kind = "refund" /\ Backed(q.plan[k], payments')
  BY BackedStays DEF RefundLocal
<1>3. QED BY <1>1, <1>2 DEF RefundLocal, Grows

(* What a step of handler r has to establish to keep refunds backed.       *)
LEMMA StepKeepsRefunds ==
  ASSUME TypeInv, RefundInv, Grows, NEW r \in Request, NEW l, Goto(r, l),
         RefundLocal(l, payments'),
         \A k \in DOMAIN payments' \ DOMAIN payments :
           payments'[k].kind = "refund" => Backed(payments'[k], payments')
  PROVE  RefundInv'
<1>1. \A s \in Request : RefundLocal(req'[s], payments')
  <2>1. TAKE s \in Request
  <2>2. CASE s = r
    BY <2>2, GotoReaches
  <2>3. CASE s # r
    <3>1. req'[s] = req[s]
      BY <2>3, GotoReaches
    <3>2. LocalOK(req[s], DOMAIN payments) /\ RefundLocal(req[s], payments)
      BY DEF TypeInv, RefundInv
    <3>3. QED BY <3>1, <3>2, RefundLocalStays
  <2>4. QED BY <2>2, <2>3
<1>2. ASSUME NEW k \in DOMAIN payments', payments'[k].kind = "refund"
      PROVE  Backed(payments'[k], payments')
  <2>1. CASE k \in DOMAIN payments
    <3>1. payments[k].kind = "refund"
      BY <1>2, <2>1 DEF Grows
    <3>2. Backed(payments[k], payments)
      BY <2>1, <3>1 DEF RefundInv, RefundsMatchPayments
    <3>3. Backed(payments[k], payments')
      BY <3>2, BackedStays
    <3>4. QED BY <2>1, <3>3 DEF Grows, Backed
  <2>2. QED BY <2>1, <1>2
<1>3. QED BY <1>1, <1>2 DEF RefundInv, RefundsMatchPayments

(* So a step that inserts no refund row and does not bring the handler to  *)
(* one of the refund steps keeps refunds backed.                           *)
LEMMA OtherStepKeepsRefunds ==
  ASSUME TypeInv, RefundInv, Grows, NEW r \in Request, NEW l, Goto(r, l),
         l.pc \notin RefundPC,
         \A k \in DOMAIN payments' \ DOMAIN payments : payments'[k].kind # "refund"
  PROVE  RefundInv'
<1>1. RefundLocal(l, payments')
  BY DEF RefundLocal, RefundPC
<1>2. QED BY <1>1, StepKeepsRefunds

LEMMA RefundedIsNatural ==
  ASSUME TypeInv, RefundInv, NEW p
  PROVE  Refunded(p) \in Nat
<1>1. payments \in Seq(Row)
  BY DEF TypeInv, LedgerType
<1> DEFINE S == RefundsOf(p)
<1>2. S \in SUBSET DOMAIN payments
  BY DEF RefundsOf
<1>3. IsFiniteSet(S)
  BY <1>1, <1>2, RowsFinite, FS_Subset
<1>4. ASSUME NEW k \in S PROVE AmountOf[k] \in Nat
  <2>1. k \in DOMAIN payments /\ payments[k].kind = "refund"
    BY DEF RefundsOf
  <2>2. Backed(payments[k], payments)
    BY <2>1 DEF RefundInv, RefundsMatchPayments
  <2>3. payments[k].amount > 0 /\ AmountOf[k] = payments[k].amount /\ AmountOf[k] \in Int
    BY <1>1, <2>1, <2>2, AmountOfType DEF Backed, AmountOf
  <2>4. QED BY <2>3
<1> HIDE DEF S
<1>5. SumFunctionOnSet(AmountOf, S) \in Nat
  BY <1>3, <1>4, SumNonNegative
<1>6. QED BY <1>5 DEF Refunded, S

(* The program counter each step of a handler reaches.                     *)
LEMMA ReachedPc ==
  ASSUME TypeInv, NEW r \in Request
  PROVE  /\ RecalcInvoice(r) => req'[r].pc \in {"recalcGross", "spread", "idle"}
         /\ RecalcWrite(r) => req'[r].pc \in {"spread", "idle"}
         /\ RecalcGross(r) => req'[r].pc = "recalcNet"
         /\ RecalcNet(r) => req'[r].pc = "recalcWrite"
         /\ RecordGross(r) => req'[r].pc = "recordPending"
         /\ RecordInsert(r) => req'[r].pc = "recalc"
         /\ CollectStart(r) => req'[r].pc = "collectOpen"
         /\ CollectGross(r) => req'[r].pc = "collectPending"
         /\ VerifyWrite(r) => req'[r].pc = "recalc"
         /\ RefundInsert(r) => req'[r].pc = "recalc"
         /\ CancelRead(r) => req'[r].pc = "cancelPlan"
         /\ \A i \in Invoice : RecordStart(r, i) => req'[r].pc = "recordGross"
         /\ RecordAccept(r) => req'[r].pc = "recordInsert"
         /\ CollectOpen(r) => req'[r].pc \in {"collectGross", "idle"}
         /\ CollectPending(r) => req'[r].pc \in {"collectDecide", "collectGross"}
         /\ CollectAccept(r) => req'[r].pc = "spread"
         /\ CollectInsert(r) => req'[r].pc = "recalc"
         /\ \A p \in DOMAIN payments : VerifyStart(r, p) => req'[r].pc = "verifyWrite"
         /\ \A p \in DOMAIN payments : RefundStart(r, p) => req'[r].pc = "refundRead"
         /\ RecordReject(r) \/ CollectReject(r) \/ RefundReject(r) \/ CancelReject(r)
              \/ CancelCommit(r) \/ Fail(r) => req'[r].pc = "idle"
<1> DEFINE q == req[r]
<1>1. q \in Locals /\ Idle \in Locals
  BY IdleOK DEF TypeInv, LocalOK
<1>2. Idle.pc = "idle"
  BY DEF Idle
<1>3. ASSUME NEW a \in Locals
      PROVE  AfterRecalc(a).pc \in {"spread", "idle"}
  BY <1>2 DEF AfterRecalc, Locals
<1>4. ASSUME RecalcInvoice(r) PROVE req'[r].pc \in {"recalcGross", "spread", "idle"}
  <2> DEFINE l == [q EXCEPT !.pc = "recalcGross"]
  <2>1. l.pc = "recalcGross"
    BY <1>1 DEF Locals
  <2>2. Goto(r, l) \/ Goto(r, AfterRecalc(q))
    BY <1>4 DEF RecalcInvoice
  <2> HIDE DEF l
  <2>3. QED BY <1>1, <1>3, <2>1, <2>2, GotoReaches
<1>5. ASSUME RecalcWrite(r) PROVE req'[r].pc \in {"spread", "idle"}
  <2>1. [q EXCEPT !.next = "absent"] \in Locals
    <3>1. "absent" \in Statuses
      BY DEF Statuses
    <3>2. QED BY Zenon, <1>1, <3>1 DEF Locals
  <2>2. QED BY <1>5, <1>3, <2>1, GotoReaches DEF RecalcWrite
<1>6. ASSUME RecalcGross(r) PROVE req'[r].pc = "recalcNet"
  <2> DEFINE l == [q EXCEPT !.pc = "recalcNet", !.gross = Gross(q.inv)]
  <2>1. l.pc = "recalcNet"
    BY <1>1 DEF Locals
  <2>2. Goto(r, l)
    BY <1>6 DEF RecalcGross
  <2> HIDE DEF l
  <2>3. QED BY <2>1, <2>2, GotoReaches
<1>7. ASSUME RecalcNet(r) PROVE req'[r].pc = "recalcWrite"
  <2> DEFINE l == [q EXCEPT !.pc = "recalcWrite", !.gross = 0,
                      !.next = RecalculatedStatus(q.gross, Net(q.inv), Total[q.inv])]
  <2>1. l.pc = "recalcWrite"
    BY <1>1 DEF Locals
  <2>2. Goto(r, l)
    BY <1>7 DEF RecalcNet
  <2> HIDE DEF l
  <2>3. QED BY <2>1, <2>2, GotoReaches
<1>8. ASSUME RecordGross(r) PROVE req'[r].pc = "recordPending"
  <2> DEFINE l == [q EXCEPT !.pc = "recordPending", !.gross = Gross(q.inv)]
  <2>1. l.pc = "recordPending"
    BY <1>1 DEF Locals
  <2>2. Goto(r, l)
    BY <1>8 DEF RecordGross
  <2> HIDE DEF l
  <2>3. QED BY <2>1, <2>2, GotoReaches
<1>9. ASSUME RecordInsert(r) PROVE req'[r].pc = "recalc"
  <2> DEFINE l == [q EXCEPT !.pc = "recalc", !.left = 0, !.method = "cash"]
  <2>1. l.pc = "recalc"
    BY <1>1 DEF Locals
  <2>2. Goto(r, l)
    BY <1>9 DEF RecordInsert
  <2> HIDE DEF l
  <2>3. QED BY <2>1, <2>2, GotoReaches
<1>10. ASSUME CollectStart(r) PROVE req'[r].pc = "collectOpen"
  <2> DEFINE l == [Idle EXCEPT !.pc = "collectOpen", !.op = "collect"]
  <2>1. l.pc = "collectOpen"
    BY <1>1 DEF Locals
  <2>2. Goto(r, l)
    BY <1>10 DEF CollectStart
  <2> HIDE DEF l
  <2>3. QED BY <2>1, <2>2, GotoReaches
<1>11. ASSUME CollectGross(r) PROVE req'[r].pc = "collectPending"
  <2> DEFINE l == [q EXCEPT !.pc = "collectPending", !.inv = Oldest(q.todo),
                      !.gross = Gross(Oldest(q.todo))]
  <2>1. l.pc = "collectPending"
    BY <1>1 DEF Locals
  <2>2. Goto(r, l)
    BY <1>11 DEF CollectGross
  <2> HIDE DEF l
  <2>3. QED BY <2>1, <2>2, GotoReaches
<1>12. ASSUME VerifyWrite(r) PROVE req'[r].pc = "recalc"
  <2> DEFINE l == [q EXCEPT !.pc = "recalc", !.inv = payments[q.pay].invoice, !.pay = 0]
  <2>1. l.pc = "recalc"
    BY <1>1 DEF Locals
  <2>2. Goto(r, l)
    BY <1>12 DEF VerifyWrite
  <2> HIDE DEF l
  <2>3. QED BY <2>1, <2>2, GotoReaches
<1>13. ASSUME RefundInsert(r) PROVE req'[r].pc = "recalc"
  <2> DEFINE l == [q EXCEPT !.pc = "recalc", !.inv = payments[q.pay].invoice,
                      !.pay = 0, !.left = 0]
  <2>1. l.pc = "recalc"
    BY <1>1 DEF Locals
  <2>2. Goto(r, l)
    BY <1>13 DEF RefundInsert
  <2> HIDE DEF l
  <2>3. QED BY <2>1, <2>2, GotoReaches
<1>14. ASSUME CancelRead(r) PROVE req'[r].pc = "cancelPlan"
  <2> DEFINE l == [Idle EXCEPT !.pc = "cancelPlan", !.op = "cancel",
                      !.todo = {i \in EnrollmentInvoice : status[i] # "absent"}]
  <2>1. l.pc = "cancelPlan"
    BY <1>1 DEF Locals
  <2>2. Goto(r, l)
    BY <1>14 DEF CancelRead
  <2> HIDE DEF l
  <2>3. QED BY <2>1, <2>2, GotoReaches
<1>15. ASSUME NEW i \in Invoice, RecordStart(r, i) PROVE req'[r].pc = "recordGross"
  <2> DEFINE l == [Idle EXCEPT !.pc = "recordGross", !.op = "record", !.inv = i]
  <2>1. l.pc = "recordGross"
    BY <1>1 DEF Locals
  <2>2. Goto(r, l)
    BY <1>15 DEF RecordStart
  <2> HIDE DEF l
  <2>3. QED BY <2>1, <2>2, GotoReaches
<1>16. ASSUME NEW p \in DOMAIN payments, VerifyStart(r, p) PROVE req'[r].pc = "verifyWrite"
  <2> DEFINE l == [Idle EXCEPT !.pc = "verifyWrite", !.op = "verify", !.pay = p]
  <2>1. l.pc = "verifyWrite"
    BY <1>1 DEF Locals
  <2>2. Goto(r, l)
    BY <1>16 DEF VerifyStart
  <2> HIDE DEF l
  <2>3. QED BY <2>1, <2>2, GotoReaches
<1>17. ASSUME NEW p \in DOMAIN payments, RefundStart(r, p) PROVE req'[r].pc = "refundRead"
  <2> DEFINE l == [Idle EXCEPT !.pc = "refundRead", !.op = "refund", !.pay = p]
  <2>1. l.pc = "refundRead"
    BY <1>1 DEF Locals
  <2>2. Goto(r, l)
    BY <1>17 DEF RefundStart
  <2> HIDE DEF l
  <2>3. QED BY <2>1, <2>2, GotoReaches
<1>18. ASSUME RecordAccept(r) PROVE req'[r].pc = "recordInsert"
  <2>1. PICK a \in Amounts, m \in Method :
          Goto(r, [q EXCEPT !.pc = "recordInsert", !.gross = 0, !.left = a, !.method = m])
    BY <1>18 DEF RecordAccept
  <2> DEFINE l == [q EXCEPT !.pc = "recordInsert", !.gross = 0, !.left = a, !.method = m]
  <2>2. l.pc = "recordInsert"
    BY <1>1 DEF Locals
  <2> HIDE DEF l
  <2>3. QED BY <2>1, <2>2, GotoReaches DEF l
<1>19. ASSUME CollectOpen(r) PROVE req'[r].pc \in {"collectGross", "idle"}
  <2> DEFINE l == [q EXCEPT !.pc = "collectGross",
                            !.todo = {i \in Invoice : status[i] \in Open}]
  <2>1. l.pc = "collectGross"
    BY <1>1 DEF Locals
  <2>2. Goto(r, l) \/ Goto(r, Idle)
    BY <1>19 DEF CollectOpen
  <2> HIDE DEF l
  <2>3. QED BY <1>2, <2>1, <2>2, GotoReaches
<1>20. ASSUME CollectPending(r) PROVE req'[r].pc \in {"collectDecide", "collectGross"}
  <2> DEFINE i == q.inv
             rest == q.todo \ {i}
             pc == IF rest = {} THEN "collectDecide" ELSE "collectGross"
             n == Recordable(Total[i] - q.gross, Pending(i))
             l == [q EXCEPT !.pc = pc, !.todo = rest, !.inv = NoInvoice, !.gross = 0,
                            !.quota[i] = n]
  <2>1. Goto(r, l)
    BY <1>20 DEF CollectPending
  <2>2. pc \in {"collectDecide", "collectGross"}
    OBVIOUS
  <2> HIDE DEF pc, n, rest
  <2>3. l.pc = pc
    BY <1>1 DEF Locals
  <2> HIDE DEF l
  <2>4. QED BY <2>1, <2>2, <2>3, GotoReaches
<1>21. ASSUME CollectAccept(r) PROVE req'[r].pc = "spread"
  <2>1. PICK a \in Amounts, m \in Method :
          Goto(r, [q EXCEPT !.pc = "spread", !.left = a, !.method = m])
    BY <1>21 DEF CollectAccept
  <2> DEFINE l == [q EXCEPT !.pc = "spread", !.left = a, !.method = m]
  <2>2. l.pc = "spread"
    BY <1>1 DEF Locals
  <2> HIDE DEF l
  <2>3. QED BY <2>1, <2>2, GotoReaches DEF l
<1>22. ASSUME CollectInsert(r) PROVE req'[r].pc = "recalc"
  <2> DEFINE i == Oldest({j \in Invoice : q.quota[j] > 0})
             rest == q.left - Min({q.left, q.quota[i]})
             l == [q EXCEPT !.pc = "recalc", !.inv = i, !.quota[i] = 0, !.left = rest]
  <2>1. Goto(r, l)
    BY <1>22 DEF CollectInsert
  <2> HIDE DEF i, rest
  <2>2. l.pc = "recalc"
    BY <1>1 DEF Locals
  <2> HIDE DEF l
  <2>3. QED BY <2>1, <2>2, GotoReaches
<1>23. ASSUME \/ RecordReject(r) \/ CollectReject(r) \/ RefundReject(r)
              \/ CancelReject(r) \/ CancelCommit(r) \/ Fail(r)
      PROVE  req'[r].pc = "idle"
  <2>1. Goto(r, Idle)
    BY <1>23 DEF RecordReject, CollectReject, RefundReject, CancelReject, CancelCommit, Fail
  <2>2. QED BY <1>2, <2>1, GotoReaches
<1>24. QED BY <1>4, <1>5, <1>6, <1>7, <1>8, <1>9, <1>10, <1>11, <1>12, <1>13, <1>14, <1>15, <1>16, <1>17, <1>18, <1>19, <1>20, <1>21, <1>22, <1>23

LEMMA PaymentStepsKeepRefunds ==
  ASSUME TypeInv, RefundInv, Grows, NEW r \in Request,
         RecordPayment(r) \/ CollectPayment(r) \/ VerifyPayment(r) \/ Recalculate(r)
  PROVE  RefundInv'
<1>1. payments \in Seq(Row)
  BY DEF TypeInv, LedgerType
<1>2. req'[r].pc \notin RefundPC
  BY ReachedPc
     DEF RecordPayment, CollectPayment, VerifyPayment, Recalculate, RefundPC
<1>3. \E l : Goto(r, l)
  BY Zenon
     DEF RecordPayment, RecordStart, RecordGross, RecordAccept, RecordReject, RecordInsert,
         CollectPayment, CollectStart, CollectOpen, CollectGross, CollectPending,
         CollectAccept, CollectReject, CollectInsert,
         VerifyPayment, VerifyStart, VerifyWrite,
         Recalculate, RecalcInvoice, RecalcGross, RecalcNet, RecalcWrite
<1>4. \A k \in DOMAIN payments' \ DOMAIN payments : payments'[k].kind # "refund"
  <2>1. CASE UNCHANGED payments
    BY <2>1
  <2>2. CASE VerifyWrite(r)
    BY <2>2, VerifyGrows
  <2>3. CASE RecordInsert(r) \/ CollectInsert(r)
    <3>1. \E i, a, m : payments' = Append(payments, PaymentRow(i, a, m))
      BY <2>3 DEF RecordInsert, CollectInsert
    <3>2. PICK i, a, m : payments' = Append(payments, PaymentRow(i, a, m))
      BY <3>1
    <3>3. PaymentRow(i, a, m).kind = "payment"
      BY DEF PaymentRow
    <3>4. QED BY <1>1, <3>2, <3>3, AnyAppendGrows
  <2>4. QED
    BY <2>1, <2>2, <2>3
       DEF Recalculate, RecalcInvoice, RecalcGross, RecalcNet, RecalcWrite,
           RecordPayment, RecordStart, RecordGross, RecordAccept, RecordReject,
           CollectPayment, CollectStart, CollectOpen, CollectGross, CollectPending,
           CollectAccept, CollectReject, VerifyPayment, VerifyStart
<1>5. QED BY <1>2, <1>3, <1>4, OtherStepKeepsRefunds, GotoReaches

LEMMA RefundStepsKeepRefunds ==
  ASSUME TypeInv, RefundInv, Grows, NEW r \in Request, RefundPayment(r)
  PROVE  RefundInv'
<1> DEFINE q == req[r]
           D == DOMAIN payments
<1>1. q \in Locals /\ Idle \in Locals /\ payments \in Seq(Row)
  BY IdleOK DEF TypeInv, LocalOK, LedgerType
<1>2. ASSUME NEW p \in D, RefundStart(r, p)
      PROVE  RefundInv'
  <2> DEFINE l == [Idle EXCEPT !.pc = "refundRead", !.op = "refund", !.pay = p]
  <2>1. l.pc = "refundRead" /\ l.pay = p
    BY <1>1 DEF Locals
  <2>2. /\ Goto(r, l) /\ payments' = payments
        /\ payments[p].kind = "payment" /\ payments[p].verified
    BY <1>2 DEF RefundStart
  <2>3. RefundLocal(l, payments')
    <3> HIDE DEF l
    <3>1. QED BY <2>1, <2>2 DEF RefundLocal
  <2> HIDE DEF l
  <2>4. QED BY <2>2, <2>3, StepKeepsRefunds
<1>3. CASE RefundAccept(r)
  <2> DEFINE p == q.pay
             max == payments[p].amount - Refunded(p)
  <2>1. /\ p \in D /\ payments[p].kind = "payment" /\ payments[p].verified
        /\ payments[p].amount \in Int
    <3>1. p \in D /\ q.pc = "refundRead"
      BY <1>3, AtStep DEF RefundAccept, OnPayment
    <3>2. payments[p].amount \in Int
      BY <1>1, <3>1, AmountOfType DEF AmountOf
    <3>3. QED BY <3>1, <3>2 DEF RefundInv, RefundLocal
  <2>2. PICK a \in Amounts \cup {max} :
          /\ 0 < a /\ a <= max
          /\ Goto(r, [q EXCEPT !.pc = "refundInsert", !.left = a])
    BY <1>3 DEF RefundAccept
  <2> DEFINE l == [q EXCEPT !.pc = "refundInsert", !.left = a]
  <2>3. a <= payments[p].amount
    <3>1. Refunded(p) \in Nat
      BY RefundedIsNatural
    <3>2. a \in Int
      BY <2>1, <2>2, <3>1, RequestAssumption
    <3>3. QED BY <2>1, <2>2, <3>1, <3>2
  <2>4. l.pc = "refundInsert" /\ l.pay = p /\ l.left = a
    BY <1>1 DEF Locals
  <2>5. payments' = payments
    BY <1>3 DEF RefundAccept
  <2>6. RefundLocal(l, payments')
    <3> HIDE DEF l, p
    <3>1. QED BY <2>1, <2>2, <2>3, <2>4, <2>5 DEF RefundLocal
  <2>7. Goto(r, l)
    BY <2>2
  <2> HIDE DEF l
  <2>8. QED BY <2>5, <2>6, <2>7, StepKeepsRefunds
<1>4. CASE RefundReject(r)
  <2>1. Goto(r, Idle) /\ payments' = payments /\ Idle.pc = "idle"
    BY <1>4 DEF RefundReject, Idle
  <2>2. QED BY <2>1, OtherStepKeepsRefunds DEF RefundPC
<1>5. CASE RefundInsert(r)
  <2> DEFINE p == q.pay
             row == RefundRow(p, q.left, payments[p].method)
  <2>1. /\ p \in D /\ payments[p].kind = "payment" /\ payments[p].verified
        /\ 0 < q.left /\ q.left <= payments[p].amount
    <3>1. p \in D /\ q.pc = "refundInsert"
      BY <1>5, AtStep DEF RefundInsert, OnPayment
    <3>2. QED BY <3>1 DEF RefundInv, RefundLocal
  <2>2. row.of = p /\ row.amount = q.left /\ row.invoice = payments[p].invoice
    BY DEF RefundRow
  <2>3. Backed(row, payments)
    <3> HIDE DEF row, p
    <3>1. QED BY <2>1, <2>2 DEF Backed
  <2>4. payments' = Append(payments, row) /\ \E l : Goto(r, l)
    BY <1>5 DEF RefundInsert
  <2>5. req'[r].pc = "recalc"
    BY <1>5, ReachedPc
  <2>6. Backed(row, payments')
    BY <2>3, BackedStays
  <2>7. \A k \in DOMAIN payments' \ D : payments'[k] = row
    <3> HIDE DEF row
    <3>1. QED BY <1>1, <2>4, AnyAppendGrows
  <2>8. RefundLocal(req'[r], payments')
    BY <2>5 DEF RefundLocal
  <2> HIDE DEF row
  <2>9. QED BY <2>4, <2>6, <2>7, <2>8, GotoReaches, StepKeepsRefunds
<1>6. QED BY <1>2, <1>3, <1>4, <1>5 DEF RefundPayment

LEMMA CancelStepsKeepRefunds ==
  ASSUME TypeInv, RefundInv, Grows, NEW r \in Request, CancelEnrollment(r)
  PROVE  RefundInv'
<1> DEFINE q == req[r]
<1>1. q \in Locals /\ Idle \in Locals /\ payments \in Seq(Row)
  BY IdleOK DEF TypeInv, LocalOK, LedgerType
<1>2. CASE CancelRead(r) \/ CancelReject(r)
  <2>1. req'[r].pc \notin RefundPC
    BY <1>2, ReachedPc DEF RefundPC
  <2>2. payments' = payments /\ \E l : Goto(r, l)
    BY <1>2 DEF CancelRead, CancelReject
  <2>3. QED BY <2>1, <2>2, GotoReaches, OtherStepKeepsRefunds
<1>3. CASE CancelPlan(r)
  <2> DEFINE left == Refundable(q.todo)
             netCash == SumFunctionOnSet(left, DOMAIN left)
  <2>1. PICK m \in Method, alloc \in [DOMAIN left -> 0..netCash] :
          /\ \A p \in DOMAIN left : alloc[p] <= left[p]
          /\ Goto(r, [q EXCEPT !.pc = "cancelCommit", !.plan = RefundPlan(alloc, m)])
    BY <1>3 DEF CancelPlan, Allocates
  <2> DEFINE plan == RefundPlan(alloc, m)
             l == [q EXCEPT !.pc = "cancelCommit", !.plan = plan]
  <2>2. /\ DOMAIN left \in SUBSET DOMAIN payments /\ netCash \in Int
        /\ \A p \in DOMAIN left : /\ left[p] \in Nat
                                  /\ left[p] = Max({0, payments[p].amount - Refunded(p)})
    <3>1. netCash \in Nat => netCash \in Int
      OBVIOUS
    <3>2. QED BY Zenon, <1>1, <3>1, RefundableType
  <2>3. \A p \in DOMAIN left : payments[p].kind = "payment" /\ payments[p].verified
    BY DEF Refundable, VerifiedPayments
  <2>4. \A k \in DOMAIN plan :
          \E p \in DOMAIN left : alloc[p] > 0 /\ plan[k] = RefundRow(p, alloc[p], m)
    <3>1. m \in {"cash", "transfer"}
      BY RequestAssumption
    <3> HIDE DEF left, netCash
    <3>2. QED BY <1>1, <2>1, <2>2, <3>1, RefundPlanType
  <2> HIDE DEF left, netCash, plan
  <2>5. ASSUME NEW k \in DOMAIN plan
        PROVE  plan[k].kind = "refund" /\ Backed(plan[k], payments)
    <3>1. PICK p \in DOMAIN left : alloc[p] > 0 /\ plan[k] = RefundRow(p, alloc[p], m)
      BY <2>4
    <3>2. /\ plan[k].of = p /\ plan[k].amount = alloc[p] /\ plan[k].kind = "refund"
          /\ plan[k].invoice = payments[p].invoice
      BY <3>1 DEF RefundRow
    <3>3. alloc[p] <= payments[p].amount
      <4>1. Refunded(p) \in Nat
        BY RefundedIsNatural
      <4>2. payments[p].amount \in Int
        BY <1>1, <2>2, AmountOfType DEF AmountOf
      <4> DEFINE rest == payments[p].amount - Refunded(p)
      <4>3. rest \in Int /\ rest <= payments[p].amount
        BY <4>1, <4>2
      <4>4. left[p] = Max({0, rest})
        BY <2>2
      <4> HIDE DEF rest
      <4>5. Max({0, rest}) = IF 0 >= rest THEN 0 ELSE rest
        BY <4>3, MaxOfTwo
      <4>6. alloc[p] \in Int /\ alloc[p] <= left[p] /\ alloc[p] > 0
        BY <2>1, <2>2, <3>1
      <4>7. QED BY <4>2, <4>3, <4>4, <4>5, <4>6
    <3>4. QED BY <2>2, <2>3, <3>1, <3>2, <3>3 DEF Backed
  <2>6. l.pc = "cancelCommit" /\ l.plan = plan
    BY <1>1 DEF Locals
  <2>7. payments' = payments /\ Goto(r, l)
    BY <1>3, <2>1 DEF CancelPlan, plan
  <2>8. RefundLocal(l, payments')
    <3> HIDE DEF l
    <3>1. QED BY <2>5, <2>6, <2>7 DEF RefundLocal
  <2> HIDE DEF l
  <2>9. QED BY <2>7, <2>8, StepKeepsRefunds
<1>4. CASE CancelCommit(r)
  <2>1. q.plan \in Seq(Row)
    BY Zenon, <1>1 DEF Locals
  <2>2. \A k \in DOMAIN q.plan : Backed(q.plan[k], payments)
    BY <1>4, AtStep DEF CancelCommit, RefundInv, RefundLocal
  <2>3. \A k \in DOMAIN q.plan : Backed(q.plan[k], payments')
    BY <2>2, BackedStays
  <2>4. \A k \in DOMAIN payments' \ DOMAIN payments :
          \E j \in DOMAIN q.plan : payments'[k] = q.plan[j]
    BY <1>1, <1>4, <2>1, ConcatGrows DEF CancelCommit
  <2>5. Goto(r, Idle) /\ Idle.pc = "idle"
    BY <1>4 DEF CancelCommit, Idle
  <2>6. RefundLocal(Idle, payments')
    BY <2>5 DEF RefundLocal
  <2>7. \A k \in DOMAIN payments' \ DOMAIN payments : Backed(payments'[k], payments')
    BY <2>3, <2>4
  <2>8. QED BY <2>5, <2>6, <2>7, StepKeepsRefunds
<1>5. QED BY <1>2, <1>3, <1>4 DEF CancelEnrollment

LEMMA NextKeepsRefunds ==
  ASSUME TypeInv, RefundInv, [Next]_vars
  PROVE  RefundInv'
<1>1. Grows /\ payments \in Seq(Row)
  BY NextGrows DEF TypeInv, LedgerType
<1>2. CASE UNCHANGED vars
  BY <1>2 DEF vars, RefundInv, RefundsMatchPayments
<1>3. ASSUME NEW i \in Invoice, Issue(i)
      PROVE  RefundInv'
  <2>1. req' = req
    BY <1>3 DEF Issue, CreateInvoice, Confirm, AddService, GenerateMonthly, IssueAtDesk
  <2>2. \A k \in DOMAIN payments' \ DOMAIN payments : payments'[k].kind # "refund"
    <3>1. CASE UNCHANGED payments
      BY <3>1
    <3>2. CASE ~ UNCHANGED payments
      <4>1. IssueAtDesk(i)
        BY <1>3, <3>2 DEF Issue, CreateInvoice, Confirm, AddService, GenerateMonthly
      <4>2. PICK a \in Amounts \cup {Total[i]}, m \in Method :
              payments' = Append(payments, PaymentRow(i, a, m))
        BY <3>2, <4>1 DEF IssueAtDesk
      <4>3. PaymentRow(i, a, m).kind = "payment"
        BY DEF PaymentRow
      <4>4. QED BY <1>1, <4>2, <4>3, AnyAppendGrows
    <3>3. QED BY <3>1, <3>2
  <2>3. ASSUME NEW k \in DOMAIN payments', payments'[k].kind = "refund"
        PROVE  Backed(payments'[k], payments')
    <3>1. k \in DOMAIN payments /\ payments[k].kind = "refund"
      BY <1>1, <2>2, <2>3 DEF Grows
    <3>2. Backed(payments[k], payments')
      BY <1>1, <3>1, BackedStays DEF RefundInv, RefundsMatchPayments
    <3>3. QED BY <1>1, <3>1, <3>2 DEF Grows, Backed
  <2>4. \A s \in Request : RefundLocal(req'[s], payments')
    BY <1>1, <2>1, RefundLocalStays DEF TypeInv, RefundInv
  <2>5. QED BY <2>3, <2>4 DEF RefundInv, RefundsMatchPayments
<1>4. ASSUME NEW r \in Request, Serve(r)
      PROVE  RefundInv'
  <2>1. CASE Refuse(r)
    BY <1>2, <2>1 DEF Refuse
  <2>2. QED BY <1>1, <1>4, <2>1, PaymentStepsKeepRefunds, RefundStepsKeepRefunds,
               CancelStepsKeepRefunds DEF Serve
<1>5. ASSUME NEW r \in Request, Fail(r)
      PROVE  RefundInv'
  <2>1. Goto(r, Idle) /\ payments' = payments /\ Idle.pc = "idle"
    BY <1>5 DEF Fail, Idle
  <2>2. QED BY <1>1, <2>1, OtherStepKeepsRefunds DEF RefundPC
<1>6. QED BY <1>2, <1>3, <1>4, <1>5, WorkCases DEF Next

LEMMA RefundInvariant == Spec => []RefundInv
<1>1. Init => RefundInv
  <2> SUFFICES ASSUME Init PROVE RefundInv
    OBVIOUS
  <2>1. DOMAIN payments = {}
    BY DEF Init
  <2>2. \A r \in Request : req[r].pc = "idle"
    BY DEF Init, Idle
  <2>3. QED BY <2>1, <2>2 DEF RefundInv, RefundsMatchPayments, RefundLocal
<1>2. TypeInv /\ RefundInv /\ [Next]_vars => RefundInv'
  BY NextKeepsRefunds
<1>3. QED BY TypeInvariant, <1>1, <1>2, PTL DEF Spec

(* Whatever handlers interleave and wherever they fail, every refund row   *)
(* names a verified payment of its own invoice that is at least as large.  *)
THEOREM RefundsAreBacked == Spec => []RefundsMatchPayments
<1>1. RefundInv => RefundsMatchPayments
  BY DEF RefundInv
<1>2. QED BY RefundInvariant, <1>1, PTL



-----------------------------------------------------------------------------
(* Invoice statuses are earned (StatusEarned), provided the amounts        *)
(* requests carry are positive.  The proviso is needed: recordPayment does *)
(* not test it.                                                            *)
PositiveAmounts == Amounts \subseteq Nat \ {0}

(* The invoices that have been refunded.                                   *)
RefundedOf == {i \in Invoice : VerifiedRefunds(i) # {}}

EarnedBy(s, i, gross, refunded) ==
  /\ s = "paid" => gross[i] >= Total[i]
  /\ s \in {"paid", "partial", "refunded"} => gross[i] > 0
  /\ s = "refunded" => i \in refunded

PositiveRows == \A k \in DOMAIN payments : payments[k].amount > 0

(* What handler q knows between reading the sums and writing the status,   *)
(* and between checking an amount and inserting it.                        *)
EarnedLocal(q, gross, refunded) ==
  /\ q.pc \in {"recordInsert", "spread"} => q.left > 0
  /\ q.pc = "recalcNet" => q.gross <= gross[q.inv]
  /\ q.pc = "recalcWrite" => EarnedBy(q.next, q.inv, gross, refunded)

EarnedPC == {"recordInsert", "spread", "recalcNet", "recalcWrite"}

EarnedInv ==
  /\ \A i \in Invoice : EarnedBy(status[i], i, GrossOf, RefundedOf)
  /\ PositiveRows
  /\ \A r \in Request : EarnedLocal(req[r], GrossOf, RefundedOf)

LEMMA EarnedInvSuffices == EarnedInv => StatusEarned
  BY DEF EarnedInv, EarnedBy, GrossOf, RefundedOf, StatusEarned, Earned

-----------------------------------------------------------------------------
(* What was collected only grows.                                          *)

LEMMA DomainFinite ==
  ASSUME NEW rows \in Seq(Row)
  PROVE  IsFiniteSet(DOMAIN rows)
<1>1. DOMAIN rows = 1..Len(rows) /\ Len(rows) \in Nat
  OBVIOUS
<1>2. QED BY <1>1, FS_Interval

LEMMA GrossType ==
  ASSUME payments \in Seq(Row), NEW i \in Invoice
  PROVE  GrossOf[i] = Gross(i) /\ GrossOf[i] \in Int
  BY SumsAreIntegers DEF GrossOf

(* No step lowers the gross of an invoice or undoes its refunds, as long   *)
(* as every row has a positive amount.                                     *)
LEMMA MoneyGrows ==
  ASSUME payments \in Seq(Row), payments' \in Seq(Row), Grows, PositiveRows'
  PROVE  /\ \A i \in Invoice : GrossOf[i] \in Int /\ GrossOf'[i] \in Int
                               /\ GrossOf[i] <= GrossOf'[i]
         /\ RefundedOf \subseteq RefundedOf'
<1>1. ASSUME NEW i \in Invoice
      PROVE  GrossOf[i] \in Int /\ GrossOf'[i] \in Int /\ GrossOf[i] <= GrossOf'[i]
  <2> DEFINE A == VerifiedPayments(i)
             B == VerifiedPayments(i)'
             f == AmountOf
             g == AmountOf'
  <2>1. A \in SUBSET DOMAIN payments /\ B \in SUBSET DOMAIN payments' /\ A \in SUBSET B
    BY DEF VerifiedPayments, Grows
  <2>2. IsFiniteSet(A) /\ IsFiniteSet(B)
    BY <2>1, DomainFinite, FS_Subset
  <2>3. \A k \in A : f[k] = g[k]
    BY <2>1 DEF AmountOf, Grows
  <2>4. \A k \in B : g[k] \in Nat
    <3>1. TAKE k \in B
    <3>2. k \in DOMAIN payments' /\ payments'[k] \in Row
      BY <2>1
    <3>3. payments'[k].amount \in Int /\ payments'[k].amount > 0
      BY <3>2 DEF Row, PositiveRows
    <3>4. g[k] = payments'[k].amount
      BY <3>2 DEF AmountOf
    <3>5. QED BY <3>3, <3>4
  <2>5. Gross(i) = SumFunctionOnSet(f, A) /\ Gross(i)' = SumFunctionOnSet(g, B)
    BY DEF Gross
  <2>6. GrossOf[i] = Gross(i) /\ GrossOf'[i] = Gross(i)' /\ Gross(i) \in Int
    BY SumsAreIntegers DEF GrossOf
  <2> HIDE DEF A, B, f, g
  <2>7. SumFunctionOnSet(f, A) = SumFunctionOnSet(g, A)
    BY <2>2, <2>3, SumCong
  <2>8. SumFunctionOnSet(g, A) <= SumFunctionOnSet(g, B)
    BY <2>1, <2>2, <2>4, SumMonotone
  <2>9. SumFunctionOnSet(g, B) \in Nat
    BY <2>2, <2>4, SumNonNegative
  <2>10. QED BY <2>5, <2>6, <2>7, <2>8, <2>9
<1>2. RefundedOf \subseteq RefundedOf'
  <2>1. \A i \in Invoice : VerifiedRefunds(i) \subseteq VerifiedRefunds(i)'
    BY DEF VerifiedRefunds, Grows
  <2>2. QED BY <2>1 DEF RefundedOf
<1>3. QED BY <1>1, <1>2

(* What was earned stays earned.                                           *)
LEMMA EarnedStays ==
  ASSUME payments \in Seq(Row), payments' \in Seq(Row), Grows, PositiveRows',
         NEW s, NEW i \in Invoice, EarnedBy(s, i, GrossOf, RefundedOf)
  PROVE  EarnedBy(s, i, GrossOf', RefundedOf')
<1>1. Total[i] \in Int
  BY InvoiceAssumption
<1>2. GrossOf[i] \in Int /\ GrossOf'[i] \in Int /\ GrossOf[i] <= GrossOf'[i]
  BY MoneyGrows
<1>3. i \in RefundedOf => i \in RefundedOf'
  BY MoneyGrows
<1>4. QED BY <1>1, <1>2, <1>3 DEF EarnedBy

LEMMA EarnedLocalStays ==
  ASSUME payments \in Seq(Row), payments' \in Seq(Row), Grows, PositiveRows',
         NEW q, LocalOK(q, DOMAIN payments), EarnedLocal(q, GrossOf, RefundedOf)
  PROVE  EarnedLocal(q, GrossOf', RefundedOf')
<1>1. q.pc \in {"recalcNet", "recalcWrite"} => q.inv \in Invoice
  BY DEF LocalOK, OnInvoice
<1>2. q.gross \in Int
  BY DEF LocalOK, Locals
<1>3. ASSUME q.pc = "recalcNet" PROVE q.gross <= GrossOf'[q.inv]
  <2> DEFINE i == q.inv
  <2>1. i \in Invoice /\ q.gross <= GrossOf[i]
    BY <1>1, <1>3 DEF EarnedLocal
  <2>2. GrossOf[i] \in Int /\ GrossOf'[i] \in Int /\ GrossOf[i] <= GrossOf'[i]
    BY <2>1, MoneyGrows
  <2>3. QED BY <1>2, <2>1, <2>2
<1>4. ASSUME q.pc = "recalcWrite" PROVE EarnedBy(q.next, q.inv, GrossOf', RefundedOf')
  <2>1. q.inv \in Invoice /\ EarnedBy(q.next, q.inv, GrossOf, RefundedOf)
    BY <1>1, <1>4 DEF EarnedLocal
  <2>2. QED BY <2>1, EarnedStays
<1>5. QED BY <1>3, <1>4 DEF EarnedLocal

(* What a step of handler r has to establish to keep statuses earned.      *)
LEMMA StepKeepsEarned ==
  ASSUME TypeInv, TypeInv', EarnedInv, Grows, NEW r \in Request,
         \A s \in Request \ {r} : req'[s] = req[s],
         EarnedLocal(req'[r], GrossOf', RefundedOf'),
         \A k \in DOMAIN payments' \ DOMAIN payments : payments'[k].amount > 0,
         \A i \in Invoice : \/ status'[i] = status[i]
                            \/ EarnedBy(status'[i], i, GrossOf', RefundedOf')
  PROVE  EarnedInv'
<1>1. payments \in Seq(Row) /\ payments' \in Seq(Row)
  BY DEF TypeInv, LedgerType
<1>2. PositiveRows'
  <2>1. SUFFICES ASSUME NEW k \in DOMAIN payments' PROVE payments'[k].amount > 0
    BY DEF PositiveRows
  <2>2. QED BY DEF EarnedInv, PositiveRows, Grows
<1>3. \A i \in Invoice : EarnedBy(status'[i], i, GrossOf', RefundedOf')
  BY <1>1, <1>2, EarnedStays DEF EarnedInv
<1>4. ASSUME NEW s \in Request PROVE EarnedLocal(req'[s], GrossOf', RefundedOf')
  <2>1. CASE s = r
    BY <2>1
  <2>2. CASE s # r
    <3>1. req'[s] = req[s]
      BY <2>2
    <3>2. LocalOK(req[s], DOMAIN payments) /\ EarnedLocal(req[s], GrossOf, RefundedOf)
      BY DEF TypeInv, EarnedInv
    <3>3. EarnedLocal(req[s], GrossOf', RefundedOf')
      BY <1>1, <1>2, <3>2, EarnedLocalStays
    <3>4. QED BY <3>1, <3>3
  <2>3. QED BY <2>1, <2>2
<1>5. QED BY <1>2, <1>3, <1>4 DEF EarnedInv

(* A step that changes neither invoices nor payments.                      *)
LEMMA ReadKeepsEarned ==
  ASSUME TypeInv, TypeInv', EarnedInv, NEW r \in Request, NEW l, Goto(r, l),
         EarnedLocal(l, GrossOf, RefundedOf), UNCHANGED <<status, payments>>
  PROVE  EarnedInv'
<1>1. Grows
  BY SameGrows
<1>2. req'[r] = l /\ \A s \in Request \ {r} : req'[s] = req[s]
  BY GotoReaches
<1>3. GrossOf' = GrossOf /\ RefundedOf' = RefundedOf
  BY DEF GrossOf, RefundedOf, Gross, AmountOf, VerifiedPayments, VerifiedRefunds
<1>4. EarnedLocal(req'[r], GrossOf', RefundedOf')
  BY <1>2, <1>3
<1>5. QED BY <1>1, <1>2, <1>4, StepKeepsEarned

-----------------------------------------------------------------------------
(* The steps of recalculateInvoiceStatus.                                  *)

LEMMA IdleEarned ==
  ASSUME NEW G, NEW R
  PROVE  EarnedLocal(Idle, G, R)
  BY DEF EarnedLocal, Idle

(* When verified payments exceed the net, some refund was verified.        *)
LEMMA NetBelowGross ==
  ASSUME payments \in Seq(Row), NEW i \in Invoice, Net(i) < Gross(i)
  PROVE  i \in RefundedOf
<1>1. IsFiniteSet({})
  BY FS_EmptySet
<1>2. SumFunctionOnSet(AmountOf, {}) = 0
  BY <1>1, SumUnfold
<1>3. Gross(i) \in Int
  BY SumsAreIntegers
<1>4. VerifiedRefunds(i) # {}
  <2>1. SUFFICES ASSUME VerifiedRefunds(i) = {} PROVE FALSE
    OBVIOUS
  <2>2. Net(i) = Gross(i) - 0
    BY <1>2, <2>1 DEF Net
  <2>3. QED BY <1>3, <2>2
<1>5. QED BY <1>4 DEF RefundedOf

(* The status derived from a gross read earlier is earned now.             *)
LEMMA RecalculatedIsEarned ==
  ASSUME payments \in Seq(Row), NEW i \in Invoice, NEW g \in Int, g <= Gross(i)
  PROVE  EarnedBy(RecalculatedStatus(g, Net(i), Total[i]), i, GrossOf, RefundedOf)
<1>1. Gross(i) \in Int /\ Net(i) \in Int /\ GrossOf[i] = Gross(i) /\ Total[i] \in Int
  BY SumsAreIntegers, GrossType, InvoiceAssumption
<1> DEFINE s == RecalculatedStatus(g, Net(i), Total[i])
<1>2. CASE g <= 0
  <2>1. s = "unpaid"
    BY <1>2 DEF RecalculatedStatus
  <2>2. QED BY <2>1 DEF EarnedBy
<1>3. CASE ~ (g <= 0) /\ Net(i) <= 0
  <2>1. s = "refunded"
    BY <1>3 DEF RecalculatedStatus
  <2>2. Gross(i) > 0 /\ Net(i) < Gross(i)
    BY <1>1, <1>3
  <2>3. i \in RefundedOf
    BY <2>2, NetBelowGross
  <2>4. QED BY <1>1, <2>1, <2>2, <2>3 DEF EarnedBy
<1>4. CASE ~ (g <= 0) /\ ~ (Net(i) <= 0) /\ g >= Total[i]
  <2>1. s = "paid"
    BY <1>4 DEF RecalculatedStatus
  <2>2. Gross(i) > 0 /\ Gross(i) >= Total[i]
    BY <1>1, <1>4
  <2>3. QED BY <1>1, <2>1, <2>2 DEF EarnedBy
<1>5. CASE ~ (g <= 0) /\ ~ (Net(i) <= 0) /\ ~ (g >= Total[i])
  <2>1. s = "partial"
    BY <1>5 DEF RecalculatedStatus
  <2>2. Gross(i) > 0
    BY <1>1, <1>5
  <2>3. QED BY <1>1, <2>1, <2>2 DEF EarnedBy
<1>6. QED BY <1>2, <1>3, <1>4, <1>5

LEMMA AfterRecalcEarned ==
  ASSUME NEW q \in Locals, NEW G, NEW R
  PROVE  EarnedLocal(AfterRecalc(q), G, R)
<1>1. CASE q.op = "collect" /\ q.left > 0 /\ \E i \in Invoice : q.quota[i] > 0
  <2> DEFINE l == [q EXCEPT !.pc = "spread"]
  <2>1. l.pc = "spread" /\ l.left = q.left
    BY DEF Locals
  <2>2. AfterRecalc(q) = l
    BY <1>1 DEF AfterRecalc
  <2> HIDE DEF l
  <2>3. QED BY <1>1, <2>1, <2>2 DEF EarnedLocal
<1>2. CASE ~ (q.op = "collect" /\ q.left > 0 /\ \E i \in Invoice : q.quota[i] > 0)
  <2>1. AfterRecalc(q) = Idle
    BY <1>2 DEF AfterRecalc
  <2>2. QED BY <2>1, IdleEarned
<1>3. QED BY <1>1, <1>2

LEMMA RecalculateEarned ==
  ASSUME TypeInv, TypeInv', EarnedInv, NEW r \in Request, Recalculate(r)
  PROVE  EarnedInv'
<1> DEFINE q == req[r]
<1>1. q \in Locals /\ payments \in Seq(Row)
  BY DEF TypeInv, LedgerType, LocalOK
<1>2. CASE RecalcInvoice(r)
  <2> DEFINE l == [q EXCEPT !.pc = "recalcGross"]
  <2>1. l.pc = "recalcGross"
    BY <1>1 DEF Locals
  <2>2. UNCHANGED <<status, payments>> /\ (Goto(r, AfterRecalc(q)) \/ Goto(r, l))
    BY <1>2 DEF RecalcInvoice
  <2> HIDE DEF l
  <2>3. EarnedLocal(l, GrossOf, RefundedOf)
    BY <2>1 DEF EarnedLocal
  <2>4. QED BY <1>1, <2>2, <2>3, AfterRecalcEarned, ReadKeepsEarned
<1>3. CASE RecalcGross(r)
  <2> DEFINE i == q.inv
             l == [q EXCEPT !.pc = "recalcNet", !.gross = Gross(i)]
  <2>1. i \in Invoice
    BY <1>3, AtStep DEF RecalcGross, OnInvoice
  <2>2. l.pc = "recalcNet" /\ l.gross = Gross(i) /\ l.inv = i
    BY <1>1 DEF Locals
  <2>3. Goto(r, l) /\ UNCHANGED <<status, payments>>
    BY <1>3 DEF RecalcGross
  <2> HIDE DEF l, i
  <2>4. GrossOf[i] = Gross(i) /\ Gross(i) \in Int
    BY <1>1, <2>1, GrossType
  <2>5. l.gross <= GrossOf[l.inv]
    BY <2>2, <2>4
  <2>6. EarnedLocal(l, GrossOf, RefundedOf)
    BY <2>2, <2>5 DEF EarnedLocal
  <2>7. QED BY <2>3, <2>6, ReadKeepsEarned
<1>4. CASE RecalcNet(r)
  <2> DEFINE i == q.inv
             s == RecalculatedStatus(q.gross, Net(i), Total[i])
             l == [q EXCEPT !.pc = "recalcWrite", !.gross = 0, !.next = s]
  <2>1. i \in Invoice /\ q.pc = "recalcNet"
    BY <1>4, AtStep DEF RecalcNet, OnInvoice
  <2>2. Goto(r, l) /\ UNCHANGED <<status, payments>>
    BY <1>4 DEF RecalcNet
  <2>3. q.gross \in Int /\ q.gross <= Gross(i)
    <3>1. q.gross \in Int
      BY <1>1 DEF Locals
    <3>2. EarnedLocal(q, GrossOf, RefundedOf)
      BY DEF EarnedInv
    <3>3. q.gross <= GrossOf[i]
      BY <2>1, <3>2 DEF EarnedLocal
    <3>4. QED BY <1>1, <2>1, <3>1, <3>3, GrossType
  <2>4. EarnedBy(s, i, GrossOf, RefundedOf)
    BY <1>1, <2>1, <2>3, RecalculatedIsEarned
  <2> HIDE DEF s
  <2>5. l.pc = "recalcWrite" /\ l.next = s /\ l.inv = i
    BY <1>1 DEF Locals
  <2> HIDE DEF l, i
  <2>6. EarnedLocal(l, GrossOf, RefundedOf)
    BY <2>4, <2>5 DEF EarnedLocal
  <2>7. QED BY <2>2, <2>6, ReadKeepsEarned
<1>5. CASE RecalcWrite(r)
  <2> DEFINE i == q.inv
             l == [q EXCEPT !.next = "absent"]
  <2>1. i \in Invoice /\ q.pc = "recalcWrite" /\ status \in [Invoice -> Statuses]
    BY <1>5, AtStep DEF RecalcWrite, OnInvoice
  <2>2. /\ status' = [status EXCEPT ![i] = q.next]
        /\ Goto(r, AfterRecalc(l)) /\ payments' = payments
    BY <1>5 DEF RecalcWrite
  <2>3. Grows /\ GrossOf' = GrossOf /\ RefundedOf' = RefundedOf
    BY <2>2, SameGrows DEF GrossOf, RefundedOf, Gross, AmountOf, VerifiedPayments, VerifiedRefunds
  <2>4. EarnedBy(q.next, i, GrossOf, RefundedOf)
    <3>1. EarnedLocal(q, GrossOf, RefundedOf)
      BY DEF EarnedInv
    <3>2. QED BY <2>1, <3>1 DEF EarnedLocal
  <2>5. l \in Locals
    <3>1. "absent" \in Statuses
      BY DEF Statuses
    <3>2. QED BY Zenon, <1>1, <3>1 DEF Locals
  <2> HIDE DEF l
  <2>6. EarnedLocal(AfterRecalc(l), GrossOf', RefundedOf')
    BY <2>5, AfterRecalcEarned
  <2>7. req'[r] = AfterRecalc(l) /\ \A s \in Request \ {r} : req'[s] = req[s]
    BY <2>2, GotoReaches
  <2>8. \A j \in Invoice : \/ status'[j] = status[j]
                           \/ EarnedBy(status'[j], j, GrossOf', RefundedOf')
    BY <2>1, <2>2, <2>3, <2>4
  <2>9. EarnedLocal(req'[r], GrossOf', RefundedOf')
    BY <2>6, <2>7
  <2>10. QED BY <2>2, <2>3, <2>7, <2>8, <2>9, StepKeepsEarned
<1>6. QED BY <1>2, <1>3, <1>4, <1>5 DEF Recalculate


-----------------------------------------------------------------------------
(* The other handlers.                                                     *)

(* A step of r that does not bring it to a step with something to know.    *)
LEMMA QuietStepKeepsEarned ==
  ASSUME TypeInv, TypeInv', EarnedInv, Grows, NEW r \in Request, \E l : Goto(r, l),
         req'[r].pc \notin EarnedPC,
         \A k \in DOMAIN payments' \ DOMAIN payments : payments'[k].amount > 0,
         \A i \in Invoice : \/ status'[i] = status[i]
                            \/ EarnedBy(status'[i], i, GrossOf', RefundedOf')
  PROVE  EarnedInv'
<1>1. \A s \in Request \ {r} : req'[s] = req[s]
  BY GotoReaches
<1>2. EarnedLocal(req'[r], GrossOf', RefundedOf')
  BY DEF EarnedLocal, EarnedPC
<1>3. QED BY <1>1, <1>2, StepKeepsEarned

(* Inserting one row of a positive amount and moving on to a quiet step.   *)
LEMMA InsertKeepsEarned ==
  ASSUME TypeInv, TypeInv', EarnedInv, NEW r \in Request, \E l : Goto(r, l),
         req'[r].pc \notin EarnedPC, status' = status,
         NEW row, payments' = Append(payments, row), row.amount > 0
  PROVE  EarnedInv'
<1>1. payments \in Seq(Row)
  BY DEF TypeInv, LedgerType
<1>2. Grows /\ \A k \in DOMAIN payments' \ DOMAIN payments : payments'[k] = row
  BY <1>1, AnyAppendGrows
<1>3. \A k \in DOMAIN payments' \ DOMAIN payments : payments'[k].amount > 0
  BY <1>2
<1>4. QED BY <1>2, <1>3, QuietStepKeepsEarned

LEMMA RecordPaymentEarned ==
  ASSUME PositiveAmounts, TypeInv, TypeInv', EarnedInv, NEW r \in Request, RecordPayment(r)
  PROVE  EarnedInv'
<1> DEFINE q == req[r]
<1>1. q \in Locals
  BY DEF TypeInv, LocalOK
<1>2. CASE RecordAccept(r)
  <2>1. PICK a \in Amounts, m \in Method :
          Goto(r, [q EXCEPT !.pc = "recordInsert", !.gross = 0, !.left = a, !.method = m])
    BY <1>2 DEF RecordAccept
  <2> DEFINE l == [q EXCEPT !.pc = "recordInsert", !.gross = 0, !.left = a, !.method = m]
  <2>2. l.pc = "recordInsert" /\ l.left = a /\ a > 0
    BY <1>1 DEF Locals, PositiveAmounts
  <2>3. Goto(r, l) /\ UNCHANGED <<status, payments>>
    BY <1>2, <2>1 DEF RecordAccept
  <2> HIDE DEF l
  <2>4. EarnedLocal(l, GrossOf, RefundedOf)
    BY <2>2 DEF EarnedLocal
  <2>5. QED BY <2>3, <2>4, ReadKeepsEarned
<1>3. CASE RecordInsert(r)
  <2> DEFINE row == PaymentRow(q.inv, q.left, q.method)
  <2>1. q.left > 0
    <3>1. q.pc = "recordInsert"
      BY <1>3 DEF RecordInsert, At
    <3>2. QED BY <3>1 DEF EarnedInv, EarnedLocal
  <2>2. row.amount > 0
    BY <2>1 DEF PaymentRow
  <2>3. req'[r].pc \notin EarnedPC
    BY <1>3, ReachedPc DEF EarnedPC
  <2>4. payments' = Append(payments, row) /\ status' = status /\ \E l : Goto(r, l)
    BY <1>3 DEF RecordInsert
  <2> HIDE DEF row
  <2>5. QED BY <2>2, <2>3, <2>4, InsertKeepsEarned
<1>4. CASE RecordGross(r) \/ RecordReject(r) \/ \E i \in Invoice : RecordStart(r, i)
  <2>1. req'[r].pc \notin EarnedPC
    BY <1>4, ReachedPc DEF EarnedPC
  <2>2. UNCHANGED <<status, payments>> /\ \E l : Goto(r, l)
    BY Zenon, <1>4 DEF RecordGross, RecordReject, RecordStart
  <2>3. QED BY <2>1, <2>2, SameGrows, QuietStepKeepsEarned
<1>5. QED BY <1>2, <1>3, <1>4 DEF RecordPayment

LEMMA CollectPaymentEarned ==
  ASSUME TypeInv, TypeInv', EarnedInv, NEW r \in Request, CollectPayment(r)
  PROVE  EarnedInv'
<1> DEFINE q == req[r]
<1>1. q \in Locals
  BY DEF TypeInv, LocalOK
<1>2. CASE CollectStart(r)
  <2>1. req'[r].pc \notin EarnedPC
    BY <1>2, ReachedPc DEF EarnedPC
  <2>2. UNCHANGED payments /\ \E l : Goto(r, l)
    BY <1>2 DEF CollectStart
  <2>3. status \in [Invoice -> Statuses]
    BY DEF TypeInv, LedgerType
  <2>4. \A i \in Invoice : status'[i] = status[i] \/ status'[i] = "unpaid"
    BY <1>2, <2>3 DEF CollectStart, IssueRecurring
  <2>5. \A i \in Invoice : \/ status'[i] = status[i]
                           \/ EarnedBy(status'[i], i, GrossOf', RefundedOf')
    BY <2>4 DEF EarnedBy
  <2>6. QED BY <2>1, <2>2, <2>5, SameGrows, QuietStepKeepsEarned
<1>3. CASE CollectAccept(r)
  <2>1. PICK a \in Amounts, m \in Method :
          0 < a /\ Goto(r, [q EXCEPT !.pc = "spread", !.left = a, !.method = m])
    BY <1>3 DEF CollectAccept
  <2> DEFINE l == [q EXCEPT !.pc = "spread", !.left = a, !.method = m]
  <2>2. l.pc = "spread" /\ l.left = a
    BY <1>1 DEF Locals
  <2>3. Goto(r, l) /\ UNCHANGED <<status, payments>>
    BY <1>3, <2>1 DEF CollectAccept
  <2>4. a \in Int
    BY RequestAssumption
  <2> HIDE DEF l
  <2>5. EarnedLocal(l, GrossOf, RefundedOf)
    BY <2>1, <2>2, <2>4 DEF EarnedLocal
  <2>6. QED BY <2>3, <2>5, ReadKeepsEarned
<1>4. CASE CollectInsert(r)
  <2> DEFINE S == {j \in Invoice : q.quota[j] > 0}
             i == Oldest(S)
             applied == Min({q.left, q.quota[i]})
             row == PaymentRow(i, applied, q.method)
  <2>1. q.pc = "spread" /\ LocalOK(q, DOMAIN payments)
    BY <1>4, AtStep DEF CollectInsert
  <2>2. S # {} /\ S \in SUBSET Invoice
    BY <2>1 DEF LocalOK
  <2>3. i \in S
    BY <2>2, OldestIsMember
  <2>4. q.left \in Int /\ q.left > 0
    BY <1>1, <2>1 DEF EarnedInv, EarnedLocal, Locals
  <2>5. q.quota[i] \in Int /\ q.quota[i] > 0
    <3>1. i \in Invoice /\ q.quota[i] > 0
      BY <2>3
    <3> HIDE DEF i
    <3>2. q.quota[i] \in Nat
      BY <1>1, <3>1 DEF Locals
    <3>3. QED BY <3>1, <3>2
  <2>6. payments' = Append(payments, row) /\ status' = status /\ \E l : Goto(r, l)
    BY <1>4 DEF CollectInsert
  <2>7. row.amount = applied
    BY DEF PaymentRow
  <2> HIDE DEF i, row
  <2>8. applied > 0
    BY <2>4, <2>5, MinOfTwo
  <2>9. req'[r].pc \notin EarnedPC
    BY <1>4, ReachedPc DEF EarnedPC
  <2>10. QED BY <2>6, <2>7, <2>8, <2>9, InsertKeepsEarned
<1>5. CASE CollectOpen(r) \/ CollectGross(r) \/ CollectPending(r) \/ CollectReject(r)
  <2>1. req'[r].pc \notin EarnedPC
    BY <1>5, ReachedPc DEF EarnedPC
  <2>2. UNCHANGED <<status, payments>> /\ \E l : Goto(r, l)
    BY Zenon, <1>5 DEF CollectOpen, CollectGross, CollectPending, CollectReject
  <2>3. QED BY <2>1, <2>2, SameGrows, QuietStepKeepsEarned
<1>6. QED BY <1>2, <1>3, <1>4, <1>5 DEF CollectPayment


LEMMA VerifyPaymentEarned ==
  ASSUME TypeInv, TypeInv', EarnedInv, NEW r \in Request, VerifyPayment(r)
  PROVE  EarnedInv'
<1>1. CASE VerifyWrite(r)
  <2>1. Grows /\ DOMAIN payments' = DOMAIN payments
    BY <1>1, VerifyGrows
  <2>2. req'[r].pc \notin EarnedPC
    BY <1>1, ReachedPc DEF EarnedPC
  <2>3. status' = status /\ \E l : Goto(r, l)
    BY <1>1 DEF VerifyWrite
  <2>4. QED BY <2>1, <2>2, <2>3, QuietStepKeepsEarned
<1>2. CASE \E p \in DOMAIN payments : VerifyStart(r, p)
  <2>1. req'[r].pc \notin EarnedPC
    BY <1>2, ReachedPc DEF EarnedPC
  <2>2. UNCHANGED <<status, payments>> /\ \E l : Goto(r, l)
    BY Zenon, <1>2 DEF VerifyStart
  <2>3. QED BY <2>1, <2>2, SameGrows, QuietStepKeepsEarned
<1>3. QED BY <1>1, <1>2 DEF VerifyPayment

LEMMA RefundPaymentEarned ==
  ASSUME TypeInv, TypeInv', RefundInv, EarnedInv, NEW r \in Request, RefundPayment(r)
  PROVE  EarnedInv'
<1> DEFINE q == req[r]
<1>1. q \in Locals
  BY DEF TypeInv, LocalOK
<1>2. CASE RefundInsert(r)
  <2> DEFINE row == RefundRow(q.pay, q.left, payments[q.pay].method)
  <2>1. q.left > 0
    <3>1. q.pc = "refundInsert" /\ q.left \in Int
      BY <1>1, <1>2 DEF RefundInsert, At, Locals
    <3>2. QED BY <3>1 DEF RefundInv, RefundLocal
  <2>2. row.amount > 0
    BY <2>1 DEF RefundRow
  <2>3. req'[r].pc \notin EarnedPC
    BY <1>2, ReachedPc DEF EarnedPC
  <2>4. payments' = Append(payments, row) /\ status' = status /\ \E l : Goto(r, l)
    BY <1>2 DEF RefundInsert
  <2> HIDE DEF row
  <2>5. QED BY <2>2, <2>3, <2>4, InsertKeepsEarned
<1>3. CASE RefundAccept(r)
  <2>1. PICK a : Goto(r, [q EXCEPT !.pc = "refundInsert", !.left = a])
    BY <1>3 DEF RefundAccept
  <2> DEFINE l == [q EXCEPT !.pc = "refundInsert", !.left = a]
  <2>2. l.pc = "refundInsert"
    BY <1>1 DEF Locals
  <2>3. Goto(r, l) /\ UNCHANGED <<status, payments>>
    BY <1>3, <2>1 DEF RefundAccept
  <2> HIDE DEF l
  <2>4. EarnedLocal(l, GrossOf, RefundedOf)
    BY <2>2 DEF EarnedLocal
  <2>5. QED BY <2>3, <2>4, ReadKeepsEarned
<1>4. CASE RefundReject(r) \/ \E p \in DOMAIN payments : RefundStart(r, p)
  <2>1. req'[r].pc \notin EarnedPC
    BY <1>4, ReachedPc DEF EarnedPC
  <2>2. UNCHANGED <<status, payments>> /\ \E l : Goto(r, l)
    BY Zenon, <1>4 DEF RefundReject, RefundStart
  <2>3. QED BY <2>1, <2>2, SameGrows, QuietStepKeepsEarned
<1>5. QED BY <1>2, <1>3, <1>4 DEF RefundPayment

LEMMA CancelEnrollmentEarned ==
  ASSUME TypeInv, TypeInv', RefundInv, EarnedInv, NEW r \in Request, CancelEnrollment(r)
  PROVE  EarnedInv'
<1> DEFINE q == req[r]
<1>1. q \in Locals /\ payments \in Seq(Row)
  BY DEF TypeInv, LocalOK, LedgerType
<1>2. CASE CancelPlan(r)
  <2>1. PICK plan : Goto(r, [q EXCEPT !.pc = "cancelCommit", !.plan = plan])
    BY <1>2 DEF CancelPlan
  <2> DEFINE l == [q EXCEPT !.pc = "cancelCommit", !.plan = plan]
  <2>2. l.pc = "cancelCommit"
    BY <1>1 DEF Locals
  <2>3. Goto(r, l) /\ UNCHANGED <<status, payments>>
    BY <1>2, <2>1 DEF CancelPlan
  <2> HIDE DEF l
  <2>4. EarnedLocal(l, GrossOf, RefundedOf)
    BY <2>2 DEF EarnedLocal
  <2>5. QED BY <2>3, <2>4, ReadKeepsEarned
<1>3. CASE CancelCommit(r)
  <2>1. q.pc = "cancelCommit" /\ status \in [Invoice -> Statuses]
    BY <1>3, AtStep DEF CancelCommit
  <2>2. q.plan \in Seq(Row)
    BY Zenon, <1>1 DEF Locals
  <2>3. \A k \in DOMAIN q.plan : q.plan[k].amount > 0
    <3>1. SUFFICES ASSUME NEW k \in DOMAIN q.plan PROVE q.plan[k].amount > 0
      OBVIOUS
    <3>2. Backed(q.plan[k], payments)
      BY <2>1 DEF RefundInv, RefundLocal
    <3>3. q.plan[k] \in Row
      BY <2>2
    <3>4. q.plan[k].amount \in Int
      BY <3>3 DEF Row
    <3>5. QED BY <3>2, <3>4 DEF Backed
  <2>4. /\ Grows
        /\ \A k \in DOMAIN payments' \ DOMAIN payments :
             \E j \in DOMAIN q.plan : payments'[k] = q.plan[j]
    BY <1>1, <1>3, <2>2, ConcatGrows DEF CancelCommit
  <2>5. \A k \in DOMAIN payments' \ DOMAIN payments : payments'[k].amount > 0
    BY <2>3, <2>4
  <2>6. \A i \in Invoice : status'[i] = status[i] \/ status'[i] = "cancelled"
    BY <1>3 DEF CancelCommit
  <2>7. \A i \in Invoice : \/ status'[i] = status[i]
                           \/ EarnedBy(status'[i], i, GrossOf', RefundedOf')
    BY <2>6 DEF EarnedBy
  <2>8. req'[r].pc \notin EarnedPC /\ \E l : Goto(r, l)
    BY <1>3, ReachedPc DEF EarnedPC, CancelCommit
  <2>9. QED BY <2>4, <2>5, <2>7, <2>8, QuietStepKeepsEarned
<1>4. CASE CancelRead(r) \/ CancelReject(r)
  <2>1. req'[r].pc \notin EarnedPC
    BY <1>4, ReachedPc DEF EarnedPC
  <2>2. UNCHANGED <<status, payments>> /\ \E l : Goto(r, l)
    BY Zenon, <1>4 DEF CancelRead, CancelReject
  <2>3. QED BY <2>1, <2>2, SameGrows, QuietStepKeepsEarned
<1>5. QED BY <1>2, <1>3, <1>4 DEF CancelEnrollment


(* Inserting an invoice, with or without a payment at the desk.            *)
LEMMA IssueEarned ==
  ASSUME TypeInv, TypeInv', EarnedInv, NEW i \in Invoice, Issue(i)
  PROVE  EarnedInv'
<1>1. /\ status \in [Invoice -> Statuses] /\ payments \in Seq(Row)
      /\ payments' \in Seq(Row) /\ req' = req
  BY DEF TypeInv, LedgerType, Issue, CreateInvoice, Confirm, AddService, GenerateMonthly, IssueAtDesk
<1>2. SUFFICES ASSUME Grows,
                      \A k \in DOMAIN payments' \ DOMAIN payments : payments'[k].amount > 0,
                      \A j \in Invoice : \/ status'[j] = status[j]
                                         \/ EarnedBy(status'[j], j, GrossOf', RefundedOf')
               PROVE  EarnedInv'
  <2>1. CASE UNCHANGED payments
    <3>1. \A j \in Invoice : status'[j] = status[j] \/ status'[j] = "unpaid"
      <4>1. CASE IssueAtDesk(i)
        <5>1. ~ \E row : payments' = Append(payments, row)
          BY <1>1, <2>1
        <5>2. QED BY <1>1, <4>1, <5>1 DEF IssueAtDesk
      <4>2. CASE ~ IssueAtDesk(i)
        BY <1>1, <4>2 DEF Issue, CreateInvoice, Confirm, AddService, GenerateMonthly, IssueRecurring
      <4>3. QED BY <4>1, <4>2
    <3>2. \A j \in Invoice : \/ status'[j] = status[j]
                             \/ EarnedBy(status'[j], j, GrossOf', RefundedOf')
      BY <3>1 DEF EarnedBy
    <3>3. QED BY <1>2, <2>1, <3>2, SameGrows
  <2>2. CASE ~ UNCHANGED payments
    <3>1. IssueAtDesk(i)
      BY <2>2 DEF Issue, CreateInvoice, Confirm, AddService, GenerateMonthly
    <3>2. PICK a \in Amounts \cup {Total[i]}, m \in Method :
            /\ 0 < a /\ a <= Total[i]
            /\ payments' = Append(payments, PaymentRow(i, a, m))
            /\ status' = [status EXCEPT ![i] =
                 IF m # "cash" THEN "unpaid"
                 ELSE IF a >= Total[i] THEN "paid" ELSE "partial"]
      BY <2>2, <3>1 DEF IssueAtDesk
    <3> DEFINE row == PaymentRow(i, a, m)
               n == Len(payments) + 1
               g == AmountOf'
               B == VerifiedPayments(i)'
    <3>3. a \in Int /\ Total[i] \in Int
      BY InvoiceAssumption, RequestAssumption
    <3>4. /\ row.amount = a /\ row.kind = "payment" /\ row.invoice = i
          /\ row.verified = (m = "cash")
      BY DEF PaymentRow
    <3> HIDE DEF row
    <3>5. /\ Grows /\ n \in DOMAIN payments' /\ payments'[n] = row
          /\ \A k \in DOMAIN payments' \ DOMAIN payments : k = n
      BY <1>1, <3>2, AnyAppendGrows DEF row
    <3>6. \A k \in DOMAIN payments' \ DOMAIN payments : payments'[k].amount > 0
      BY <3>2, <3>3, <3>4, <3>5
    <3>7. ASSUME m = "cash" PROVE GrossOf'[i] \in Int /\ a <= GrossOf'[i]
      <4>1. B \in SUBSET DOMAIN payments' /\ n \in B
        BY <3>4, <3>5, <3>7 DEF VerifiedPayments
      <4>2. IsFiniteSet(B)
        BY <1>1, <4>1, DomainFinite, FS_Subset
      <4>3. \A k \in DOMAIN payments' : g[k] = payments'[k].amount /\ g[k] \in Nat
        <5>1. TAKE k \in DOMAIN payments'
        <5>2. payments'[k] \in Row
          BY <1>1
        <5>3. payments'[k].amount \in Int
          BY <5>2 DEF Row
        <5>4. payments'[k].amount > 0
          <6>1. CASE k \in DOMAIN payments
            BY <3>5, <6>1 DEF EarnedInv, PositiveRows, Grows
          <6>2. QED BY <3>6, <6>1
        <5>5. QED BY <5>3, <5>4 DEF AmountOf
      <4>4. g[n] = a
        BY <3>4, <3>5, <4>3
      <4>5. GrossOf'[i] = SumFunctionOnSet(g, B)
        BY DEF GrossOf, Gross
      <4> HIDE DEF g, B, n
      <4>6. \A k \in B : g[k] \in Nat
        BY <4>1, <4>3
      <4>7. g[n] <= SumFunctionOnSet(g, B) /\ SumFunctionOnSet(g, B) \in Nat
        BY <4>1, <4>2, <4>6, SumMember, SumNonNegative
      <4>8. QED BY <4>4, <4>5, <4>7
    <3>8. EarnedBy(status'[i], i, GrossOf', RefundedOf')
      <4>1. CASE m # "cash"
        <5>1. status'[i] = "unpaid"
          BY <1>1, <3>2, <4>1
        <5>2. QED BY <5>1 DEF EarnedBy
      <4>2. CASE m = "cash"
        <5>1. status'[i] = IF a >= Total[i] THEN "paid" ELSE "partial"
          BY <1>1, <3>2, <4>2
        <5>2. GrossOf'[i] > 0 /\ (a >= Total[i] => GrossOf'[i] >= Total[i])
          BY <3>2, <3>3, <3>7, <4>2
        <5>3. QED BY <5>1, <5>2 DEF EarnedBy
      <4>3. QED BY <4>1, <4>2
    <3>9. \A j \in Invoice : \/ status'[j] = status[j]
                             \/ EarnedBy(status'[j], j, GrossOf', RefundedOf')
      BY <1>1, <3>2, <3>8
    <3>10. QED BY <1>2, <3>5, <3>6, <3>9
  <2>3. QED BY <2>1, <2>2
<1>3. PositiveRows'
  BY <1>2 DEF EarnedInv, PositiveRows, Grows
<1>4. \A j \in Invoice : EarnedBy(status'[j], j, GrossOf', RefundedOf')
  BY <1>1, <1>2, <1>3, EarnedStays DEF EarnedInv
<1>5. \A r \in Request : EarnedLocal(req'[r], GrossOf', RefundedOf')
  <2>1. TAKE r \in Request
  <2>2. LocalOK(req[r], DOMAIN payments) /\ EarnedLocal(req[r], GrossOf, RefundedOf)
    BY DEF TypeInv, EarnedInv
  <2>3. QED BY <1>1, <1>2, <1>3, <2>2, EarnedLocalStays
<1>6. QED BY <1>3, <1>4, <1>5 DEF EarnedInv

LEMMA NextKeepsEarned ==
  ASSUME PositiveAmounts, TypeInv, RefundInv, EarnedInv, [Next]_vars
  PROVE  EarnedInv'
<1>1. TypeInv'
  BY NextKeepsType
<1>2. CASE UNCHANGED vars
  BY <1>2 DEF vars, EarnedInv, PositiveRows, GrossOf, RefundedOf, Gross, AmountOf,
              VerifiedPayments, VerifiedRefunds
<1>3. ASSUME NEW i \in Invoice, Issue(i)
      PROVE  EarnedInv'
  BY <1>1, <1>3, IssueEarned
<1>4. ASSUME NEW r \in Request, Serve(r)
      PROVE  EarnedInv'
  <2>1. CASE Refuse(r)
    BY <1>2, <2>1 DEF Refuse
  <2>2. QED
    BY <1>1, <1>4, <2>1, RecordPaymentEarned, CollectPaymentEarned, VerifyPaymentEarned,
       RefundPaymentEarned, CancelEnrollmentEarned, RecalculateEarned DEF Serve
<1>5. ASSUME NEW r \in Request, Fail(r)
      PROVE  EarnedInv'
  <2>1. Goto(r, Idle) /\ UNCHANGED <<status, payments>>
    BY <1>5 DEF Fail
  <2>2. QED BY <1>1, <2>1, IdleEarned, ReadKeepsEarned
<1>6. QED BY <1>2, <1>3, <1>4, <1>5, WorkCases DEF Next

LEMMA EarnedInvariant == PositiveAmounts => (Spec => []EarnedInv)
<1>1. SUFFICES ASSUME PositiveAmounts PROVE Spec => []EarnedInv
  OBVIOUS
<1>2. Init => EarnedInv
  <2>1. SUFFICES ASSUME Init PROVE EarnedInv
    OBVIOUS
  <2>2. \A i \in Invoice : EarnedBy(status[i], i, GrossOf, RefundedOf)
    BY <2>1 DEF Init, EarnedBy
  <2>3. PositiveRows
    BY <2>1 DEF Init, PositiveRows
  <2>4. \A r \in Request : EarnedLocal(req[r], GrossOf, RefundedOf)
    BY <2>1, IdleEarned DEF Init
  <2>5. QED BY <2>2, <2>3, <2>4 DEF EarnedInv
<1>3. TypeInv /\ RefundInv /\ EarnedInv /\ [Next]_vars => EarnedInv'
  BY <1>1, NextKeepsEarned
<1>4. QED BY TypeInvariant, RefundInvariant, <1>2, <1>3, PTL DEF Spec

(* A status that reports money was earned, for any accounts and any number *)
(* of handlers in flight, when every amount a request carries is positive. *)
THEOREM StatusIsEarned == PositiveAmounts => (Spec => []StatusEarned)
<1>1. EarnedInv => StatusEarned
  BY EarnedInvSuffices
<1>2. QED BY EarnedInvariant, <1>1, PTL

-----------------------------------------------------------------------------
(* One request at a time.  A handler then still knows what it has read: in *)
(* between, only invoices that were not there can have been inserted.      *)

OneAtATime == \A r, s \in Request : r = s

PaymentsOf(i) == {p \in DOMAIN payments : payments[p].kind = "payment" /\ payments[p].invoice = i}

(* What an invoice has taken, verified or not.                             *)
Committed(i) == SumFunctionOnSet(AmountOf, PaymentsOf(i))

CommittedOf == [i \in Invoice |-> Committed(i)]
NetOf       == [i \in Invoice |-> Net(i)]

RecordPC == {"recordGross", "recordPending", "recordInsert"}

(* The locals agree with the statuses s and the sums c, g and n: a quota   *)
(* is still free, an amount to insert still fits, a sum that was read is   *)
(* the sum, and an invoice that is recalculated is not cancelled.          *)
AloneLocal(q, s, c, g, n) ==
  /\ \A i \in Invoice : q.quota[i] > 0 => s[i] # "absent" /\ c[i] + q.quota[i] <= Total[i]
  /\ q.pc \in RecordPC => \A i \in Invoice : q.quota[i] = 0
  /\ q.pc \in OnInvoice => s[q.inv] # "absent"
  /\ \A i \in q.todo : s[i] # "absent"
  /\ q.pc \in {"recordPending", "collectPending", "recalcNet"} => q.gross = g[q.inv]
  /\ q.pc = "recordInsert" => c[q.inv] + q.left <= Total[q.inv]
  /\ q.pc \in {"recalcGross", "recalcNet", "recalcWrite"} => s[q.inv] # "cancelled"
  /\ q.pc = "recalcWrite" => q.next = RecalculatedStatus(g[q.inv], n[q.inv], Total[q.inv])

IssuedPayments ==
  \A k \in DOMAIN payments :
    payments[k].kind = "payment" => status[payments[k].invoice] # "absent"

AloneInv ==
  /\ IssuedPayments
  /\ \A i \in Invoice : CommittedOf[i] <= Total[i]
  /\ \A r \in Request : AloneLocal(req[r], status, CommittedOf, GrossOf, NetOf)

LEMMA CommittedIsSum ==
  ASSUME payments \in Seq(Row), NEW i
  PROVE  Committed(i) = Gross(i) + Pending(i) /\ Committed(i) \in Int
<1> DEFINE A == VerifiedPayments(i)   B == UnverifiedPayments(i)   f == AmountOf
<1>1. A \cup B = PaymentsOf(i) /\ A \cap B = {} /\ A \in SUBSET DOMAIN payments
      /\ B \in SUBSET DOMAIN payments
  BY DEF VerifiedPayments, UnverifiedPayments, PaymentsOf
<1>2. IsFiniteSet(A) /\ IsFiniteSet(B)
  BY <1>1, RowsFinite, FS_Subset
<1>3. \A x \in A \cup B : f[x] \in Int
  BY <1>1, AmountOfType
<1>4. Gross(i) \in Int /\ Pending(i) \in Int
  BY SumsAreIntegers
<1>5. Gross(i) = SumFunctionOnSet(f, A) /\ Pending(i) = SumFunctionOnSet(f, B)
      /\ Committed(i) = SumFunctionOnSet(f, A \cup B)
  BY <1>1 DEF Gross, Pending, Committed
<1> HIDE DEF A, B, f
<1>6. SumFunctionOnSet(f, A \cup B) = SumFunctionOnSet(f, A) + SumFunctionOnSet(f, B)
  BY <1>1, <1>2, <1>3, SumUnion
<1>7. QED BY <1>4, <1>5, <1>6

LEMMA TableTypes ==
  ASSUME payments \in Seq(Row), NEW i \in Invoice
  PROVE  /\ CommittedOf[i] = Committed(i) /\ GrossOf[i] = Gross(i) /\ NetOf[i] = Net(i)
         /\ CommittedOf[i] = GrossOf[i] + Pending(i)
         /\ CommittedOf[i] \in Int /\ GrossOf[i] \in Int /\ NetOf[i] \in Int
         /\ Pending(i) \in Int /\ Total[i] \in Nat
  BY CommittedIsSum, SumsAreIntegers, InvoiceAssumption DEF CommittedOf, GrossOf, NetOf

(* A row that is no payment of an invoice, or the verification of one,     *)
(* leaves what the invoice has taken.                                      *)
LEMMA CommittedStays ==
  ASSUME payments \in Seq(Row), payments' \in Seq(Row), Grows, NEW i \in Invoice,
         \A k \in DOMAIN payments' \ DOMAIN payments :
           ~ (payments'[k].kind = "payment" /\ payments'[k].invoice = i)
  PROVE  CommittedOf'[i] = CommittedOf[i]
<1> DEFINE S == PaymentsOf(i)   f == AmountOf   g == AmountOf'
<1>1. PaymentsOf(i)' = S /\ S \in SUBSET DOMAIN payments
  BY DEF PaymentsOf, Grows
<1>2. \A k \in S : f[k] = g[k]
  BY <1>1 DEF AmountOf, Grows
<1>3. IsFiniteSet(S)
  BY <1>1, RowsFinite, FS_Subset
<1>4. CommittedOf[i] = SumFunctionOnSet(f, S) /\ CommittedOf'[i] = SumFunctionOnSet(g, S)
  BY <1>1 DEF CommittedOf, Committed
<1> HIDE DEF S, f, g
<1>5. SumFunctionOnSet(f, S) = SumFunctionOnSet(g, S)
  BY <1>2, <1>3, SumCong
<1>6. QED BY <1>4, <1>5

(* A payment adds its amount.                                              *)
LEMMA CommittedAdds ==
  ASSUME payments \in Seq(Row), NEW row \in Row, payments' = Append(payments, row),
         row.kind = "payment", NEW i \in Invoice, row.invoice = i
  PROVE  CommittedOf'[i] = CommittedOf[i] + row.amount
<1> DEFINE n == Len(payments) + 1
           S == PaymentsOf(i)   W == PaymentsOf(i)'   f == AmountOf   g == AmountOf'
<1>1. /\ payments' \in Seq(Row) /\ n \notin DOMAIN payments /\ payments'[n] = row
      /\ DOMAIN payments' = DOMAIN payments \cup {n}
      /\ \A k \in DOMAIN payments : payments'[k] = payments[k]
  BY AppendGrows
<1> HIDE DEF n
<1>2. n \in W /\ W \ {n} = S /\ W \in SUBSET DOMAIN payments' /\ S \in SUBSET DOMAIN payments
  BY <1>1 DEF PaymentsOf
<1>3. \A k \in S : f[k] = g[k]
  BY <1>1, <1>2 DEF AmountOf
<1>4. IsFiniteSet(W) /\ IsFiniteSet(S)
  BY <1>1, <1>2, DomainFinite, FS_Subset
<1>5. g[n] = row.amount
  BY <1>1 DEF AmountOf
<1>6. \A k \in W : g[k] \in Int
  <2>1. \A k \in DOMAIN payments' : payments'[k] \in Row /\ g[k] = payments'[k].amount
    BY <1>1 DEF AmountOf
  <2>2. QED BY <1>2, <2>1 DEF Row
<1>7. CommittedOf[i] = SumFunctionOnSet(f, S) /\ CommittedOf'[i] = SumFunctionOnSet(g, W)
  BY DEF CommittedOf, Committed
<1>8. SumFunctionOnSet(f, S) \in Int
  BY <1>7, TableTypes
<1> HIDE DEF S, W, f, g
<1>9. SumFunctionOnSet(f, S) = SumFunctionOnSet(g, S)
  BY <1>3, <1>4, SumCong
<1>10. SumFunctionOnSet(g, W) = g[n] + SumFunctionOnSet(g, W \ {n})
  BY <1>2, <1>4, <1>6, SumRemove
<1>11. row.amount \in Int
  BY DEF Row
<1>12. CommittedOf'[i] = row.amount + CommittedOf[i] /\ CommittedOf[i] \in Int
  BY <1>2, <1>5, <1>7, <1>8, <1>9, <1>10
<1>13. QED BY <1>11, <1>12

(* The sums of the other invoices stay.                                    *)
LEMMA OthersStay ==
  ASSUME payments \in Seq(Row), NEW row \in Row, payments' = Append(payments, row),
         NEW j \in Invoice, row.invoice # j
  PROVE  /\ CommittedOf'[j] = CommittedOf[j] /\ GrossOf'[j] = GrossOf[j]
         /\ NetOf'[j] = NetOf[j]
<1>1. /\ payments' \in Seq(Row) /\ Grows
      /\ DOMAIN payments' = DOMAIN payments \cup {Len(payments) + 1}
      /\ payments'[Len(payments) + 1] = row
      /\ \A k \in DOMAIN payments : payments'[k] = payments[k]
  BY AppendGrows
<1>2. VerifiedPayments(j)' = VerifiedPayments(j) /\ VerifiedRefunds(j)' = VerifiedRefunds(j)
  BY <1>1 DEF VerifiedPayments, VerifiedRefunds
<1>3. ASSUME NEW S \in SUBSET DOMAIN payments
      PROVE  SumFunctionOnSet(AmountOf', S) = SumFunctionOnSet(AmountOf, S)
  <2> DEFINE f == AmountOf   g == AmountOf'
  <2>1. IsFiniteSet(S)
    BY RowsFinite, FS_Subset
  <2>2. \A k \in S : f[k] = g[k]
    BY <1>1 DEF AmountOf
  <2> HIDE DEF f, g
  <2>3. SumFunctionOnSet(f, S) = SumFunctionOnSet(g, S)
    BY <2>1, <2>2, SumCong
  <2>4. QED BY <2>3 DEF f, g
<1>4. /\ VerifiedPayments(j) \in SUBSET DOMAIN payments
      /\ VerifiedRefunds(j) \in SUBSET DOMAIN payments
  BY DEF VerifiedPayments, VerifiedRefunds
<1>5. Gross(j)' = Gross(j) /\ Net(j)' = Net(j)
  BY <1>2, <1>3, <1>4 DEF Gross, Net
<1>6. CommittedOf'[j] = CommittedOf[j]
  BY <1>1, CommittedStays
<1>7. QED BY <1>5, <1>6 DEF GrossOf, NetOf

-----------------------------------------------------------------------------
(* What a step has to establish.                                           *)

LEMMA IdleAlone ==
  ASSUME NEW s, NEW c, NEW g, NEW n
  PROVE  AloneLocal(Idle, s, c, g, n)
  BY DEF AloneLocal, Idle, OnInvoice, RecordPC

LEMMA AfterRecalcAlone ==
  ASSUME NEW q \in Locals, NEW s, NEW c, NEW g, NEW n, AloneLocal(q, s, c, g, n)
  PROVE  AloneLocal(AfterRecalc(q), s, c, g, n)
<1>1. CASE q.op = "collect" /\ q.left > 0 /\ \E i \in Invoice : q.quota[i] > 0
  <2> DEFINE l == [q EXCEPT !.pc = "spread"]
  <2>1. l.pc = "spread" /\ l.quota = q.quota /\ l.todo = q.todo
    BY DEF Locals
  <2>2. AfterRecalc(q) = l
    BY <1>1 DEF AfterRecalc
  <2> HIDE DEF l
  <2>3. QED BY <2>1, <2>2 DEF AloneLocal, OnInvoice, RecordPC
<1>2. CASE ~ (q.op = "collect" /\ q.left > 0 /\ \E i \in Invoice : q.quota[i] > 0)
  BY <1>2, IdleAlone DEF AfterRecalc
<1>3. QED BY <1>1, <1>2

(* Locals are about invoices that are there; the others may change.        *)
LEMMA LocalStays ==
  ASSUME NEW D, NEW q, LocalOK(q, D), NEW s, NEW c, NEW g, NEW n,
         AloneLocal(q, s, c, g, n), NEW s2, NEW c2, NEW g2, NEW n2,
         \A j \in Invoice : s[j] # "absent" =>
           s2[j] = s[j] /\ c2[j] = c[j] /\ g2[j] = g[j] /\ n2[j] = n[j]
  PROVE  AloneLocal(q, s2, c2, g2, n2)
<1>1. /\ q.pc \in OnInvoice => q.inv \in Invoice
      /\ q.todo \in SUBSET Invoice
  <2>1. q \in Locals /\ (q.pc \in OnInvoice => q.inv \in Invoice)
    BY DEF LocalOK
  <2>2. q.todo \in SUBSET Invoice
    BY Zenon, <2>1 DEF Locals
  <2>3. QED BY <2>1, <2>2
<1>2. q.pc \in {"recordPending", "collectPending", "recalcNet", "recordInsert",
                "recalcGross", "recalcWrite"} => q.pc \in OnInvoice
  BY DEF OnInvoice
<1>3. \A i \in Invoice : q.quota[i] > 0 => s2[i] # "absent" /\ c2[i] + q.quota[i] <= Total[i]
  BY DEF AloneLocal
<1>4. QED BY <1>1, <1>2, <1>3 DEF AloneLocal

(* Only one handler is under way, so a step is judged by its own locals.   *)
LEMMA AloneStep ==
  ASSUME OneAtATime, TypeInv, NEW r \in Request, NEW l, Goto(r, l),
         AloneLocal(l, status', CommittedOf', GrossOf', NetOf'), IssuedPayments',
         \A i \in Invoice : CommittedOf'[i] <= Total[i]
  PROVE  AloneInv'
<1>1. \A s \in Request : req'[s] = l
  BY GotoReaches DEF OneAtATime
<1>2. QED BY <1>1 DEF AloneInv

LEMMA IssuedStays ==
  ASSUME payments \in Seq(Row), IssuedPayments, Grows,
         \A i \in Invoice : status[i] # "absent" => status'[i] # "absent",
         \A k \in DOMAIN payments' \ DOMAIN payments :
           payments'[k].kind = "payment" => status'[payments'[k].invoice] # "absent"
  PROVE  IssuedPayments'
<1>1. SUFFICES ASSUME NEW k \in DOMAIN payments', payments'[k].kind = "payment"
               PROVE  status'[payments'[k].invoice] # "absent"
  BY DEF IssuedPayments
<1>2. CASE k \in DOMAIN payments
  <2>1. payments[k].kind = "payment" /\ payments'[k].invoice = payments[k].invoice
    BY <1>1, <1>2 DEF Grows
  <2>2. payments[k] \in Row
    BY <1>2
  <2>3. payments[k].invoice \in Invoice
    BY <2>2 DEF Row
  <2>4. QED BY <1>2, <2>1, <2>3 DEF IssuedPayments
<1>3. QED BY <1>1, <1>2

(* A step that inserts no payment.                                         *)
LEMMA QuietStep ==
  ASSUME OneAtATime, TypeInv, TypeInv', AloneInv, Grows, NEW r \in Request, NEW l, Goto(r, l),
         \A k \in DOMAIN payments' \ DOMAIN payments : payments'[k].kind # "payment",
         \A i \in Invoice : status[i] # "absent" => status'[i] # "absent",
         (\A i \in Invoice : CommittedOf'[i] = CommittedOf[i]) =>
           AloneLocal(l, status', CommittedOf', GrossOf', NetOf')
  PROVE  AloneInv'
<1>1. payments \in Seq(Row) /\ payments' \in Seq(Row)
  BY DEF TypeInv, LedgerType
<1>2. \A i \in Invoice : CommittedOf'[i] = CommittedOf[i]
  BY <1>1, CommittedStays
<1>3. IssuedPayments'
  BY <1>1, IssuedStays DEF AloneInv
<1>4. \A i \in Invoice : CommittedOf'[i] <= Total[i]
  BY <1>2 DEF AloneInv
<1>5. QED BY <1>2, <1>3, <1>4, AloneStep

(* A step that only reads.                                                 *)
LEMMA ReadStep ==
  ASSUME OneAtATime, TypeInv, AloneInv, NEW r \in Request, NEW l, Goto(r, l),
         UNCHANGED <<status, payments>>,
         AloneLocal(l, status, CommittedOf, GrossOf, NetOf)
  PROVE  AloneInv'
<1>1. AmountOf' = AmountOf
  BY DEF AmountOf
<1>2. \A i : /\ VerifiedPayments(i)' = VerifiedPayments(i)
             /\ VerifiedRefunds(i)' = VerifiedRefunds(i) /\ PaymentsOf(i)' = PaymentsOf(i)
  BY DEF VerifiedPayments, VerifiedRefunds, PaymentsOf
<1>3. CommittedOf' = CommittedOf /\ GrossOf' = GrossOf /\ NetOf' = NetOf
  BY <1>1, <1>2 DEF CommittedOf, Committed, GrossOf, Gross, NetOf, Net
<1>4. IssuedPayments'
  BY DEF AloneInv, IssuedPayments
<1>5. QED BY <1>3, <1>4, AloneStep DEF AloneInv

(* A payment that fits its invoice is inserted; recalculation follows.     *)
LEMMA PaymentStep ==
  ASSUME OneAtATime, TypeInv, AloneInv, NEW r \in Request, NEW l \in Locals, Goto(r, l),
         status' = status, NEW row \in Row, payments' = Append(payments, row),
         NEW i \in Invoice, row.kind = "payment", row.invoice = i, status[i] # "absent",
         CommittedOf[i] + row.amount <= Total[i],
         l.pc = "recalc", l.inv = i, l.todo = req[r].todo,
         \A j \in Invoice : l.quota[j] > 0 => j # i /\ l.quota[j] = req[r].quota[j]
  PROVE  AloneInv'
<1>1. payments \in Seq(Row)
  BY DEF TypeInv, LedgerType
<1>2. /\ CommittedOf'[i] = CommittedOf[i] + row.amount
      /\ \A j \in Invoice \ {i} : CommittedOf'[j] = CommittedOf[j]
  BY <1>1, CommittedAdds, OthersStay
<1>3. \A j \in Invoice : CommittedOf'[j] <= Total[j]
  BY <1>2 DEF AloneInv
<1>4. Grows /\ \A k \in DOMAIN payments' \ DOMAIN payments : payments'[k] = row
  BY <1>1, AnyAppendGrows
<1>5. IssuedPayments'
  BY <1>1, <1>4, IssuedStays DEF AloneInv
<1>6. AloneLocal(req[r], status, CommittedOf, GrossOf, NetOf)
  BY DEF AloneInv
<1>7. \A j \in Invoice : l.quota[j] > 0 =>
        status'[j] # "absent" /\ CommittedOf'[j] + l.quota[j] <= Total[j]
  BY <1>2, <1>6 DEF AloneLocal
<1>8. AloneLocal(l, status', CommittedOf', GrossOf', NetOf')
  BY <1>6, <1>7 DEF AloneLocal, RecordPC
<1>9. QED BY <1>3, <1>5, <1>8, AloneStep

-----------------------------------------------------------------------------
(* Every step keeps AloneInv.                                              *)

LEMMA RecalculateAlone ==
  ASSUME OneAtATime, TypeInv, TypeInv', AloneInv, NEW r \in Request, Recalculate(r)
  PROVE  AloneInv'
<1> DEFINE q == req[r]
           A(l) == AloneLocal(l, status, CommittedOf, GrossOf, NetOf)
<1>1. /\ q \in Locals /\ LocalOK(q, DOMAIN payments) /\ payments \in Seq(Row)
      /\ status \in [Invoice -> Statuses]
  BY DEF TypeInv, LocalOK, LedgerType
<1>2. A(q)
  BY DEF AloneInv
<1>3. CASE RecalcInvoice(r)
  <2> DEFINE l == [q EXCEPT !.pc = "recalcGross"]
  <2>1. l.pc = "recalcGross" /\ l.quota = q.quota /\ l.todo = q.todo /\ l.inv = q.inv
    BY <1>1 DEF Locals
  <2>2. q.pc = "recalc"
    BY <1>3 DEF RecalcInvoice, At
  <2>3. CASE status[q.inv] = "cancelled"
    <3>1. A(AfterRecalc(q))
      BY <1>1, <1>2, AfterRecalcAlone
    <3>2. Goto(r, AfterRecalc(q)) /\ UNCHANGED <<status, payments>>
      BY <1>3, <2>3 DEF RecalcInvoice
    <3>3. QED BY <3>1, <3>2, ReadStep
  <2>4. CASE status[q.inv] # "cancelled"
    <3>1. Goto(r, l) /\ UNCHANGED <<status, payments>>
      BY <1>3, <2>4 DEF RecalcInvoice
    <3> HIDE DEF l
    <3>2. A(l)
      BY <1>2, <2>1, <2>2, <2>4 DEF AloneLocal, OnInvoice, RecordPC
    <3>3. QED BY <3>1, <3>2, ReadStep
  <2>5. QED BY <2>3, <2>4
<1>4. CASE RecalcGross(r)
  <2> DEFINE l == [q EXCEPT !.pc = "recalcNet", !.gross = Gross(q.inv)]
  <2>1. /\ l.pc = "recalcNet" /\ l.quota = q.quota /\ l.todo = q.todo /\ l.inv = q.inv
        /\ l.gross = Gross(q.inv)
    BY <1>1 DEF Locals
  <2>2. q.pc = "recalcGross" /\ q.inv \in Invoice
    BY <1>4, AtStep DEF RecalcGross, OnInvoice
  <2>3. l.gross = GrossOf[l.inv]
    BY <2>1, <2>2 DEF GrossOf
  <2>4. Goto(r, l) /\ UNCHANGED <<status, payments>>
    BY <1>4 DEF RecalcGross
  <2> HIDE DEF l
  <2>5. A(l)
    BY <1>2, <2>1, <2>2, <2>3 DEF AloneLocal, OnInvoice, RecordPC
  <2>6. QED BY <2>4, <2>5, ReadStep
<1>5. CASE RecalcNet(r)
  <2> DEFINE nx == RecalculatedStatus(q.gross, Net(q.inv), Total[q.inv])
             l == [q EXCEPT !.pc = "recalcWrite", !.gross = 0, !.next = nx]
  <2>1. /\ l.pc = "recalcWrite" /\ l.quota = q.quota /\ l.todo = q.todo /\ l.inv = q.inv
        /\ l.next = nx
    <3> HIDE DEF nx
    <3>1. QED BY <1>1 DEF Locals
  <2>2. q.pc = "recalcNet" /\ q.inv \in Invoice
    BY <1>5, AtStep DEF RecalcNet, OnInvoice
  <2>3. l.next = RecalculatedStatus(GrossOf[l.inv], NetOf[l.inv], Total[l.inv])
    <3>1. q.gross = GrossOf[q.inv] /\ NetOf[q.inv] = Net(q.inv)
      BY <1>2, <2>2 DEF AloneLocal, NetOf
    <3> HIDE DEF l
    <3>2. QED BY <2>1, <3>1
  <2>4. Goto(r, l) /\ UNCHANGED <<status, payments>>
    BY <1>5 DEF RecalcNet
  <2> HIDE DEF l
  <2>5. A(l)
    BY <1>2, <2>1, <2>2, <2>3 DEF AloneLocal, OnInvoice, RecordPC
  <2>6. QED BY <2>4, <2>5, ReadStep
<1>6. CASE RecalcWrite(r)
  <2> DEFINE i == q.inv
             l == [q EXCEPT !.next = "absent"]
             m == AfterRecalc(l)
  <2>1. q.pc = "recalcWrite" /\ i \in Invoice
    BY <1>6, AtStep DEF RecalcWrite, OnInvoice
  <2>2. /\ l.quota = q.quota /\ l.todo = q.todo /\ l.inv = q.inv /\ l.pc = q.pc
        /\ l.op = q.op /\ l.left = q.left
    BY <1>1 DEF Locals
  <2>3. q.next # "absent"
    <3>1. q.next = RecalculatedStatus(GrossOf[q.inv], NetOf[q.inv], Total[q.inv])
      BY <1>2, <2>1 DEF AloneLocal
    <3>2. QED BY <3>1, RecalculatedStatusType
  <2>4. /\ status' = [status EXCEPT ![i] = q.next] /\ Goto(r, m) /\ payments' = payments
    BY <1>6 DEF RecalcWrite
  <2>5. \A j \in Invoice : status[j] # "absent" => status'[j] # "absent"
    <3> HIDE DEF i, m, l
    <3>1. QED BY <1>1, <2>1, <2>3, <2>4
  <2>6. l \in Locals
    <3>1. "absent" \in Statuses
      BY DEF Statuses
    <3>2. QED BY Zenon, <1>1, <3>1 DEF Locals
  <2> HIDE DEF l
  <2>7. ASSUME \A j \in Invoice : CommittedOf'[j] = CommittedOf[j]
        PROVE  AloneLocal(m, status', CommittedOf', GrossOf', NetOf')
    <3> DEFINE k == [l EXCEPT !.pc = "spread"]
    <3>1. k.quota = q.quota /\ k.todo = q.todo /\ k.pc = "spread"
      BY <2>2, <2>6 DEF Locals
    <3>2. CASE l.op = "collect" /\ l.left > 0 /\ \E j \in Invoice : l.quota[j] > 0
      <4>1. m = k
        BY <3>2 DEF AfterRecalc
      <4>2. q.todo \in SUBSET Invoice
        BY Zenon, <1>1 DEF Locals
      <4> HIDE DEF k, m
      <4>3. \A j \in Invoice : k.quota[j] > 0 =>
              status'[j] # "absent" /\ CommittedOf'[j] + k.quota[j] <= Total[j]
        BY <1>2, <2>5, <2>7, <3>1 DEF AloneLocal
      <4>4. \A j \in k.todo : status'[j] # "absent"
        BY <1>2, <2>5, <3>1, <4>2 DEF AloneLocal
      <4>5. QED BY <3>1, <4>1, <4>3, <4>4 DEF AloneLocal, OnInvoice, RecordPC
    <3>3. CASE ~ (l.op = "collect" /\ l.left > 0 /\ \E j \in Invoice : l.quota[j] > 0)
      BY <3>3, IdleAlone DEF AfterRecalc
    <3>4. QED BY <3>2, <3>3
  <2> HIDE DEF m
  <2>8. QED BY <2>4, <2>5, <2>7, SameGrows, QuietStep
<1>7. QED BY <1>3, <1>4, <1>5, <1>6 DEF Recalculate

LEMMA RecordableFits ==
  ASSUME NEW due \in Int, NEW pending \in Int, Recordable(due, pending) > 0
  PROVE  Recordable(due, pending) = due - pending
<1> DEFINE x == due - pending
<1>1. x \in Int /\ Recordable(due, pending) = Max({0, x})
  BY DEF Recordable
<1> HIDE DEF x
<1>2. Max({0, x}) = IF 0 >= x THEN 0 ELSE x
  BY <1>1, MaxOfTwo
<1>3. QED BY <1>1, <1>2 DEF x

LEMMA RecordPaymentAlone ==
  ASSUME OneAtATime, TypeInv, AloneInv, NEW r \in Request, RecordPayment(r)
  PROVE  AloneInv'
<1> DEFINE q == req[r]
           A(l) == AloneLocal(l, status, CommittedOf, GrossOf, NetOf)
<1>1. /\ q \in Locals /\ LocalOK(q, DOMAIN payments) /\ payments \in Seq(Row)
      /\ status \in [Invoice -> Statuses] /\ Idle \in Locals
  BY IdleOK DEF TypeInv, LocalOK, LedgerType
<1>2. A(q)
  BY DEF AloneInv
<1>3. ASSUME NEW i \in Invoice, RecordStart(r, i)
      PROVE  AloneInv'
  <2> DEFINE l == [Idle EXCEPT !.pc = "recordGross", !.op = "record", !.inv = i]
  <2>1. l.pc = "recordGross" /\ l.quota = Idle.quota /\ l.todo = Idle.todo /\ l.inv = i
    BY <1>1 DEF Locals
  <2>2. Goto(r, l) /\ UNCHANGED <<status, payments>> /\ status[i] # "absent"
    BY <1>3 DEF RecordStart, Open
  <2>3. (\A j \in Invoice : Idle.quota[j] = 0) /\ Idle.todo = {}
    BY DEF Idle
  <2> HIDE DEF l
  <2>4. A(l)
    BY <2>1, <2>2, <2>3 DEF AloneLocal, OnInvoice, RecordPC
  <2>5. QED BY <2>2, <2>4, ReadStep
<1>4. CASE RecordGross(r)
  <2> DEFINE l == [q EXCEPT !.pc = "recordPending", !.gross = Gross(q.inv)]
  <2>1. /\ l.pc = "recordPending" /\ l.quota = q.quota /\ l.todo = q.todo /\ l.inv = q.inv
        /\ l.gross = Gross(q.inv)
    BY <1>1 DEF Locals
  <2>2. q.pc = "recordGross" /\ q.inv \in Invoice
    BY <1>4, AtStep DEF RecordGross, OnInvoice
  <2>3. l.gross = GrossOf[l.inv]
    BY <2>1, <2>2 DEF GrossOf
  <2>4. Goto(r, l) /\ UNCHANGED <<status, payments>>
    BY <1>4 DEF RecordGross
  <2> HIDE DEF l
  <2>5. A(l)
    BY <1>2, <2>1, <2>2, <2>3 DEF AloneLocal, OnInvoice, RecordPC
  <2>6. QED BY <2>4, <2>5, ReadStep
<1>5. CASE RecordAccept(r)
  <2> DEFINE due == Total[q.inv] - q.gross
             recordable == Recordable(due, Pending(q.inv))
  <2>1. q.pc = "recordPending" /\ q.inv \in Invoice
    BY <1>5, AtStep DEF RecordAccept, OnInvoice
  <2>2. PICK a \in Amounts, m \in Method :
          /\ recordable > 0 /\ a <= recordable
          /\ Goto(r, [q EXCEPT !.pc = "recordInsert", !.gross = 0, !.left = a, !.method = m])
    BY <1>5 DEF RecordAccept
  <2> DEFINE l == [q EXCEPT !.pc = "recordInsert", !.gross = 0, !.left = a, !.method = m]
  <2>3. /\ l.pc = "recordInsert" /\ l.quota = q.quota /\ l.todo = q.todo /\ l.inv = q.inv
        /\ l.left = a
    BY <1>1 DEF Locals
  <2>4. Goto(r, l) /\ UNCHANGED <<status, payments>>
    BY <1>5, <2>2 DEF RecordAccept
  <2>5. CommittedOf[q.inv] + a <= Total[q.inv]
    <3>1. q.gross = GrossOf[q.inv]
      BY <1>2, <2>1 DEF AloneLocal
    <3>2. /\ CommittedOf[q.inv] = GrossOf[q.inv] + Pending(q.inv) /\ GrossOf[q.inv] \in Int
          /\ Pending(q.inv) \in Int /\ Total[q.inv] \in Nat
      BY <1>1, <2>1, TableTypes
    <3>3. due \in Int /\ due = Total[q.inv] - GrossOf[q.inv] /\ a \in Int
      BY <3>1, <3>2, RequestAssumption
    <3> HIDE DEF due
    <3>4. recordable > 0 => recordable = due - Pending(q.inv)
      BY <3>2, <3>3, RecordableFits
    <3> HIDE DEF recordable
    <3>5. QED BY <2>2, <3>2, <3>3, <3>4
  <2> HIDE DEF l
  <2>6. A(l)
    BY <1>2, <2>1, <2>3, <2>5 DEF AloneLocal, OnInvoice, RecordPC
  <2>7. QED BY <2>4, <2>6, ReadStep
<1>6. CASE RecordReject(r)
  BY <1>6, IdleAlone, ReadStep DEF RecordReject
<1>7. CASE RecordInsert(r)
  <2> DEFINE l == [q EXCEPT !.pc = "recalc", !.left = 0, !.method = "cash"]
             row == PaymentRow(q.inv, q.left, q.method)
  <2>1. q.pc = "recordInsert" /\ q.inv \in Invoice
    BY <1>7, AtStep DEF RecordInsert, OnInvoice
  <2>2. q.left \in Int /\ q.method \in {"cash", "transfer"}
    BY Zenon, <1>1 DEF Locals
  <2>3. row \in Row
    BY <2>1, <2>2, PaymentRowType
  <2>4. row.kind = "payment" /\ row.invoice = q.inv /\ row.amount = q.left
    BY DEF PaymentRow
  <2>5. l.pc = "recalc" /\ l.quota = q.quota /\ l.todo = q.todo /\ l.inv = q.inv
    BY <1>1 DEF Locals
  <2>6. l \in Locals
    <3>1. "cash" \in {"cash", "transfer"}
      OBVIOUS
    <3>2. QED BY Zenon, <1>1, <3>1, ProgramCounters, SmallNumbers DEF Locals
  <2>7. Goto(r, l) /\ status' = status /\ payments' = Append(payments, row)
    BY <1>7 DEF RecordInsert
  <2> HIDE DEF l, row
  <2>8. status[q.inv] # "absent" /\ CommittedOf[q.inv] + row.amount <= Total[q.inv]
    BY <1>2, <2>1, <2>4 DEF AloneLocal, OnInvoice
  <2>9. \A j \in Invoice : ~ (l.quota[j] > 0)
    BY <1>2, <2>1, <2>5 DEF AloneLocal, RecordPC
  <2>10. QED BY <2>1, <2>3, <2>4, <2>5, <2>6, <2>7, <2>8, <2>9, PaymentStep
<1>8. QED BY <1>3, <1>4, <1>5, <1>6, <1>7 DEF RecordPayment

LEMMA VerifyPaymentAlone ==
  ASSUME OneAtATime, TypeInv, TypeInv', RefundInv, AloneInv, NEW r \in Request,
         VerifyPayment(r)
  PROVE  AloneInv'
<1> DEFINE q == req[r]
           A(l) == AloneLocal(l, status, CommittedOf, GrossOf, NetOf)
<1>1. /\ q \in Locals /\ LocalOK(q, DOMAIN payments) /\ payments \in Seq(Row)
      /\ status \in [Invoice -> Statuses] /\ Idle \in Locals
  BY IdleOK DEF TypeInv, LocalOK, LedgerType
<1>2. A(q)
  BY DEF AloneInv
<1>3. ASSUME NEW p \in DOMAIN payments, VerifyStart(r, p)
      PROVE  AloneInv'
  <2> DEFINE l == [Idle EXCEPT !.pc = "verifyWrite", !.op = "verify", !.pay = p]
  <2>1. l.pc = "verifyWrite" /\ l.quota = Idle.quota /\ l.todo = Idle.todo
    BY <1>1 DEF Locals
  <2>2. Goto(r, l) /\ UNCHANGED <<status, payments>>
    BY <1>3 DEF VerifyStart
  <2>3. (\A j \in Invoice : Idle.quota[j] = 0) /\ Idle.todo = {}
    BY DEF Idle
  <2> HIDE DEF l
  <2>4. A(l)
    BY <2>1, <2>3 DEF AloneLocal, OnInvoice, RecordPC
  <2>5. QED BY <2>2, <2>4, ReadStep
<1>4. CASE VerifyWrite(r)
  <2> DEFINE p == q.pay
             l == [q EXCEPT !.pc = "recalc", !.inv = payments[p].invoice, !.pay = 0]
  <2>1. p \in DOMAIN payments /\ payments[p] \in Row
    BY <1>1, <1>4, AtStep DEF VerifyWrite, OnPayment
  <2>2. l.pc = "recalc" /\ l.quota = q.quota /\ l.todo = q.todo /\ l.inv = payments[p].invoice
    BY <1>1 DEF Locals
  <2>3. status[payments[p].invoice] # "absent"
    <3>1. CASE payments[p].kind = "payment"
      BY <2>1, <3>1 DEF AloneInv, IssuedPayments
    <3>2. CASE payments[p].kind = "refund"
      <4>1. Backed(payments[p], payments)
        BY <2>1, <3>2 DEF RefundInv, RefundsMatchPayments
      <4>2. QED BY <4>1 DEF Backed, AloneInv, IssuedPayments
    <3>3. QED BY <2>1, <3>1, <3>2 DEF Row
  <2>4. Goto(r, l) /\ status' = status
    BY <1>4 DEF VerifyWrite
  <2>5. Grows /\ DOMAIN payments' = DOMAIN payments
    BY <1>4, VerifyGrows
  <2> HIDE DEF l, p
  <2>6. ASSUME \A j \in Invoice : CommittedOf'[j] = CommittedOf[j]
        PROVE  AloneLocal(l, status', CommittedOf', GrossOf', NetOf')
    BY <1>2, <2>2, <2>3, <2>4, <2>6 DEF AloneLocal, OnInvoice, RecordPC
  <2>7. QED BY <2>4, <2>5, <2>6, QuietStep
<1>5. QED BY <1>3, <1>4 DEF VerifyPayment

LEMMA CollectPaymentAlone ==
  ASSUME OneAtATime, TypeInv, TypeInv', AloneInv, NEW r \in Request, CollectPayment(r)
  PROVE  AloneInv'
<1> DEFINE q == req[r]
           A(l) == AloneLocal(l, status, CommittedOf, GrossOf, NetOf)
<1>1. /\ q \in Locals /\ LocalOK(q, DOMAIN payments) /\ payments \in Seq(Row)
      /\ status \in [Invoice -> Statuses] /\ Idle \in Locals
  BY IdleOK DEF TypeInv, LocalOK, LedgerType
<1>2. A(q)
  BY DEF AloneInv
<1>3. CASE CollectStart(r)
  <2> DEFINE l == [Idle EXCEPT !.pc = "collectOpen", !.op = "collect"]
  <2>1. l.pc = "collectOpen" /\ l.quota = Idle.quota /\ l.todo = Idle.todo
    BY <1>1 DEF Locals
  <2>2. Goto(r, l) /\ payments' = payments
    BY <1>3 DEF CollectStart
  <2>3. (\A j \in Invoice : Idle.quota[j] = 0) /\ Idle.todo = {}
    BY DEF Idle
  <2>4. \A j \in Invoice : status[j] # "absent" => status'[j] # "absent"
    BY <1>1, <1>3 DEF CollectStart, IssueRecurring
  <2> HIDE DEF l
  <2>5. AloneLocal(l, status', CommittedOf', GrossOf', NetOf')
    BY <2>1, <2>3 DEF AloneLocal, OnInvoice, RecordPC
  <2>6. QED BY <2>2, <2>4, <2>5, SameGrows, QuietStep
<1>4. CASE CollectOpen(r)
  <2> DEFINE open == {i \in Invoice : status[i] \in Open}
             l == [q EXCEPT !.pc = "collectGross", !.todo = open]
  <2>1. l.pc = "collectGross" /\ l.quota = q.quota /\ l.todo = open
    <3> HIDE DEF open
    <3>1. QED BY <1>1 DEF Locals
  <2>2. Goto(r, IF open = {} THEN Idle ELSE l) /\ UNCHANGED <<status, payments>>
    BY <1>4 DEF CollectOpen
  <2>3. \A i \in open : status[i] # "absent"
    BY DEF Open
  <2> HIDE DEF l, open
  <2>4. A(l)
    BY <1>2, <2>1, <2>3 DEF AloneLocal, OnInvoice, RecordPC
  <2>5. A(IF open = {} THEN Idle ELSE l)
    BY <2>4, IdleAlone
  <2>6. QED BY <2>2, <2>5, ReadStep
<1>5. CASE CollectGross(r)
  <2> DEFINE i == Oldest(q.todo)
             l == [q EXCEPT !.pc = "collectPending", !.inv = i, !.gross = Gross(i)]
  <2>1. q.pc = "collectGross"
    BY <1>5, AtStep DEF CollectGross
  <2>2. i \in q.todo /\ i \in Invoice
    <3>1. q.todo \in SUBSET Invoice
      BY Zenon, <1>1 DEF Locals
    <3>2. q.todo # {}
      BY <1>1, <2>1 DEF LocalOK
    <3>3. QED BY <3>1, <3>2, OldestIsMember
  <2>3. Goto(r, l) /\ UNCHANGED <<status, payments>>
    BY <1>5 DEF CollectGross
  <2> HIDE DEF i
  <2>4. /\ l.pc = "collectPending" /\ l.quota = q.quota /\ l.todo = q.todo /\ l.inv = i
        /\ l.gross = Gross(i)
    BY <1>1 DEF Locals
  <2>5. l.gross = GrossOf[l.inv]
    BY <2>2, <2>4 DEF GrossOf
  <2> HIDE DEF l
  <2>6. A(l)
    BY <1>2, <2>2, <2>4, <2>5 DEF AloneLocal, OnInvoice, RecordPC
  <2>7. QED BY <2>3, <2>6, ReadStep
<1>6. CASE CollectPending(r)
  <2> DEFINE i == q.inv
             rest == q.todo \ {i}
             pc == IF rest = {} THEN "collectDecide" ELSE "collectGross"
             n == Recordable(Total[i] - q.gross, Pending(i))
             quota == [q.quota EXCEPT ![i] = n]
             l == [q EXCEPT !.pc = pc, !.todo = rest, !.inv = NoInvoice, !.gross = 0,
                            !.quota = quota]
  <2>1. q.pc = "collectPending" /\ i \in Invoice
    BY <1>6, AtStep DEF CollectPending, OnInvoice
  <2>2. q.todo \in SUBSET Invoice /\ q.quota \in [Invoice -> Nat]
    BY Zenon, <1>1 DEF Locals
  <2>3. n > 0 => CommittedOf[i] + n = Total[i]
    <3>1. q.gross = GrossOf[i]
      BY <1>2, <2>1 DEF AloneLocal
    <3>2. /\ CommittedOf[i] = GrossOf[i] + Pending(i) /\ GrossOf[i] \in Int
          /\ Pending(i) \in Int /\ Total[i] \in Nat
      BY <1>1, <2>1, TableTypes
    <3> HIDE DEF i
    <3>3. Total[i] - q.gross \in Int
      BY <3>1, <3>2
    <3>4. n > 0 => n = (Total[i] - q.gross) - Pending(i)
      BY <3>2, <3>3, RecordableFits
    <3> HIDE DEF n
    <3>5. QED BY <3>1, <3>2, <3>4
  <2>4. Goto(r, l) /\ UNCHANGED <<status, payments>>
    <3>1. Goto(r, [q EXCEPT !.pc = pc, !.todo = rest, !.inv = NoInvoice, !.gross = 0,
                            !.quota[i] = n])
      BY <1>6 DEF CollectPending
    <3>2. [q EXCEPT !.pc = pc, !.todo = rest, !.inv = NoInvoice, !.gross = 0,
                    !.quota[i] = n] = l
      OBVIOUS
    <3>3. QED BY <1>6, <3>1, <3>2 DEF CollectPending
  <2>5. pc \in {"collectDecide", "collectGross"}
    OBVIOUS
  <2>6. status[i] # "absent"
    BY <1>2, <2>1 DEF AloneLocal, OnInvoice
  <2>7. l.pc = pc /\ l.quota = quota /\ l.todo = rest
    <3> HIDE DEF pc, quota, rest
    <3> DEFINE k == [q EXCEPT !.pc = pc, !.todo = rest, !.quota = quota]
    <3>1. k.pc = pc /\ k.todo = rest /\ k.quota = quota
      BY <1>1 DEF Locals
    <3>2. l.pc = k.pc /\ l.todo = k.todo /\ l.quota = k.quota
      BY <1>1 DEF Locals
    <3>3. QED BY <3>1, <3>2
  <2>8. \A j \in Invoice : l.quota[j] = IF j = i THEN n ELSE q.quota[j]
    BY <2>1, <2>2, <2>7
  <2>9. \A j \in l.todo : j \in q.todo
    BY <2>7
  <2> HIDE DEF l, pc, quota, rest, n, i
  <2>10. \A j \in Invoice : l.quota[j] > 0 =>
           status[j] # "absent" /\ CommittedOf[j] + l.quota[j] <= Total[j]
    <3>1. TAKE j \in Invoice
    <3>2. CASE j = i
      <4>1. Total[i] \in Nat
        BY <2>1, InvoiceAssumption
      <4>2. QED BY <2>3, <2>6, <2>8, <3>2, <4>1
    <3>3. CASE j # i
      BY <1>2, <2>8, <3>3 DEF AloneLocal
    <3>4. QED BY <3>2, <3>3
  <2>11. A(l)
    BY <1>2, <2>5, <2>7, <2>9, <2>10 DEF AloneLocal, OnInvoice, RecordPC
  <2>12. QED BY <2>4, <2>11, ReadStep
<1>7. CASE CollectAccept(r)
  <2>1. PICK a \in Amounts, m \in Method :
          Goto(r, [q EXCEPT !.pc = "spread", !.left = a, !.method = m])
    BY <1>7 DEF CollectAccept
  <2> DEFINE l == [q EXCEPT !.pc = "spread", !.left = a, !.method = m]
  <2>2. l.pc = "spread" /\ l.quota = q.quota /\ l.todo = q.todo
    BY <1>1 DEF Locals
  <2>3. Goto(r, l) /\ UNCHANGED <<status, payments>>
    BY <1>7, <2>1 DEF CollectAccept
  <2> HIDE DEF l
  <2>4. A(l)
    BY <1>2, <2>2 DEF AloneLocal, OnInvoice, RecordPC
  <2>5. QED BY <2>3, <2>4, ReadStep
<1>8. CASE CollectReject(r)
  BY <1>8, IdleAlone, ReadStep DEF CollectReject
<1>9. CASE CollectInsert(r)
  <2> DEFINE S == {j \in Invoice : q.quota[j] > 0}
             i == Oldest(S)
             applied == Min({q.left, q.quota[i]})
             row == PaymentRow(i, applied, q.method)
             quota == [q.quota EXCEPT ![i] = 0]
             rest == q.left - applied
             l == [q EXCEPT !.pc = "recalc", !.inv = i, !.quota = quota, !.left = rest]
  <2>1. q.pc = "spread"
    BY <1>9, AtStep DEF CollectInsert
  <2>2. i \in Invoice /\ q.quota[i] > 0
    <3>1. S # {} /\ S \in SUBSET Invoice
      BY <1>1, <2>1 DEF LocalOK
    <3>2. i \in S
      BY <3>1, OldestIsMember
    <3>3. QED BY <3>2
  <2>3. /\ q.left \in Int /\ q.method \in {"cash", "transfer"}
        /\ q.quota \in [Invoice -> Nat]
    BY Zenon, <1>1 DEF Locals
  <2>4. Goto(r, l) /\ status' = status /\ payments' = Append(payments, row)
    <3>1. Goto(r, [q EXCEPT !.pc = "recalc", !.inv = i, !.quota[i] = 0,
                            !.left = q.left - applied])
      BY <1>9 DEF CollectInsert
    <3>2. [q EXCEPT !.pc = "recalc", !.inv = i, !.quota[i] = 0, !.left = q.left - applied] = l
      OBVIOUS
    <3>3. QED BY <1>9, <3>1, <3>2 DEF CollectInsert
  <2> HIDE DEF i
  <2>5. applied \in Int /\ applied <= q.quota[i]
    <3> DEFINE u == q.left   v == q.quota[i]
    <3>1. u \in Int /\ v \in Int
      BY <2>2, <2>3
    <3> HIDE DEF u, v
    <3>2. Min({u, v}) = IF u <= v THEN u ELSE v
      BY <3>1, MinOfTwo
    <3>3. applied = Min({u, v}) /\ v = q.quota[i]
      BY DEF u, v
    <3> HIDE DEF applied
    <3>4. QED BY <3>1, <3>2, <3>3
  <2> HIDE DEF applied
  <2>6. row \in Row
    BY <2>2, <2>3, <2>5, PaymentRowType
  <2>7. row.kind = "payment" /\ row.invoice = i /\ row.amount = applied
    BY DEF PaymentRow
  <2>8. quota \in [Invoice -> Nat] /\ rest \in Int
    BY <2>2, <2>3, <2>5
  <2>9. \A j \in Invoice : quota[j] > 0 => j # i /\ quota[j] = q.quota[j]
    BY <2>2, <2>3
  <2> HIDE DEF quota, rest, row
  <2>10. l \in Locals
    BY Zenon, <1>1, <2>2, <2>8, ProgramCounters DEF Locals
  <2>11. l.pc = "recalc" /\ l.inv = i /\ l.todo = q.todo /\ l.quota = quota
    BY <1>1 DEF Locals
  <2> HIDE DEF l
  <2>12. status[i] # "absent" /\ CommittedOf[i] + row.amount <= Total[i]
    <3>1. status[i] # "absent" /\ CommittedOf[i] + q.quota[i] <= Total[i]
      BY <1>2, <2>2 DEF AloneLocal
    <3>2. CommittedOf[i] \in Int /\ q.quota[i] \in Int /\ Total[i] \in Nat
      BY <1>1, <2>2, <2>3, TableTypes
    <3>3. QED BY <2>5, <2>7, <3>1, <3>2
  <2>13. QED BY <2>2, <2>4, <2>6, <2>7, <2>9, <2>10, <2>11, <2>12, PaymentStep
<1>10. QED BY <1>3, <1>4, <1>5, <1>6, <1>7, <1>8, <1>9 DEF CollectPayment

LEMMA RefundPaymentAlone ==
  ASSUME OneAtATime, TypeInv, TypeInv', RefundInv, AloneInv, NEW r \in Request,
         RefundPayment(r)
  PROVE  AloneInv'
<1> DEFINE q == req[r]
           A(l) == AloneLocal(l, status, CommittedOf, GrossOf, NetOf)
<1>1. /\ q \in Locals /\ LocalOK(q, DOMAIN payments) /\ payments \in Seq(Row)
      /\ status \in [Invoice -> Statuses] /\ Idle \in Locals
  BY IdleOK DEF TypeInv, LocalOK, LedgerType
<1>2. A(q)
  BY DEF AloneInv
<1>3. ASSUME NEW p \in DOMAIN payments, RefundStart(r, p)
      PROVE  AloneInv'
  <2> DEFINE l == [Idle EXCEPT !.pc = "refundRead", !.op = "refund", !.pay = p]
  <2>1. l.pc = "refundRead" /\ l.quota = Idle.quota /\ l.todo = Idle.todo
    BY <1>1 DEF Locals
  <2>2. Goto(r, l) /\ UNCHANGED <<status, payments>>
    BY <1>3 DEF RefundStart
  <2>3. (\A j \in Invoice : Idle.quota[j] = 0) /\ Idle.todo = {}
    BY DEF Idle
  <2> HIDE DEF l
  <2>4. A(l)
    BY <2>1, <2>3 DEF AloneLocal, OnInvoice, RecordPC
  <2>5. QED BY <2>2, <2>4, ReadStep
<1>4. CASE RefundAccept(r)
  <2>1. PICK a : Goto(r, [q EXCEPT !.pc = "refundInsert", !.left = a])
    BY <1>4 DEF RefundAccept
  <2> DEFINE l == [q EXCEPT !.pc = "refundInsert", !.left = a]
  <2>2. l.pc = "refundInsert" /\ l.quota = q.quota /\ l.todo = q.todo
    BY <1>1 DEF Locals
  <2>3. Goto(r, l) /\ UNCHANGED <<status, payments>>
    BY <1>4, <2>1 DEF RefundAccept
  <2> HIDE DEF l
  <2>4. A(l)
    BY <1>2, <2>2 DEF AloneLocal, OnInvoice, RecordPC
  <2>5. QED BY <2>3, <2>4, ReadStep
<1>5. CASE RefundReject(r)
  BY <1>5, IdleAlone, ReadStep DEF RefundReject
<1>6. CASE RefundInsert(r)
  <2> DEFINE p == q.pay
             row == RefundRow(p, q.left, payments[p].method)
             l == [q EXCEPT !.pc = "recalc", !.inv = payments[p].invoice, !.pay = 0,
                            !.left = 0]
  <2>1. q.pc = "refundInsert" /\ p \in DOMAIN payments
    BY <1>6, AtStep DEF RefundInsert, OnPayment
  <2>2. payments[p].kind = "payment"
    BY <2>1 DEF RefundInv, RefundLocal
  <2>3. status[payments[p].invoice] # "absent"
    BY <2>1, <2>2 DEF AloneInv, IssuedPayments
  <2>4. Goto(r, l) /\ status' = status /\ payments' = Append(payments, row)
    BY <1>6 DEF RefundInsert
  <2>5. l.pc = "recalc" /\ l.inv = payments[p].invoice /\ l.quota = q.quota /\ l.todo = q.todo
    BY <1>1 DEF Locals
  <2>6. row.kind = "refund"
    BY DEF RefundRow
  <2> HIDE DEF l, row, p
  <2>7. Grows /\ \A k \in DOMAIN payments' \ DOMAIN payments : payments'[k] = row
    BY <1>1, <2>4, AnyAppendGrows
  <2>8. ASSUME \A j \in Invoice : CommittedOf'[j] = CommittedOf[j]
        PROVE  AloneLocal(l, status', CommittedOf', GrossOf', NetOf')
    BY <1>2, <2>3, <2>4, <2>5, <2>8 DEF AloneLocal, OnInvoice, RecordPC
  <2>9. QED BY <2>4, <2>6, <2>7, <2>8, QuietStep
<1>7. QED BY <1>3, <1>4, <1>5, <1>6 DEF RefundPayment

LEMMA CancelEnrollmentAlone ==
  ASSUME OneAtATime, TypeInv, TypeInv', RefundInv, AloneInv, NEW r \in Request,
         CancelEnrollment(r)
  PROVE  AloneInv'
<1> DEFINE q == req[r]
           A(l) == AloneLocal(l, status, CommittedOf, GrossOf, NetOf)
<1>1. /\ q \in Locals /\ LocalOK(q, DOMAIN payments) /\ payments \in Seq(Row)
      /\ status \in [Invoice -> Statuses] /\ Idle \in Locals
  BY IdleOK DEF TypeInv, LocalOK, LedgerType
<1>2. A(q)
  BY DEF AloneInv
<1>3. CASE CancelRead(r)
  <2> DEFINE todo == {i \in EnrollmentInvoice : status[i] # "absent"}
             l == [Idle EXCEPT !.pc = "cancelPlan", !.op = "cancel", !.todo = todo]
  <2>1. l.pc = "cancelPlan" /\ l.quota = Idle.quota /\ l.todo = todo
    <3> HIDE DEF todo
    <3>1. QED BY <1>1 DEF Locals
  <2>2. Goto(r, l) /\ UNCHANGED <<status, payments>>
    BY <1>3 DEF CancelRead
  <2>3. \A j \in Invoice : Idle.quota[j] = 0
    BY DEF Idle
  <2>4. \A i \in todo : status[i] # "absent"
    OBVIOUS
  <2> HIDE DEF l, todo
  <2>5. A(l)
    BY <2>1, <2>3, <2>4 DEF AloneLocal, OnInvoice, RecordPC
  <2>6. QED BY <2>2, <2>5, ReadStep
<1>4. CASE CancelPlan(r)
  <2>1. PICK plan : Goto(r, [q EXCEPT !.pc = "cancelCommit", !.plan = plan])
    BY <1>4 DEF CancelPlan
  <2> DEFINE l == [q EXCEPT !.pc = "cancelCommit", !.plan = plan]
  <2>2. l.pc = "cancelCommit" /\ l.quota = q.quota /\ l.todo = q.todo
    BY <1>1 DEF Locals
  <2>3. Goto(r, l) /\ UNCHANGED <<status, payments>>
    BY <1>4, <2>1 DEF CancelPlan
  <2> HIDE DEF l
  <2>4. A(l)
    BY <1>2, <2>2 DEF AloneLocal, OnInvoice, RecordPC
  <2>5. QED BY <2>3, <2>4, ReadStep
<1>5. CASE CancelReject(r)
  BY <1>5, IdleAlone, ReadStep DEF CancelReject
<1>6. CASE CancelCommit(r)
  <2>1. q.pc = "cancelCommit"
    BY <1>6, AtStep DEF CancelCommit
  <2>2. q.plan \in Seq(Row)
    BY Zenon, <1>1 DEF Locals
  <2>3. \A k \in DOMAIN q.plan : q.plan[k].kind = "refund"
    BY <2>1 DEF RefundInv, RefundLocal
  <2>4. /\ Grows
        /\ \A k \in DOMAIN payments' \ DOMAIN payments :
             \E j \in DOMAIN q.plan : payments'[k] = q.plan[j]
    BY <1>1, <1>6, <2>2, ConcatGrows DEF CancelCommit
  <2>5. \A k \in DOMAIN payments' \ DOMAIN payments : payments'[k].kind # "payment"
    BY <2>3, <2>4
  <2>6. Goto(r, Idle) /\ \A i \in Invoice : status[i] # "absent" => status'[i] # "absent"
    BY <1>6 DEF CancelCommit
  <2>7. AloneLocal(Idle, status', CommittedOf', GrossOf', NetOf')
    BY IdleAlone
  <2>8. QED BY <2>4, <2>5, <2>6, <2>7, QuietStep
<1>7. QED BY <1>3, <1>4, <1>5, <1>6 DEF CancelEnrollment

(* Inserting an invoice, which no handler knows of yet.                    *)
LEMMA IssueAlone ==
  ASSUME OneAtATime, TypeInv, TypeInv', AloneInv, NEW i \in Invoice, Issue(i)
  PROVE  AloneInv'
<1>1. /\ status \in [Invoice -> Statuses] /\ payments \in Seq(Row) /\ payments' \in Seq(Row)
      /\ req' = req
  BY DEF TypeInv, LedgerType, Issue, CreateInvoice, Confirm, AddService, GenerateMonthly,
         IssueAtDesk
<1>2. status[i] = "absent" /\ \E s : s # "absent" /\ status' = [status EXCEPT ![i] = s]
  <2>1. CASE IssueAtDesk(i)
    <3>1. status[i] = "absent"
      BY <2>1 DEF IssueAtDesk
    <3>2. \/ status' = [status EXCEPT ![i] = "unpaid"]
          \/ \E a, m : status' = [status EXCEPT ![i] =
                         IF m # "cash" THEN "unpaid"
                         ELSE IF a >= Total[i] THEN "paid" ELSE "partial"]
      BY <2>1 DEF IssueAtDesk
    <3>3. QED BY <3>1, <3>2
  <2>2. CASE ~ IssueAtDesk(i)
    BY <2>2 DEF Issue, CreateInvoice, Confirm, AddService, GenerateMonthly, IssueRecurring
  <2>3. QED BY <2>1, <2>2
<1>3. /\ status'[i] # "absent"
      /\ \A j \in Invoice \ {i} : status'[j] = status[j]
  BY <1>1, <1>2
<1>4. \/ UNCHANGED payments
      \/ \E a \in Amounts \cup {Total[i]}, m \in Method :
           a <= Total[i] /\ payments' = Append(payments, PaymentRow(i, a, m))
  BY DEF Issue, CreateInvoice, Confirm, AddService, GenerateMonthly, IssueAtDesk
<1>5. SUFFICES ASSUME IssuedPayments',
                      \A j \in Invoice : CommittedOf'[j] <= Total[j],
                      \A j \in Invoice \ {i} :
                        /\ CommittedOf'[j] = CommittedOf[j] /\ GrossOf'[j] = GrossOf[j]
                        /\ NetOf'[j] = NetOf[j]
               PROVE  AloneInv'
  <2>1. CASE UNCHANGED payments
    <3>1. AmountOf' = AmountOf
      BY <2>1 DEF AmountOf
    <3>2. \A j : /\ VerifiedPayments(j)' = VerifiedPayments(j)
                 /\ VerifiedRefunds(j)' = VerifiedRefunds(j) /\ PaymentsOf(j)' = PaymentsOf(j)
      BY <2>1 DEF VerifiedPayments, VerifiedRefunds, PaymentsOf
    <3>3. CommittedOf' = CommittedOf /\ GrossOf' = GrossOf /\ NetOf' = NetOf
      BY <3>1, <3>2 DEF CommittedOf, Committed, GrossOf, Gross, NetOf, Net
    <3>4. IssuedPayments'
      BY <1>1, <1>2, <1>3, <2>1, IssuedStays, SameGrows DEF AloneInv
    <3>5. QED BY <1>5, <3>3, <3>4 DEF AloneInv
  <2>2. ASSUME NEW a \in Amounts \cup {Total[i]}, NEW m \in Method, a <= Total[i],
               payments' = Append(payments, PaymentRow(i, a, m))
        PROVE  AloneInv'
    <3> DEFINE row == PaymentRow(i, a, m)
    <3>1. a \in Int /\ m \in {"cash", "transfer"}
      BY InvoiceAssumption, RequestAssumption
    <3>2. row \in Row
      BY <3>1, PaymentRowType
    <3>3. row.kind = "payment" /\ row.invoice = i /\ row.amount = a
      BY DEF PaymentRow
    <3>4. payments' = Append(payments, row)
      BY <2>2
    <3> HIDE DEF row
    <3>5. \A j \in Invoice \ {i} : /\ CommittedOf'[j] = CommittedOf[j] /\ GrossOf'[j] = GrossOf[j]
                                   /\ NetOf'[j] = NetOf[j]
      BY <1>1, <3>2, <3>3, <3>4, OthersStay
    <3>6. CommittedOf'[i] = CommittedOf[i] + a
      BY <1>1, <3>2, <3>3, <3>4, CommittedAdds
    <3>7. CommittedOf[i] = 0
      <4>1. PaymentsOf(i) = {}
        BY <1>2 DEF AloneInv, IssuedPayments, PaymentsOf
      <4>2. CommittedOf[i] = SumFunctionOnSet(AmountOf, {})
        BY <4>1 DEF CommittedOf, Committed
      <4>3. QED BY <4>2, SumUnfold, FS_EmptySet
    <3>8. \A j \in Invoice : CommittedOf'[j] <= Total[j]
      BY <2>2, <3>1, <3>5, <3>6, <3>7 DEF AloneInv
    <3>9. IssuedPayments'
      <4>1. Grows /\ \A k \in DOMAIN payments' \ DOMAIN payments : payments'[k] = row
        BY <1>1, <3>4, AnyAppendGrows
      <4>2. QED BY <1>1, <1>2, <1>3, <3>3, <4>1, IssuedStays DEF AloneInv
    <3>10. QED BY <1>5, <3>5, <3>8, <3>9
  <2>3. QED BY <1>4, <2>1, <2>2
<1>6. \A r \in Request : AloneLocal(req'[r], status', CommittedOf', GrossOf', NetOf')
  <2>1. TAKE r \in Request
  <2>2. /\ LocalOK(req[r], DOMAIN payments)
        /\ AloneLocal(req[r], status, CommittedOf, GrossOf, NetOf)
    BY DEF TypeInv, AloneInv
  <2>3. \A j \in Invoice : status[j] # "absent" =>
          /\ status'[j] = status[j] /\ CommittedOf'[j] = CommittedOf[j]
          /\ GrossOf'[j] = GrossOf[j] /\ NetOf'[j] = NetOf[j]
    BY <1>2, <1>3, <1>5
  <2>4. QED BY <1>1, <2>2, <2>3, LocalStays
<1>7. QED BY <1>5, <1>6 DEF AloneInv

LEMMA NextKeepsAlone ==
  ASSUME OneAtATime, TypeInv, RefundInv, AloneInv, [Next]_vars
  PROVE  AloneInv'
<1>1. TypeInv'
  BY NextKeepsType
<1>2. CASE UNCHANGED vars
  BY <1>2 DEF vars, AloneInv, IssuedPayments, CommittedOf, Committed, PaymentsOf, GrossOf,
              Gross, NetOf, Net, AmountOf, VerifiedPayments, VerifiedRefunds
<1>3. ASSUME NEW i \in Invoice, Issue(i)
      PROVE  AloneInv'
  BY <1>1, <1>3, IssueAlone
<1>4. ASSUME NEW r \in Request, Serve(r)
      PROVE  AloneInv'
  <2>1. CASE Refuse(r)
    BY <1>2, <2>1 DEF Refuse
  <2>2. QED
    BY <1>1, <1>4, <2>1, RecordPaymentAlone, CollectPaymentAlone, VerifyPaymentAlone,
       RefundPaymentAlone, CancelEnrollmentAlone, RecalculateAlone DEF Serve
<1>5. ASSUME NEW r \in Request, Fail(r)
      PROVE  AloneInv'
  <2>1. Goto(r, Idle) /\ UNCHANGED <<status, payments>>
    BY <1>5 DEF Fail
  <2>2. QED BY <2>1, IdleAlone, ReadStep
<1>6. QED BY <1>2, <1>3, <1>4, <1>5, WorkCases DEF Next

LEMMA AloneInvariant == OneAtATime => (Spec => []AloneInv)
<1>1. Init => AloneInv
  <2> SUFFICES ASSUME Init PROVE AloneInv
    OBVIOUS
  <2>1. payments = <<>> /\ \A r \in Request : req[r] = Idle
    BY DEF Init
  <2>2. IssuedPayments
    BY <2>1 DEF IssuedPayments
  <2>3. \A r \in Request : AloneLocal(req[r], status, CommittedOf, GrossOf, NetOf)
    BY <2>1, IdleAlone
  <2>4. \A i \in Invoice : CommittedOf[i] <= Total[i]
    <3>1. TAKE i \in Invoice
    <3>2. PaymentsOf(i) = {}
      BY <2>1 DEF PaymentsOf
    <3>3. CommittedOf[i] = SumFunctionOnSet(AmountOf, {})
      BY <3>2 DEF CommittedOf, Committed
    <3>4. CommittedOf[i] = 0
      BY <3>3, SumUnfold, FS_EmptySet
    <3>5. QED BY <3>4, InvoiceAssumption
  <2>5. QED BY <2>2, <2>3, <2>4 DEF AloneInv
<1>2. SUFFICES ASSUME OneAtATime PROVE Spec => []AloneInv
  OBVIOUS
<1>3. TypeInv /\ RefundInv /\ AloneInv /\ [Next]_vars => AloneInv'
  BY <1>2, NextKeepsAlone
<1>4. QED BY TypeInvariant, RefundInvariant, <1>1, <1>3, PTL DEF Spec

(* With one request at a time the collected and the pending amounts fit    *)
(* the invoice, whatever its total, in any number of steps, and wherever a *)
(* handler was abandoned.                                                  *)
THEOREM SeriallyNoOvercollection == OneAtATime => (Spec => []NoOvercollection)
<1>1. TypeInv /\ AloneInv => NoOvercollection
  <2> SUFFICES ASSUME TypeInv, AloneInv, NEW i \in Invoice
               PROVE  Gross(i) + Pending(i) <= Total[i]
    BY DEF NoOvercollection
  <2>1. payments \in Seq(Row)
    BY DEF TypeInv, LedgerType
  <2>2. CommittedOf[i] = Committed(i) /\ Committed(i) = Gross(i) + Pending(i)
    BY <2>1, TableTypes, CommittedIsSum
  <2>3. QED BY <2>2 DEF AloneInv
<1>2. QED BY TypeInvariant, AloneInvariant, <1>1, PTL

-----------------------------------------------------------------------------
(* Which steps change the status of an invoice that is there.              *)

RecalculatedTo(i, s) == \E r \in Request : RecalcWrite(r) /\ i = req[r].inv /\ s = req[r].next

LEMMA StatusChanges ==
  ASSUME TypeInv, [Next]_vars, NEW i \in Invoice
  PROVE  \/ status'[i] = status[i] \/ status[i] = "absent" \/ status'[i] = "cancelled"
         \/ RecalculatedTo(i, status'[i])
<1>1. status \in [Invoice -> Statuses]
  BY DEF TypeInv, LedgerType
<1>2. CASE UNCHANGED status
  BY <1>2
<1>3. ASSUME NEW j \in Invoice, Issue(j)
      PROVE  status'[i] = status[i] \/ status[i] = "absent"
  <2>1. CASE IssueAtDesk(j)
    <3>1. status[j] = "absent" /\ \E s : status' = [status EXCEPT ![j] = s]
      BY <2>1, Zenon DEF IssueAtDesk
    <3>2. QED BY <1>1, <3>1
  <2>2. CASE ~ IssueAtDesk(j)
    <3>1. status[j] = "absent" /\ status' = [status EXCEPT ![j] = "unpaid"]
      BY <1>3, <2>2 DEF Issue, CreateInvoice, Confirm, AddService, GenerateMonthly, IssueRecurring
    <3>2. QED BY <1>1, <3>1
  <2>3. QED BY <2>1, <2>2
<1>4. ASSUME NEW r \in Request, Serve(r)
      PROVE  \/ status'[i] = status[i] \/ status[i] = "absent" \/ status'[i] = "cancelled"
             \/ RecalculatedTo(i, status'[i])
  <2>1. CASE RecalcWrite(r)
    <3>1. status' = [status EXCEPT ![req[r].inv] = req[r].next]
      BY <2>1 DEF RecalcWrite
    <3>2. QED BY <1>1, <2>1, <3>1 DEF RecalculatedTo
  <2>2. CASE CollectStart(r)
    BY <1>1, <2>2 DEF CollectStart, IssueRecurring
  <2>3. CASE CancelCommit(r)
    BY <2>3 DEF CancelCommit
  <2>4. QED
    BY <1>2, <1>4, <2>1, <2>2, <2>3
       DEF Serve, Recalculate, RecalcInvoice, RecalcGross, RecalcNet,
           RecordPayment, RecordStart, RecordGross, RecordAccept, RecordReject, RecordInsert,
           CollectPayment, CollectOpen, CollectGross, CollectPending,
           CollectAccept, CollectReject, CollectInsert, VerifyPayment, VerifyStart, VerifyWrite,
           RefundPayment, RefundStart, RefundAccept, RefundReject, RefundInsert,
           CancelEnrollment, CancelRead, CancelPlan, CancelReject, Refuse, vars
<1>5. ASSUME NEW r \in Request, Fail(r)
      PROVE  status'[i] = status[i]
  BY <1>5 DEF Fail
<1>6. QED BY <1>2, <1>3, <1>4, <1>5, WorkCases DEF Next, vars

(* With one request at a time a cancelled invoice stays cancelled: the     *)
(* handler that recalculates it reads its status in vain.                  *)
THEOREM SeriallyCancelledIsFinal == OneAtATime => (Spec => CancelledIsFinal)
<1>1. SUFFICES ASSUME OneAtATime PROVE Spec => CancelledIsFinal
  OBVIOUS
<1>2. TypeInv /\ AloneInv /\ [Next]_vars =>
        [\A i \in Invoice : status[i] = "cancelled" => status'[i] = "cancelled"]_vars
  <2> SUFFICES ASSUME TypeInv, AloneInv, [Next]_vars, NEW i \in Invoice,
                      status[i] = "cancelled", status'[i] # "cancelled"
               PROVE  FALSE
    OBVIOUS
  <2>1. RecalculatedTo(i, status'[i])
    BY StatusChanges
  <2>2. PICK r \in Request : RecalcWrite(r) /\ i = req[r].inv
    BY <2>1 DEF RecalculatedTo
  <2>3. req[r].pc = "recalcWrite"
    BY <2>2 DEF RecalcWrite, At
  <2>4. AloneLocal(req[r], status, CommittedOf, GrossOf, NetOf)
    BY DEF AloneInv
  <2>5. QED BY <2>2, <2>3, <2>4 DEF AloneLocal
<1>3. QED BY <1>1, <1>2, TypeInvariant, AloneInvariant, PTL DEF Spec, CancelledIsFinal

(* With one request at a time, and positive amounts, a paid invoice stays  *)
(* closed: what recalculation reads then is what was collected, which      *)
(* covers the invoice.                                                     *)
THEOREM SeriallyPaidStaysClosed ==
  OneAtATime /\ PositiveAmounts => (Spec => PaidNeverReopens)
<1>1. SUFFICES ASSUME OneAtATime, PositiveAmounts PROVE Spec => PaidNeverReopens
  OBVIOUS
<1>2. TypeInv /\ EarnedInv /\ AloneInv /\ [Next]_vars =>
        [\A i \in Invoice : status[i] = "paid" => status'[i] \in Closed]_vars
  <2> SUFFICES ASSUME TypeInv, EarnedInv, AloneInv, [Next]_vars, NEW i \in Invoice,
                      status[i] = "paid", status'[i] \notin Closed
               PROVE  FALSE
    OBVIOUS
  <2>1. RecalculatedTo(i, status'[i])
    BY StatusChanges DEF Closed
  <2>2. PICK r \in Request : RecalcWrite(r) /\ i = req[r].inv /\ status'[i] = req[r].next
    BY <2>1 DEF RecalculatedTo
  <2>3. req[r].pc = "recalcWrite"
    BY <2>2 DEF RecalcWrite, At
  <2>4. status'[i] = RecalculatedStatus(GrossOf[i], NetOf[i], Total[i])
    BY <2>2, <2>3 DEF AloneInv, AloneLocal
  <2>5. GrossOf[i] >= Total[i] /\ GrossOf[i] > 0
    BY DEF EarnedInv, EarnedBy
  <2>6. GrossOf[i] \in Int
    BY GrossType DEF TypeInv, LedgerType
  <2>7. QED BY <2>4, <2>5, <2>6 DEF RecalculatedStatus, Closed
<1>3. Spec => []EarnedInv
  BY <1>1, EarnedInvariant
<1>4. QED BY <1>1, <1>2, <1>3, TypeInvariant, AloneInvariant, PTL DEF Spec, PaidNeverReopens

-----------------------------------------------------------------------------
(* Handlers are about invoices that were issued, however they interleave:  *)
(* no statement takes an invoice back.                                     *)

IssuedLocal(q, s) ==
  /\ q.pc \in OnInvoice => s[q.inv] # "absent"
  /\ \A i \in q.todo : s[i] # "absent"
  /\ \A i \in Invoice : q.quota[i] > 0 => s[i] # "absent"
  /\ q.pc = "recalcWrite" => q.next \in {"unpaid", "partial", "paid", "refunded"}
  /\ q.pc = "cancelCommit" => \A k \in DOMAIN q.plan : q.plan[k].invoice \in q.todo

IssuedInv ==
  /\ IssuedPayments
  /\ \A r \in Request : IssuedLocal(req[r], status)

LEMMA IdleIssued ==
  ASSUME NEW s
  PROVE  IssuedLocal(Idle, s)
  BY DEF IssuedLocal, Idle, OnInvoice

LEMMA StaysIssued ==
  ASSUME TypeInv, IssuedInv, [Next]_vars
  PROVE  \A i \in Invoice : status[i] # "absent" => status'[i] # "absent"
<1> SUFFICES ASSUME NEW i \in Invoice, status[i] # "absent", status'[i] = "absent"
             PROVE  FALSE
  OBVIOUS
<1>1. RecalculatedTo(i, status'[i])
  BY StatusChanges
<1>2. PICK r \in Request : RecalcWrite(r) /\ status'[i] = req[r].next
  BY <1>1 DEF RecalculatedTo
<1>3. req[r].pc = "recalcWrite"
  BY <1>2 DEF RecalcWrite, At
<1>4. QED BY <1>2, <1>3 DEF IssuedInv, IssuedLocal

LEMMA IssuedLocalStays ==
  ASSUME NEW D, NEW q, LocalOK(q, D), NEW s, IssuedLocal(q, s), NEW t,
         \A i \in Invoice : s[i] # "absent" => t[i] # "absent"
  PROVE  IssuedLocal(q, t)
<1>1. q.todo \in SUBSET Invoice
  <2>1. q \in Locals
    BY DEF LocalOK
  <2>2. QED BY Zenon, <2>1 DEF Locals
<1>2. QED BY <1>1 DEF LocalOK, IssuedLocal

(* What a handler still has to do it had to do before, or is issued.       *)
LEMMA LocalCarries ==
  ASSUME NEW q \in Locals, NEW s, IssuedLocal(q, s), NEW t, NEW l,
         \A i \in Invoice : s[i] # "absent" => t[i] # "absent",
         l.pc \in OnInvoice => t[l.inv] # "absent",
         \A i \in l.todo : i \in q.todo \/ t[i] # "absent",
         \A i \in Invoice : l.quota[i] > 0 => q.quota[i] > 0 \/ t[i] # "absent",
         l.pc \notin {"recalcWrite", "cancelCommit"}
  PROVE  IssuedLocal(l, t)
<1>1. q.todo \in SUBSET Invoice
  BY Zenon DEF Locals
<1>2. QED BY <1>1 DEF IssuedLocal

(* What a step of handler r has to establish.                              *)
LEMMA StepKeepsIssued ==
  ASSUME TypeInv, IssuedInv, Grows, NEW r \in Request, NEW l, Goto(r, l),
         \A i \in Invoice : status[i] # "absent" => status'[i] # "absent",
         \A k \in DOMAIN payments' \ DOMAIN payments :
           payments'[k].kind = "payment" => status'[payments'[k].invoice] # "absent",
         IssuedLocal(l, status')
  PROVE  IssuedInv'
<1>1. IssuedPayments'
  BY IssuedStays DEF TypeInv, LedgerType, IssuedInv
<1>2. \A s \in Request : IssuedLocal(req'[s], status')
  <2>1. TAKE s \in Request
  <2>2. CASE s = r
    BY <2>2, GotoReaches
  <2>3. CASE s # r
    <3>1. req'[s] = req[s]
      BY <2>3, GotoReaches
    <3>2. LocalOK(req[s], DOMAIN payments) /\ IssuedLocal(req[s], status)
      BY DEF TypeInv, IssuedInv
    <3>3. QED BY <3>1, <3>2, IssuedLocalStays
  <2>4. QED BY <2>2, <2>3
<1>3. QED BY <1>1, <1>2 DEF IssuedInv

LEMMA AfterRecalcIssued ==
  ASSUME NEW q \in Locals, NEW s, IssuedLocal(q, s), NEW t, NEW m \in Locals,
         m.op = q.op, m.left = q.left, m.quota = q.quota, m.todo = q.todo,
         \A i \in Invoice : s[i] # "absent" => t[i] # "absent"
  PROVE  IssuedLocal(AfterRecalc(m), t)
<1> DEFINE l == [m EXCEPT !.pc = "spread"]
<1>1. l.pc = "spread" /\ l.quota = q.quota /\ l.todo = q.todo
  BY DEF Locals
<1>2. CASE AfterRecalc(m) = l
  <2> HIDE DEF l
  <2>1. IssuedLocal(l, t)
    BY <1>1, LocalCarries DEF OnInvoice
  <2>2. QED BY <1>2, <2>1
<1>3. CASE AfterRecalc(m) = Idle
  BY <1>3, IdleIssued
<1>4. QED BY <1>2, <1>3 DEF AfterRecalc

LEMMA RecalculateIssued ==
  ASSUME TypeInv, IssuedInv, Grows, NEW r \in Request, Recalculate(r),
         \A i \in Invoice : status[i] # "absent" => status'[i] # "absent"
  PROVE  IssuedInv'
<1> DEFINE q == req[r]
<1>1. /\ q \in Locals /\ IssuedLocal(q, status) /\ payments' = payments
      /\ q.pc \in OnInvoice /\ q.inv \in Invoice
  <2>1. q.pc \in OnInvoice /\ payments' = payments
    BY DEF Recalculate, RecalcInvoice, RecalcGross, RecalcNet, RecalcWrite, At, OnInvoice
  <2>2. QED BY <2>1 DEF TypeInv, LocalOK, IssuedInv
<1>2. status'[q.inv] # "absent"
  BY <1>1 DEF IssuedLocal
<1>3. SUFFICES ASSUME NEW l, Goto(r, l) PROVE IssuedLocal(l, status')
  <2>1. \E l : Goto(r, l)
    BY Zenon DEF Recalculate, RecalcInvoice, RecalcGross, RecalcNet, RecalcWrite
  <2>2. QED BY <1>1, <1>3, <2>1, StepKeepsIssued
<1>4. l = req'[r]
  BY <1>3, GotoReaches
<1>5. CASE RecalcInvoice(r)
  <2> DEFINE m == [q EXCEPT !.pc = "recalcGross"]
  <2>1. /\ m.pc = "recalcGross" /\ m.inv = q.inv /\ m.todo = q.todo /\ m.quota = q.quota
    BY <1>1 DEF Locals
  <2>2. req'[r] = m \/ req'[r] = AfterRecalc(q)
    BY <1>5, GotoReaches DEF RecalcInvoice
  <2>3. IssuedLocal(AfterRecalc(q), status')
    BY <1>1, AfterRecalcIssued
  <2> HIDE DEF m
  <2>4. IssuedLocal(m, status')
    BY <1>1, <1>2, <2>1, LocalCarries
  <2>5. QED BY <1>4, <2>2, <2>3, <2>4
<1>6. CASE RecalcGross(r)
  <2> DEFINE m == [q EXCEPT !.pc = "recalcNet", !.gross = Gross(q.inv)]
  <2>1. /\ m.pc = "recalcNet" /\ m.inv = q.inv /\ m.todo = q.todo /\ m.quota = q.quota
    BY <1>1 DEF Locals
  <2>2. req'[r] = m
    BY <1>6, GotoReaches DEF RecalcGross
  <2> HIDE DEF m
  <2>3. IssuedLocal(m, status')
    BY <1>1, <1>2, <2>1, LocalCarries
  <2>4. QED BY <1>4, <2>2, <2>3
<1>7. CASE RecalcNet(r)
  <2> DEFINE nx == RecalculatedStatus(q.gross, Net(q.inv), Total[q.inv])
             m == [q EXCEPT !.pc = "recalcWrite", !.gross = 0, !.next = nx]
  <2>1. nx \in {"unpaid", "partial", "paid", "refunded"}
    BY RecalculatedStatusType
  <2>2. req'[r] = m
    BY <1>7, GotoReaches DEF RecalcNet
  <2> HIDE DEF nx
  <2>3. /\ m.pc = "recalcWrite" /\ m.inv = q.inv /\ m.todo = q.todo /\ m.quota = q.quota
        /\ m.next = nx
    BY <1>1 DEF Locals
  <2>4. q.todo \in SUBSET Invoice
    BY Zenon, <1>1 DEF Locals
  <2> HIDE DEF m
  <2>5. IssuedLocal(m, status')
    BY <1>1, <1>2, <2>1, <2>3, <2>4 DEF IssuedLocal
  <2>6. QED BY <1>4, <2>2, <2>5
<1>8. CASE RecalcWrite(r)
  <2> DEFINE m == [q EXCEPT !.next = "absent"]
  <2>1. m.op = q.op /\ m.left = q.left /\ m.quota = q.quota /\ m.todo = q.todo
    BY <1>1 DEF Locals
  <2>2. m \in Locals
    <3>1. "absent" \in Statuses
      BY DEF Statuses
    <3>2. QED BY Zenon, <1>1, <3>1 DEF Locals
  <2>3. req'[r] = AfterRecalc(m)
    BY <1>8, GotoReaches DEF RecalcWrite
  <2> HIDE DEF m
  <2>4. IssuedLocal(AfterRecalc(m), status')
    BY <1>1, <2>1, <2>2, AfterRecalcIssued
  <2>5. QED BY <1>4, <2>3, <2>4
<1>9. QED BY <1>5, <1>6, <1>7, <1>8 DEF Recalculate

LEMMA RecordPaymentIssued ==
  ASSUME TypeInv, IssuedInv, Grows, NEW r \in Request, RecordPayment(r)
  PROVE  IssuedInv'
<1> DEFINE q == req[r]
<1>1. /\ q \in Locals /\ Idle \in Locals /\ IssuedLocal(q, status) /\ status' = status
      /\ payments \in Seq(Row)
  BY IdleOK DEF TypeInv, LedgerType, LocalOK, IssuedInv,
     RecordPayment, RecordStart, RecordGross, RecordAccept, RecordReject, RecordInsert
<1>2. CASE RecordReject(r)
  BY <1>1, <1>2, IdleIssued, StepKeepsIssued DEF RecordReject
<1>3. ASSUME NEW i \in Invoice, RecordStart(r, i)
      PROVE  IssuedInv'
  <2> DEFINE l == [Idle EXCEPT !.pc = "recordGross", !.op = "record", !.inv = i]
  <2>1. l.pc = "recordGross" /\ l.quota = Idle.quota /\ l.todo = Idle.todo /\ l.inv = i
    BY <1>1 DEF Locals
  <2>2. Goto(r, l) /\ payments' = payments /\ status[i] # "absent"
    BY <1>3 DEF RecordStart, Open
  <2> HIDE DEF l
  <2>3. IssuedLocal(l, status')
    BY <1>1, <2>1, <2>2, IdleIssued, LocalCarries
  <2>4. QED BY <1>1, <2>2, <2>3, StepKeepsIssued
<1>4. ASSUME q.pc \in OnInvoice, NEW l, Goto(r, l), l.inv = q.inv,
             l.quota = q.quota, l.todo = q.todo, l.pc \notin {"recalcWrite", "cancelCommit"},
             \/ payments' = payments
             \/ payments' = Append(payments, PaymentRow(q.inv, q.left, q.method))
      PROVE  IssuedInv'
  <2>1. status[q.inv] # "absent"
    BY <1>1, <1>4 DEF IssuedLocal
  <2>2. IssuedLocal(l, status')
    BY <1>1, <1>4, <2>1, LocalCarries
  <2>3. \A k \in DOMAIN payments' \ DOMAIN payments : payments'[k].invoice = q.inv
    <3> DEFINE row == PaymentRow(q.inv, q.left, q.method)
    <3>1. row.invoice = q.inv
      BY DEF PaymentRow
    <3> HIDE DEF row
    <3>2. payments' = payments \/ payments' = Append(payments, row)
      BY <1>4 DEF row
    <3>3. QED BY <1>1, <3>1, <3>2, AnyAppendGrows
  <2>4. QED BY <1>1, <1>4, <2>1, <2>2, <2>3, StepKeepsIssued
<1>5. CASE RecordGross(r)
  <2> DEFINE l == [q EXCEPT !.pc = "recordPending", !.gross = Gross(q.inv)]
  <2>1. l.pc = "recordPending" /\ l.quota = q.quota /\ l.todo = q.todo /\ l.inv = q.inv
    BY <1>1 DEF Locals
  <2>2. Goto(r, l) /\ payments' = payments /\ q.pc \in OnInvoice
    BY <1>5 DEF RecordGross, At, OnInvoice
  <2> HIDE DEF l
  <2>3. QED BY <1>4, <2>1, <2>2
<1>6. CASE RecordAccept(r)
  <2>1. PICK a, m : Goto(r, [q EXCEPT !.pc = "recordInsert", !.gross = 0, !.left = a, !.method = m])
    BY <1>6 DEF RecordAccept
  <2> DEFINE l == [q EXCEPT !.pc = "recordInsert", !.gross = 0, !.left = a, !.method = m]
  <2>2. l.pc = "recordInsert" /\ l.quota = q.quota /\ l.todo = q.todo /\ l.inv = q.inv
    BY <1>1 DEF Locals
  <2>3. Goto(r, l) /\ payments' = payments /\ q.pc \in OnInvoice
    BY <1>6, <2>1 DEF RecordAccept, At, OnInvoice
  <2> HIDE DEF l
  <2>4. QED BY <1>4, <2>2, <2>3
<1>7. CASE RecordInsert(r)
  <2> DEFINE l == [q EXCEPT !.pc = "recalc", !.left = 0, !.method = "cash"]
  <2>1. l.pc = "recalc" /\ l.quota = q.quota /\ l.todo = q.todo /\ l.inv = q.inv
    BY <1>1 DEF Locals
  <2>2. /\ Goto(r, l) /\ q.pc \in OnInvoice
        /\ payments' = Append(payments, PaymentRow(q.inv, q.left, q.method))
    BY <1>7 DEF RecordInsert, At, OnInvoice
  <2> HIDE DEF l
  <2>3. QED BY <1>4, <2>1, <2>2
<1>8. QED BY <1>2, <1>3, <1>5, <1>6, <1>7 DEF RecordPayment

LEMMA CollectPaymentIssued ==
  ASSUME TypeInv, IssuedInv, Grows, NEW r \in Request, CollectPayment(r),
         \A i \in Invoice : status[i] # "absent" => status'[i] # "absent"
  PROVE  IssuedInv'
<1> DEFINE q == req[r]
<1>1. /\ q \in Locals /\ Idle \in Locals /\ IssuedLocal(q, status) /\ LocalOK(q, DOMAIN payments)
      /\ payments \in Seq(Row)
  BY IdleOK DEF TypeInv, LedgerType, LocalOK, IssuedInv
<1>2. CASE CollectReject(r)
  BY <1>2, IdleIssued, StepKeepsIssued DEF CollectReject
<1>3. CASE CollectStart(r)
  <2> DEFINE l == [Idle EXCEPT !.pc = "collectOpen", !.op = "collect"]
  <2>1. l.pc = "collectOpen" /\ l.quota = Idle.quota /\ l.todo = Idle.todo
    BY <1>1 DEF Locals
  <2>2. Goto(r, l) /\ payments' = payments
    BY <1>3 DEF CollectStart
  <2> HIDE DEF l
  <2>3. IssuedLocal(l, status')
    BY <1>1, <2>1, IdleIssued, LocalCarries DEF OnInvoice
  <2>4. QED BY <2>2, <2>3, StepKeepsIssued
<1>4. CASE CollectOpen(r)
  <2> DEFINE open == {i \in Invoice : status[i] \in Open}
             l == [q EXCEPT !.pc = "collectGross", !.todo = open]
  <2>1. l.pc = "collectGross" /\ l.quota = q.quota /\ l.todo = open
    <3> HIDE DEF open
    <3>1. QED BY <1>1 DEF Locals
  <2>2. Goto(r, IF open = {} THEN Idle ELSE l) /\ UNCHANGED <<status, payments>>
    BY <1>4 DEF CollectOpen
  <2>3. \A i \in open : status[i] # "absent"
    BY DEF Open
  <2> HIDE DEF l, open
  <2>4. IssuedLocal(l, status')
    BY <1>1, <2>1, <2>2, <2>3, LocalCarries DEF OnInvoice
  <2>5. IssuedLocal(IF open = {} THEN Idle ELSE l, status')
    BY <2>4, IdleIssued
  <2>6. QED BY <2>2, <2>5, StepKeepsIssued
<1>5. CASE CollectGross(r)
  <2> DEFINE i == Oldest(q.todo)
             l == [q EXCEPT !.pc = "collectPending", !.inv = i, !.gross = Gross(i)]
  <2>1. q.pc = "collectGross"
    BY <1>5, AtStep DEF CollectGross
  <2>2. i \in q.todo
    <3>1. q.todo \in SUBSET Invoice
      BY Zenon, <1>1 DEF Locals
    <3>2. q.todo # {}
      BY <1>1, <2>1 DEF LocalOK
    <3>3. QED BY <3>1, <3>2, OldestIsMember
  <2>3. Goto(r, l) /\ UNCHANGED <<status, payments>>
    BY <1>5 DEF CollectGross
  <2> HIDE DEF i
  <2>4. l.pc = "collectPending" /\ l.quota = q.quota /\ l.todo = q.todo /\ l.inv = i
    BY <1>1 DEF Locals
  <2> HIDE DEF l
  <2>5. status[i] # "absent"
    BY <1>1, <2>2 DEF IssuedLocal
  <2>6. IssuedLocal(l, status')
    BY <1>1, <2>3, <2>4, <2>5, LocalCarries
  <2>7. QED BY <2>3, <2>6, StepKeepsIssued
<1>6. CASE CollectPending(r)
  <2> DEFINE i == q.inv
             rest == q.todo \ {i}
             pc == IF rest = {} THEN "collectDecide" ELSE "collectGross"
             n == Recordable(Total[i] - q.gross, Pending(i))
             quota == [q.quota EXCEPT ![i] = n]
             l == [q EXCEPT !.pc = pc, !.todo = rest, !.inv = NoInvoice, !.gross = 0,
                            !.quota = quota]
  <2>1. q.pc = "collectPending" /\ i \in Invoice
    BY <1>6, AtStep DEF CollectPending, OnInvoice
  <2>2. q.quota \in [Invoice -> Nat]
    BY Zenon, <1>1 DEF Locals
  <2>3. Goto(r, l) /\ UNCHANGED <<status, payments>>
    <3>1. Goto(r, [q EXCEPT !.pc = pc, !.todo = rest, !.inv = NoInvoice, !.gross = 0,
                            !.quota[i] = n])
      BY <1>6 DEF CollectPending
    <3>2. [q EXCEPT !.pc = pc, !.todo = rest, !.inv = NoInvoice, !.gross = 0,
                    !.quota[i] = n] = l
      OBVIOUS
    <3>3. QED BY <1>6, <3>1, <3>2 DEF CollectPending
  <2>4. pc \in {"collectDecide", "collectGross"}
    OBVIOUS
  <2>5. status[i] # "absent"
    BY <1>1, <2>1 DEF IssuedLocal, OnInvoice
  <2>6. l.pc = pc /\ l.quota = quota /\ l.todo = rest
    <3> HIDE DEF pc, quota, rest
    <3> DEFINE k == [q EXCEPT !.pc = pc, !.todo = rest, !.quota = quota]
    <3>1. k.pc = pc /\ k.todo = rest /\ k.quota = quota
      BY <1>1 DEF Locals
    <3>2. l.pc = k.pc /\ l.todo = k.todo /\ l.quota = k.quota
      BY <1>1 DEF Locals
    <3>3. QED BY <3>1, <3>2
  <2>7. \A j \in Invoice : l.quota[j] > 0 => j = i \/ q.quota[j] > 0
    BY <2>1, <2>2, <2>6
  <2>8. \A j \in l.todo : j \in q.todo
    BY <2>6
  <2> HIDE DEF l, pc, quota, rest, n, i
  <2>9. IssuedLocal(l, status')
    BY <1>1, <2>3, <2>4, <2>5, <2>6, <2>7, <2>8, LocalCarries DEF OnInvoice
  <2>10. QED BY <2>3, <2>9, StepKeepsIssued
<1>7. CASE CollectAccept(r)
  <2>1. PICK a, m : Goto(r, [q EXCEPT !.pc = "spread", !.left = a, !.method = m])
    BY <1>7 DEF CollectAccept
  <2> DEFINE l == [q EXCEPT !.pc = "spread", !.left = a, !.method = m]
  <2>2. l.pc = "spread" /\ l.quota = q.quota /\ l.todo = q.todo
    BY <1>1 DEF Locals
  <2>3. Goto(r, l) /\ UNCHANGED <<status, payments>>
    BY <1>7, <2>1 DEF CollectAccept
  <2> HIDE DEF l
  <2>4. IssuedLocal(l, status')
    BY <1>1, <2>2, <2>3, LocalCarries DEF OnInvoice
  <2>5. QED BY <2>3, <2>4, StepKeepsIssued
<1>8. CASE CollectInsert(r)
  <2> DEFINE S == {j \in Invoice : q.quota[j] > 0}
             i == Oldest(S)
             applied == Min({q.left, q.quota[i]})
             row == PaymentRow(i, applied, q.method)
             quota == [q.quota EXCEPT ![i] = 0]
             rest == q.left - applied
             l == [q EXCEPT !.pc = "recalc", !.inv = i, !.quota = quota, !.left = rest]
  <2>1. q.pc = "spread"
    BY <1>8, AtStep DEF CollectInsert
  <2>2. i \in Invoice /\ q.quota[i] > 0
    <3>1. S # {} /\ S \in SUBSET Invoice
      BY <1>1, <2>1 DEF LocalOK
    <3>2. i \in S
      BY <3>1, OldestIsMember
    <3>3. QED BY <3>2
  <2>3. q.quota \in [Invoice -> Nat]
    BY Zenon, <1>1 DEF Locals
  <2>4. Goto(r, l) /\ status' = status /\ payments' = Append(payments, row)
    <3>1. Goto(r, [q EXCEPT !.pc = "recalc", !.inv = i, !.quota[i] = 0,
                            !.left = q.left - applied])
      BY <1>8 DEF CollectInsert
    <3>2. [q EXCEPT !.pc = "recalc", !.inv = i, !.quota[i] = 0, !.left = q.left - applied] = l
      OBVIOUS
    <3>3. QED BY <1>8, <3>1, <3>2 DEF CollectInsert
  <2> HIDE DEF i, applied
  <2>5. row.invoice = i
    BY DEF PaymentRow
  <2>6. \A j \in Invoice : quota[j] > 0 => q.quota[j] > 0
    BY <2>2, <2>3
  <2> HIDE DEF quota, rest, row
  <2>7. l.pc = "recalc" /\ l.inv = i /\ l.todo = q.todo /\ l.quota = quota
    BY <1>1 DEF Locals
  <2> HIDE DEF l
  <2>8. status[i] # "absent"
    BY <1>1, <2>2 DEF IssuedLocal
  <2>9. IssuedLocal(l, status')
    BY <1>1, <2>4, <2>6, <2>7, <2>8, LocalCarries
  <2>10. \A k \in DOMAIN payments' \ DOMAIN payments : payments'[k] = row
    BY <1>1, <2>4, AnyAppendGrows
  <2>11. QED BY <2>4, <2>5, <2>8, <2>9, <2>10, StepKeepsIssued
<1>9. QED BY <1>2, <1>3, <1>4, <1>5, <1>6, <1>7, <1>8 DEF CollectPayment

LEMMA VerifyPaymentIssued ==
  ASSUME TypeInv, RefundInv, IssuedInv, Grows, NEW r \in Request, VerifyPayment(r)
  PROVE  IssuedInv'
<1> DEFINE q == req[r]
<1>1. /\ q \in Locals /\ Idle \in Locals /\ IssuedLocal(q, status) /\ status' = status
      /\ payments \in Seq(Row)
  BY IdleOK DEF TypeInv, LedgerType, LocalOK, IssuedInv, VerifyPayment, VerifyStart, VerifyWrite
<1>2. ASSUME NEW p \in DOMAIN payments, VerifyStart(r, p)
      PROVE  IssuedInv'
  <2> DEFINE l == [Idle EXCEPT !.pc = "verifyWrite", !.op = "verify", !.pay = p]
  <2>1. l.pc = "verifyWrite" /\ l.quota = Idle.quota /\ l.todo = Idle.todo
    BY <1>1 DEF Locals
  <2>2. Goto(r, l) /\ payments' = payments
    BY <1>2 DEF VerifyStart
  <2> HIDE DEF l
  <2>3. IssuedLocal(l, status')
    BY <1>1, <2>1, IdleIssued, LocalCarries DEF OnInvoice
  <2>4. QED BY <1>1, <2>2, <2>3, StepKeepsIssued
<1>3. CASE VerifyWrite(r)
  <2> DEFINE p == q.pay
             l == [q EXCEPT !.pc = "recalc", !.inv = payments[p].invoice, !.pay = 0]
  <2>1. p \in DOMAIN payments /\ payments[p] \in Row
    BY <1>1, <1>3, AtStep DEF VerifyWrite, OnPayment
  <2>2. l.pc = "recalc" /\ l.quota = q.quota /\ l.todo = q.todo /\ l.inv = payments[p].invoice
    BY <1>1 DEF Locals
  <2>3. status[payments[p].invoice] # "absent"
    <3>1. CASE payments[p].kind = "payment"
      BY <2>1, <3>1 DEF IssuedInv, IssuedPayments
    <3>2. CASE payments[p].kind = "refund"
      <4>1. Backed(payments[p], payments)
        BY <2>1, <3>2 DEF RefundInv, RefundsMatchPayments
      <4>2. QED BY <4>1 DEF Backed, IssuedInv, IssuedPayments
    <3>3. QED BY <2>1, <3>1, <3>2 DEF Row
  <2>4. Goto(r, l) /\ DOMAIN payments' = DOMAIN payments
    BY <1>3, VerifyGrows DEF VerifyWrite
  <2> HIDE DEF l, p
  <2>5. IssuedLocal(l, status')
    BY <1>1, <2>2, <2>3, LocalCarries
  <2>6. QED BY <1>1, <2>4, <2>5, StepKeepsIssued
<1>4. QED BY <1>2, <1>3 DEF VerifyPayment

LEMMA RefundPaymentIssued ==
  ASSUME TypeInv, RefundInv, IssuedInv, Grows, NEW r \in Request, RefundPayment(r)
  PROVE  IssuedInv'
<1> DEFINE q == req[r]
<1>1. /\ q \in Locals /\ Idle \in Locals /\ IssuedLocal(q, status) /\ status' = status
      /\ payments \in Seq(Row)
  BY IdleOK DEF TypeInv, LedgerType, LocalOK, IssuedInv,
     RefundPayment, RefundStart, RefundAccept, RefundReject, RefundInsert
<1>2. CASE RefundReject(r)
  BY <1>1, <1>2, IdleIssued, StepKeepsIssued DEF RefundReject
<1>3. ASSUME NEW p \in DOMAIN payments, RefundStart(r, p)
      PROVE  IssuedInv'
  <2> DEFINE l == [Idle EXCEPT !.pc = "refundRead", !.op = "refund", !.pay = p]
  <2>1. l.pc = "refundRead" /\ l.quota = Idle.quota /\ l.todo = Idle.todo
    BY <1>1 DEF Locals
  <2>2. Goto(r, l) /\ payments' = payments
    BY <1>3 DEF RefundStart
  <2> HIDE DEF l
  <2>3. IssuedLocal(l, status')
    BY <1>1, <2>1, IdleIssued, LocalCarries DEF OnInvoice
  <2>4. QED BY <1>1, <2>2, <2>3, StepKeepsIssued
<1>4. CASE RefundAccept(r)
  <2>1. PICK a : Goto(r, [q EXCEPT !.pc = "refundInsert", !.left = a])
    BY <1>4 DEF RefundAccept
  <2> DEFINE l == [q EXCEPT !.pc = "refundInsert", !.left = a]
  <2>2. l.pc = "refundInsert" /\ l.quota = q.quota /\ l.todo = q.todo
    BY <1>1 DEF Locals
  <2>3. Goto(r, l) /\ payments' = payments
    BY <1>4, <2>1 DEF RefundAccept
  <2> HIDE DEF l
  <2>4. IssuedLocal(l, status')
    BY <1>1, <2>2, LocalCarries DEF OnInvoice
  <2>5. QED BY <1>1, <2>3, <2>4, StepKeepsIssued
<1>5. CASE RefundInsert(r)
  <2> DEFINE p == q.pay
             row == RefundRow(p, q.left, payments[p].method)
             l == [q EXCEPT !.pc = "recalc", !.inv = payments[p].invoice, !.pay = 0,
                            !.left = 0]
  <2>1. q.pc = "refundInsert" /\ p \in DOMAIN payments
    BY <1>5, AtStep DEF RefundInsert, OnPayment
  <2>2. payments[p].kind = "payment"
    BY <2>1 DEF RefundInv, RefundLocal
  <2>3. status[payments[p].invoice] # "absent"
    BY <2>1, <2>2 DEF IssuedInv, IssuedPayments
  <2>4. Goto(r, l) /\ payments' = Append(payments, row)
    BY <1>5 DEF RefundInsert
  <2>5. l.pc = "recalc" /\ l.inv = payments[p].invoice /\ l.quota = q.quota /\ l.todo = q.todo
    BY <1>1 DEF Locals
  <2>6. row.kind = "refund"
    BY DEF RefundRow
  <2> HIDE DEF l, row, p
  <2>7. \A k \in DOMAIN payments' \ DOMAIN payments : payments'[k] = row
    BY <1>1, <2>4, AnyAppendGrows
  <2>8. IssuedLocal(l, status')
    BY <1>1, <2>3, <2>5, LocalCarries
  <2>9. QED BY <1>1, <2>4, <2>6, <2>7, <2>8, StepKeepsIssued
<1>6. QED BY <1>2, <1>3, <1>4, <1>5 DEF RefundPayment

LEMMA CancelEnrollmentIssued ==
  ASSUME TypeInv, RefundInv, IssuedInv, Grows, NEW r \in Request, CancelEnrollment(r),
         \A i \in Invoice : status[i] # "absent" => status'[i] # "absent"
  PROVE  IssuedInv'
<1> DEFINE q == req[r]
<1>1. /\ q \in Locals /\ Idle \in Locals /\ IssuedLocal(q, status) /\ payments \in Seq(Row)
  BY IdleOK DEF TypeInv, LedgerType, LocalOK, IssuedInv
<1>2. CASE CancelReject(r)
  BY <1>2, IdleIssued, StepKeepsIssued DEF CancelReject
<1>3. CASE CancelRead(r)
  <2> DEFINE todo == {i \in EnrollmentInvoice : status[i] # "absent"}
             l == [Idle EXCEPT !.pc = "cancelPlan", !.op = "cancel", !.todo = todo]
  <2>1. l.pc = "cancelPlan" /\ l.quota = Idle.quota /\ l.todo = todo
    <3> HIDE DEF todo
    <3>1. QED BY <1>1 DEF Locals
  <2>2. Goto(r, l) /\ UNCHANGED <<status, payments>>
    BY <1>3 DEF CancelRead
  <2>3. \A i \in todo : status[i] # "absent"
    OBVIOUS
  <2> HIDE DEF l, todo
  <2>4. IssuedLocal(l, status')
    BY <1>1, <2>1, <2>2, <2>3, IdleIssued, LocalCarries DEF OnInvoice
  <2>5. QED BY <2>2, <2>4, StepKeepsIssued
<1>4. CASE CancelPlan(r)
  <2> DEFINE left == Refundable(q.todo)
             netCash == SumFunctionOnSet(left, DOMAIN left)
  <2>1. PICK m \in Method, alloc \in [DOMAIN left -> 0..netCash] :
          Goto(r, [q EXCEPT !.pc = "cancelCommit", !.plan = RefundPlan(alloc, m)])
    BY <1>4 DEF CancelPlan, Allocates
  <2> DEFINE plan == RefundPlan(alloc, m)
             l == [q EXCEPT !.pc = "cancelCommit", !.plan = plan]
  <2>2. DOMAIN left \in SUBSET DOMAIN payments /\ netCash \in Int
    <3>1. netCash \in Nat => netCash \in Int
      OBVIOUS
    <3>2. QED BY Zenon, <1>1, <3>1, RefundableType
  <2>3. \A p \in DOMAIN left : payments[p].invoice \in q.todo
    BY DEF Refundable, VerifiedPayments
  <2>4. \A k \in DOMAIN plan : \E p \in DOMAIN left : plan[k] = RefundRow(p, alloc[p], m)
    <3>1. m \in {"cash", "transfer"}
      BY RequestAssumption
    <3> HIDE DEF left, netCash
    <3>2. QED BY <1>1, <2>1, <2>2, <3>1, RefundPlanType
  <2> HIDE DEF left, netCash, plan
  <2>5. \A k \in DOMAIN plan : plan[k].invoice \in q.todo
    <3>1. TAKE k \in DOMAIN plan
    <3>2. PICK p \in DOMAIN left : plan[k] = RefundRow(p, alloc[p], m)
      BY <2>4
    <3>3. plan[k].invoice = payments[p].invoice
      BY <3>2 DEF RefundRow
    <3>4. QED BY <2>3, <3>3
  <2>6. l.pc = "cancelCommit" /\ l.plan = plan /\ l.todo = q.todo /\ l.quota = q.quota
    BY <1>1 DEF Locals
  <2>7. UNCHANGED <<status, payments>> /\ Goto(r, l)
    BY <1>4, <2>1 DEF CancelPlan, plan
  <2> HIDE DEF l
  <2>8. IssuedLocal(l, status')
    BY <1>1, <2>5, <2>6, <2>7 DEF IssuedLocal, OnInvoice
  <2>9. QED BY <2>7, <2>8, StepKeepsIssued
<1>5. CASE CancelCommit(r)
  <2>1. q.pc = "cancelCommit"
    BY <1>5, AtStep DEF CancelCommit
  <2>2. q.plan \in Seq(Row)
    BY Zenon, <1>1 DEF Locals
  <2>3. \A k \in DOMAIN q.plan : q.plan[k].kind = "refund"
    BY <2>1 DEF RefundInv, RefundLocal
  <2>4. \A k \in DOMAIN payments' \ DOMAIN payments :
          \E j \in DOMAIN q.plan : payments'[k] = q.plan[j]
    BY <1>1, <1>5, <2>2, ConcatGrows DEF CancelCommit
  <2>5. \A k \in DOMAIN payments' \ DOMAIN payments : payments'[k].kind # "payment"
    BY <2>3, <2>4
  <2>6. Goto(r, Idle)
    BY <1>5 DEF CancelCommit
  <2>7. QED BY <2>5, <2>6, IdleIssued, StepKeepsIssued
<1>6. QED BY <1>2, <1>3, <1>4, <1>5 DEF CancelEnrollment

(* What issuing an invoice does.                                           *)
LEMMA IssueEffect ==
  ASSUME TypeInv, NEW i \in Invoice, Issue(i)
  PROVE  /\ req' = req /\ status[i] = "absent"
         /\ \/ payments' = payments /\ status' = [status EXCEPT ![i] = "unpaid"]
            \/ \E a \in Amounts \cup {Total[i]}, m \in Method :
                 /\ 0 < a /\ a <= Total[i]
                 /\ payments' = Append(payments, PaymentRow(i, a, m))
                 /\ status' = [status EXCEPT ![i] =
                      IF m # "cash" THEN "unpaid"
                      ELSE IF a >= Total[i] THEN "paid" ELSE "partial"]
<1>1. CASE IssueAtDesk(i)
  BY <1>1 DEF IssueAtDesk
<1>2. CASE ~ IssueAtDesk(i)
  BY <1>2 DEF Issue, CreateInvoice, Confirm, AddService, GenerateMonthly, IssueRecurring
<1>3. QED BY <1>1, <1>2

LEMMA IssueIssued ==
  ASSUME TypeInv, IssuedInv, Grows, NEW i \in Invoice, Issue(i),
         \A j \in Invoice : status[j] # "absent" => status'[j] # "absent"
  PROVE  IssuedInv'
<1>1. status \in [Invoice -> Statuses] /\ payments \in Seq(Row) /\ req' = req
  BY IssueEffect DEF TypeInv, LedgerType
<1>2. status'[i] # "absent"
  BY <1>1, IssueEffect
<1>3. \A k \in DOMAIN payments' \ DOMAIN payments : payments'[k].invoice = i
  <2>1. ASSUME NEW a, NEW m, payments' = Append(payments, PaymentRow(i, a, m))
        PROVE  \A k \in DOMAIN payments' \ DOMAIN payments : payments'[k].invoice = i
    <3> DEFINE row == PaymentRow(i, a, m)
    <3>1. row.invoice = i
      BY DEF PaymentRow
    <3> HIDE DEF row
    <3>2. QED BY <1>1, <2>1, <3>1, AnyAppendGrows DEF row
  <2>2. payments' = payments \/ \E a, m : payments' = Append(payments, PaymentRow(i, a, m))
    BY IssueEffect
  <2>3. QED BY <2>1, <2>2
<1>4. IssuedPayments'
  BY <1>1, <1>2, <1>3, IssuedStays DEF IssuedInv
<1>5. \A r \in Request : IssuedLocal(req'[r], status')
  <2>1. TAKE r \in Request
  <2>2. LocalOK(req[r], DOMAIN payments) /\ IssuedLocal(req[r], status)
    BY DEF TypeInv, IssuedInv
  <2>3. QED BY <1>1, <2>2, IssuedLocalStays
<1>6. QED BY <1>4, <1>5 DEF IssuedInv

LEMMA NextKeepsIssued ==
  ASSUME TypeInv, RefundInv, IssuedInv, [Next]_vars
  PROVE  IssuedInv'
<1>1. Grows /\ \A i \in Invoice : status[i] # "absent" => status'[i] # "absent"
  BY NextGrows, StaysIssued
<1>2. CASE UNCHANGED vars
  BY <1>2 DEF vars, IssuedInv, IssuedPayments
<1>3. ASSUME NEW i \in Invoice, Issue(i)
      PROVE  IssuedInv'
  BY <1>1, <1>3, IssueIssued
<1>4. ASSUME NEW r \in Request, Serve(r)
      PROVE  IssuedInv'
  <2>1. CASE Refuse(r)
    BY <1>2, <2>1 DEF Refuse
  <2>2. QED
    BY <1>1, <1>4, <2>1, RecordPaymentIssued, CollectPaymentIssued, VerifyPaymentIssued,
       RefundPaymentIssued, CancelEnrollmentIssued, RecalculateIssued DEF Serve
<1>5. ASSUME NEW r \in Request, Fail(r)
      PROVE  IssuedInv'
  <2>1. Goto(r, Idle) /\ payments' = payments
    BY <1>5 DEF Fail
  <2>2. QED BY <1>1, <2>1, IdleIssued, StepKeepsIssued
<1>6. QED BY <1>2, <1>3, <1>4, <1>5, WorkCases DEF Next

LEMMA IssuedInvariant == Spec => []IssuedInv
<1>1. Init => IssuedInv
  BY IdleIssued DEF Init, IssuedInv, IssuedPayments
<1>2. TypeInv /\ RefundInv /\ IssuedInv /\ [Next]_vars => IssuedInv'
  BY NextKeepsIssued
<1>3. QED BY TypeInvariant, RefundInvariant, <1>1, <1>2, PTL DEF Spec

-----------------------------------------------------------------------------
(* The account of Ledger is kept: every statement of a handler is a step   *)
(* of Ledger or none.  First, sums over rows that are added.               *)

LEMMA RowAmounts ==
  ASSUME payments \in Seq(Row), PositiveRows
  PROVE  \A k \in DOMAIN payments : AmountOf[k] = payments[k].amount /\ AmountOf[k] \in Nat
                                    /\ AmountOf[k] > 0
<1>1. TAKE k \in DOMAIN payments
<1>2. payments[k] \in Row
  OBVIOUS
<1>3. payments[k].amount \in Int /\ payments[k].amount > 0
  BY <1>2 DEF Row, PositiveRows
<1>4. QED BY <1>3 DEF AmountOf

LEMMA SumStays ==
  ASSUME payments \in Seq(Row), Grows, NEW S \in SUBSET DOMAIN payments
  PROVE  SumFunctionOnSet(AmountOf', S) = SumFunctionOnSet(AmountOf, S)
<1> DEFINE f == AmountOf   g == AmountOf'
<1>1. IsFiniteSet(S)
  BY RowsFinite, FS_Subset
<1>2. \A k \in S : f[k] = g[k]
  BY DEF AmountOf, Grows
<1> HIDE DEF f, g
<1>3. SumFunctionOnSet(f, S) = SumFunctionOnSet(g, S)
  BY <1>1, <1>2, SumCong
<1>4. QED BY <1>3 DEF f, g

(* A row more adds its amount.                                             *)
LEMMA SumAdds ==
  ASSUME payments \in Seq(Row), payments' \in Seq(Row), Grows, PositiveRows',
         NEW S \in SUBSET DOMAIN payments, NEW k \in DOMAIN payments', k \notin S
  PROVE  /\ SumFunctionOnSet(AmountOf, S) \in Nat
         /\ SumFunctionOnSet(AmountOf', S \cup {k})
              = SumFunctionOnSet(AmountOf, S) + payments'[k].amount
         /\ payments'[k].amount \in Nat /\ payments'[k].amount > 0
<1> DEFINE g == AmountOf'   W == S \cup {k}
<1>1. S \in SUBSET DOMAIN payments'
  BY DEF Grows
<1>2. IsFiniteSet(DOMAIN payments')
  BY DomainFinite
<1>3. IsFiniteSet(W) /\ IsFiniteSet(S) /\ W \in SUBSET DOMAIN payments'
  BY <1>1, <1>2, FS_Subset
<1>4. \A x \in DOMAIN payments' : g[x] = payments'[x].amount /\ g[x] \in Nat /\ g[x] > 0
  <2>1. TAKE x \in DOMAIN payments'
  <2>2. payments'[x] \in Row
    OBVIOUS
  <2>3. payments'[x].amount \in Int /\ payments'[x].amount > 0
    BY <2>2 DEF Row, PositiveRows
  <2>4. QED BY <2>3 DEF AmountOf
<1>5. W \ {k} = S /\ k \in W
  OBVIOUS
<1>6. SumFunctionOnSet(AmountOf, S) = SumFunctionOnSet(g, S)
  BY SumStays
<1>10. g[k] = payments'[k].amount /\ g[k] \in Nat /\ g[k] > 0
  BY <1>4
<1> HIDE DEF g
<1>11. (\A x \in W : g[x] \in Int) /\ (\A x \in S : g[x] \in Nat)
  BY <1>1, <1>4
<1> HIDE DEF W
<1>7. SumFunctionOnSet(g, W) = g[k] + SumFunctionOnSet(g, W \ {k})
  BY <1>3, <1>5, <1>11, SumRemove
<1>8. SumFunctionOnSet(g, S) \in Nat
  BY <1>3, <1>11, SumNonNegative
<1>12. SumFunctionOnSet(g, W) = SumFunctionOnSet(AmountOf, S) + payments'[k].amount
  <2>1. SumFunctionOnSet(g, W) = g[k] + SumFunctionOnSet(g, S)
    BY Zenon, <1>5, <1>7
  <2> DEFINE a == SumFunctionOnSet(g, W)   b == SumFunctionOnSet(g, S)
  <2>2. a = payments'[k].amount + b /\ b \in Nat /\ payments'[k].amount \in Nat
    BY <1>8, <1>10, <2>1
  <2>3. b = SumFunctionOnSet(AmountOf, S)
    BY <1>6
  <2> HIDE DEF a, b
  <2>4. a = b + payments'[k].amount
    BY <2>2
  <2>5. QED BY <2>3, <2>4 DEF a
<1>9. QED BY <1>6, <1>8, <1>10, <1>12 DEF g, W

(* More rows make a larger sum.                                            *)
LEMMA SumRises ==
  ASSUME payments \in Seq(Row), payments' \in Seq(Row), Grows, PositiveRows',
         NEW S \in SUBSET DOMAIN payments, NEW T \in SUBSET DOMAIN payments',
         S \subseteq T, S # T
  PROVE  SumFunctionOnSet(AmountOf, S) < SumFunctionOnSet(AmountOf', T)
<1>1. PICK k \in T : k \notin S
  OBVIOUS
<1> DEFINE g == AmountOf'   W == S \cup {k}
<1>2. k \in DOMAIN payments' /\ W \in SUBSET T
  BY <1>1
<1>3. IsFiniteSet(T)
  BY DomainFinite, FS_Subset
<1>4. \A x \in T : g[x] \in Nat
  <2>1. TAKE x \in T
  <2>2. payments'[x] \in Row
    OBVIOUS
  <2>3. payments'[x].amount \in Int /\ payments'[x].amount > 0
    BY <2>2 DEF Row, PositiveRows
  <2>4. QED BY <2>3 DEF AmountOf
<1>5. /\ SumFunctionOnSet(AmountOf, S) \in Nat
      /\ SumFunctionOnSet(g, W) = SumFunctionOnSet(AmountOf, S) + payments'[k].amount
      /\ payments'[k].amount \in Nat /\ payments'[k].amount > 0
  BY <1>1, <1>2, SumAdds
<1> HIDE DEF g, W
<1>6. SumFunctionOnSet(g, W) <= SumFunctionOnSet(g, T)
  BY <1>2, <1>3, <1>4, SumMonotone
<1>7. SumFunctionOnSet(g, T) \in Nat
  BY <1>3, <1>4, SumNonNegative
<1>8. QED BY <1>5, <1>6, <1>7 DEF g

-----------------------------------------------------------------------------
(* The three sums of an invoice.                                           *)

LEMMA AccountTables ==
  /\ GrossOf = [i \in Invoice |-> GrossOf[i]]
  /\ PendingOf = [i \in Invoice |-> PendingOf[i]]
  /\ ReturnedOf = [i \in Invoice |-> ReturnedOf[i]]
  /\ \A i \in Invoice :
       /\ GrossOf[i] = SumFunctionOnSet(AmountOf, VerifiedPayments(i))
       /\ PendingOf[i] = SumFunctionOnSet(AmountOf, UnverifiedPayments(i))
       /\ ReturnedOf[i] = SumFunctionOnSet(AmountOf, VerifiedRefunds(i))
       /\ VerifiedPayments(i) \in SUBSET DOMAIN payments
       /\ UnverifiedPayments(i) \in SUBSET DOMAIN payments
       /\ VerifiedRefunds(i) \in SUBSET DOMAIN payments
  BY DEF GrossOf, PendingOf, ReturnedOf, Gross, Pending,
         VerifiedPayments, UnverifiedPayments, VerifiedRefunds

(* The same rows make the same sums.                                       *)
LEMMA SameSums ==
  ASSUME payments \in Seq(Row), Grows, NEW i \in Invoice
  PROVE  /\ VerifiedPayments(i)' = VerifiedPayments(i) => GrossOf'[i] = GrossOf[i]
         /\ UnverifiedPayments(i)' = UnverifiedPayments(i) => PendingOf'[i] = PendingOf[i]
         /\ VerifiedRefunds(i)' = VerifiedRefunds(i) => ReturnedOf'[i] = ReturnedOf[i]
<1>1. /\ GrossOf'[i] = SumFunctionOnSet(AmountOf', VerifiedPayments(i)')
      /\ PendingOf'[i] = SumFunctionOnSet(AmountOf', UnverifiedPayments(i)')
      /\ ReturnedOf'[i] = SumFunctionOnSet(AmountOf', VerifiedRefunds(i)')
  BY DEF GrossOf, PendingOf, ReturnedOf, Gross, Pending
<1>2. QED BY <1>1, SumStays, AccountTables

LEMMA SameTables ==
  /\ (\A i \in Invoice : GrossOf'[i] = GrossOf[i]) => GrossOf' = GrossOf
  /\ (\A i \in Invoice : PendingOf'[i] = PendingOf[i]) => PendingOf' = PendingOf
  /\ (\A i \in Invoice : ReturnedOf'[i] = ReturnedOf[i]) => ReturnedOf' = ReturnedOf
  BY DEF GrossOf, PendingOf, ReturnedOf

(* A sum that rises at one invoice only.                                   *)
LEMMA RaisesAt ==
  ASSUME NEW i \in Invoice, NEW f, NEW g, DOMAIN f = Invoice,
         f = [j \in Invoice |-> f[j]], g = [j \in Invoice |-> g[j]],
         \A j \in Invoice : j # i => g[j] = f[j], f[i] < g[i]
  PROVE  Account!Raises(f, g, i)
  BY DEF Account!Raises

LEMMA SumsAreNatural ==
  ASSUME payments \in Seq(Row), PositiveRows, NEW i \in Invoice
  PROVE  GrossOf[i] \in Nat /\ PendingOf[i] \in Nat /\ ReturnedOf[i] \in Nat
<1>1. ASSUME NEW S \in SUBSET DOMAIN payments
      PROVE  SumFunctionOnSet(AmountOf, S) \in Nat
  <2> DEFINE f == AmountOf
  <2>1. IsFiniteSet(S)
    BY RowsFinite, FS_Subset
  <2>2. \A x \in S : f[x] \in Nat
    BY RowAmounts
  <2> HIDE DEF f
  <2>3. SumFunctionOnSet(f, S) \in Nat
    BY <2>1, <2>2, SumNonNegative
  <2>4. QED BY <2>3 DEF f
<1>2. QED BY <1>1, AccountTables

(* A verified payment is part of what its invoice has collected.           *)
LEMMA PaymentIsCollected ==
  ASSUME payments \in Seq(Row), PositiveRows, NEW p \in DOMAIN payments,
         payments[p].kind = "payment", payments[p].verified
  PROVE  /\ payments[p].invoice \in Invoice
         /\ payments[p].amount <= GrossOf[payments[p].invoice]
<1> DEFINE i == payments[p].invoice   S == VerifiedPayments(i)   f == AmountOf
<1>1. payments[p] \in Row
  OBVIOUS
<1>2. i \in Invoice
  BY <1>1 DEF Row
<1>3. p \in S /\ S \in SUBSET DOMAIN payments
  BY DEF VerifiedPayments
<1>4. IsFiniteSet(S)
  BY <1>3, RowsFinite, FS_Subset
<1>5. \A x \in S : f[x] \in Nat
  BY <1>3, RowAmounts
<1>6. GrossOf[i] = SumFunctionOnSet(f, S) /\ f[p] = payments[p].amount
  BY <1>2, AccountTables, RowAmounts
<1> HIDE DEF S, f
<1>7. f[p] <= SumFunctionOnSet(f, S)
  BY <1>3, <1>4, <1>5, SumMember
<1>8. QED BY <1>2, <1>6, <1>7

LEMMA SameAccount ==
  ASSUME UNCHANGED payments
  PROVE  GrossOf' = GrossOf /\ PendingOf' = PendingOf /\ ReturnedOf' = ReturnedOf
<1>1. AmountOf' = AmountOf
  BY DEF AmountOf
<1>2. \A i : /\ VerifiedPayments(i)' = VerifiedPayments(i)
             /\ UnverifiedPayments(i)' = UnverifiedPayments(i)
             /\ VerifiedRefunds(i)' = VerifiedRefunds(i)
  BY DEF VerifiedPayments, UnverifiedPayments, VerifiedRefunds
<1>3. QED BY <1>1, <1>2 DEF GrossOf, PendingOf, ReturnedOf, Gross, Pending

-----------------------------------------------------------------------------
(* What a row more does to the three sums.                                 *)

LEMMA AppendedRows ==
  ASSUME payments \in Seq(Row), NEW row \in Row, payments' = Append(payments, row), NEW j
  PROVE  /\ VerifiedPayments(j)' =
              IF row.kind = "payment" /\ row.verified /\ row.invoice = j
              THEN VerifiedPayments(j) \cup {Len(payments) + 1} ELSE VerifiedPayments(j)
         /\ UnverifiedPayments(j)' =
              IF row.kind = "payment" /\ ~ row.verified /\ row.invoice = j
              THEN UnverifiedPayments(j) \cup {Len(payments) + 1} ELSE UnverifiedPayments(j)
         /\ VerifiedRefunds(j)' =
              IF row.kind = "refund" /\ row.verified /\ row.invoice = j
              THEN VerifiedRefunds(j) \cup {Len(payments) + 1} ELSE VerifiedRefunds(j)
<1> DEFINE n == Len(payments) + 1
<1>1. /\ DOMAIN payments' = DOMAIN payments \cup {n} /\ n \notin DOMAIN payments
      /\ payments'[n] = row /\ \A k \in DOMAIN payments : payments'[k] = payments[k]
  BY AppendGrows
<1> HIDE DEF n
<1>2. VerifiedPayments(j)' = IF row.kind = "payment" /\ row.verified /\ row.invoice = j
                             THEN VerifiedPayments(j) \cup {n} ELSE VerifiedPayments(j)
  BY <1>1 DEF VerifiedPayments
<1>3. UnverifiedPayments(j)' = IF row.kind = "payment" /\ ~ row.verified /\ row.invoice = j
                               THEN UnverifiedPayments(j) \cup {n} ELSE UnverifiedPayments(j)
  BY <1>1 DEF UnverifiedPayments
<1>4. VerifiedRefunds(j)' = IF row.kind = "refund" /\ row.verified /\ row.invoice = j
                            THEN VerifiedRefunds(j) \cup {n} ELSE VerifiedRefunds(j)
  BY <1>1 DEF VerifiedRefunds
<1>5. QED BY <1>2, <1>3, <1>4 DEF n

(* A sum rises by the amount of the row, at its invoice only.              *)
LEMMA AppendRaises ==
  ASSUME payments \in Seq(Row), payments' \in Seq(Row), PositiveRows',
         NEW row \in Row, payments' = Append(payments, row)
  PROVE  /\ row.invoice \in Invoice /\ row.amount \in Nat
         /\ row.kind = "payment" /\ row.verified =>
              /\ Account!Raises(GrossOf, GrossOf', row.invoice)
              /\ GrossOf'[row.invoice] = GrossOf[row.invoice] + row.amount
              /\ PendingOf' = PendingOf /\ ReturnedOf' = ReturnedOf
         /\ row.kind = "payment" /\ ~ row.verified =>
              /\ Account!Raises(PendingOf, PendingOf', row.invoice)
              /\ PendingOf'[row.invoice] = PendingOf[row.invoice] + row.amount
              /\ GrossOf' = GrossOf /\ ReturnedOf' = ReturnedOf
         /\ row.kind = "refund" /\ row.verified =>
              /\ Account!Raises(ReturnedOf, ReturnedOf', row.invoice)
              /\ ReturnedOf'[row.invoice] = ReturnedOf[row.invoice] + row.amount
              /\ GrossOf' = GrossOf /\ PendingOf' = PendingOf
         /\ row.kind = "refund" /\ ~ row.verified =>
              GrossOf' = GrossOf /\ PendingOf' = PendingOf /\ ReturnedOf' = ReturnedOf
<1> DEFINE n == Len(payments) + 1   i == row.invoice
<1>1. /\ Grows /\ n \in DOMAIN payments' /\ n \notin DOMAIN payments /\ payments'[n] = row
  BY AppendGrows
<1>2. i \in Invoice
  BY DEF Row
<1>3. row.amount \in Nat /\ row.amount > 0
  <2>1. row.amount \in Int
    BY DEF Row
  <2>2. QED BY <1>1, <2>1 DEF PositiveRows
<1>4. \A j \in Invoice :
        /\ VerifiedPayments(j)' = IF row.kind = "payment" /\ row.verified /\ i = j
                                  THEN VerifiedPayments(j) \cup {n} ELSE VerifiedPayments(j)
        /\ UnverifiedPayments(j)' = IF row.kind = "payment" /\ ~ row.verified /\ i = j
                                    THEN UnverifiedPayments(j) \cup {n} ELSE UnverifiedPayments(j)
        /\ VerifiedRefunds(j)' = IF row.kind = "refund" /\ row.verified /\ i = j
                                 THEN VerifiedRefunds(j) \cup {n} ELSE VerifiedRefunds(j)
  BY AppendedRows
<1>5. \A S \in SUBSET DOMAIN payments :
        /\ SumFunctionOnSet(AmountOf, S) \in Nat
        /\ SumFunctionOnSet(AmountOf', S \cup {n}) = SumFunctionOnSet(AmountOf, S) + row.amount
  BY <1>1, SumAdds
<1>6. /\ GrossOf'[i] = SumFunctionOnSet(AmountOf', VerifiedPayments(i)')
      /\ PendingOf'[i] = SumFunctionOnSet(AmountOf', UnverifiedPayments(i)')
      /\ ReturnedOf'[i] = SumFunctionOnSet(AmountOf', VerifiedRefunds(i)')
  BY <1>2 DEF GrossOf, PendingOf, ReturnedOf, Gross, Pending
<1>7. GrossOf[i] \in Nat /\ PendingOf[i] \in Nat /\ ReturnedOf[i] \in Nat
  BY <1>2, <1>5, AccountTables
<1>8. \A j \in Invoice :
        /\ ~ (row.kind = "payment" /\ row.verified /\ i = j) => GrossOf'[j] = GrossOf[j]
        /\ ~ (row.kind = "payment" /\ ~ row.verified /\ i = j) => PendingOf'[j] = PendingOf[j]
        /\ ~ (row.kind = "refund" /\ row.verified /\ i = j) => ReturnedOf'[j] = ReturnedOf[j]
  BY <1>1, <1>4, SameSums
<1>9. /\ row.kind = "payment" /\ row.verified => GrossOf'[i] = GrossOf[i] + row.amount
      /\ row.kind = "payment" /\ ~ row.verified => PendingOf'[i] = PendingOf[i] + row.amount
      /\ row.kind = "refund" /\ row.verified => ReturnedOf'[i] = ReturnedOf[i] + row.amount
  <2>1. /\ GrossOf[i] = SumFunctionOnSet(AmountOf, VerifiedPayments(i))
        /\ PendingOf[i] = SumFunctionOnSet(AmountOf, UnverifiedPayments(i))
        /\ ReturnedOf[i] = SumFunctionOnSet(AmountOf, VerifiedRefunds(i))
        /\ VerifiedPayments(i) \in SUBSET DOMAIN payments
        /\ UnverifiedPayments(i) \in SUBSET DOMAIN payments
        /\ VerifiedRefunds(i) \in SUBSET DOMAIN payments
    BY <1>2, AccountTables
  <2>2. /\ row.kind = "payment" /\ row.verified =>
             VerifiedPayments(i)' = VerifiedPayments(i) \cup {n}
        /\ row.kind = "payment" /\ ~ row.verified =>
             UnverifiedPayments(i)' = UnverifiedPayments(i) \cup {n}
        /\ row.kind = "refund" /\ row.verified =>
             VerifiedRefunds(i)' = VerifiedRefunds(i) \cup {n}
    BY <1>2, <1>4
  <2>3. /\ SumFunctionOnSet(AmountOf', VerifiedPayments(i) \cup {n}) = GrossOf[i] + row.amount
        /\ SumFunctionOnSet(AmountOf', UnverifiedPayments(i) \cup {n}) = PendingOf[i] + row.amount
        /\ SumFunctionOnSet(AmountOf', VerifiedRefunds(i) \cup {n}) = ReturnedOf[i] + row.amount
    BY <1>5, <2>1
  <2>4. QED BY Zenon, <1>6, <2>2, <2>3
<1>10. /\ DOMAIN GrossOf = Invoice /\ DOMAIN PendingOf = Invoice /\ DOMAIN ReturnedOf = Invoice
       /\ GrossOf' = [j \in Invoice |-> GrossOf'[j]]
       /\ PendingOf' = [j \in Invoice |-> PendingOf'[j]]
       /\ ReturnedOf' = [j \in Invoice |-> ReturnedOf'[j]]
  BY DEF GrossOf, PendingOf, ReturnedOf
<1> HIDE DEF n, i
<1>11. ASSUME row.kind = "payment", row.verified
       PROVE  /\ Account!Raises(GrossOf, GrossOf', i)
              /\ PendingOf' = PendingOf /\ ReturnedOf' = ReturnedOf
  <2>1. GrossOf[i] < GrossOf'[i]
    BY <1>3, <1>7, <1>9, <1>11
  <2>2. \A j \in Invoice : j # i => GrossOf'[j] = GrossOf[j]
    BY <1>8
  <2>3. Account!Raises(GrossOf, GrossOf', i)
    BY <1>2, <1>10, <2>1, <2>2, AccountTables, RaisesAt
  <2>4. QED BY <1>8, <1>11, <2>3, SameTables
<1>12. ASSUME row.kind = "payment", ~ row.verified
       PROVE  /\ Account!Raises(PendingOf, PendingOf', i)
              /\ GrossOf' = GrossOf /\ ReturnedOf' = ReturnedOf
  <2>1. PendingOf[i] < PendingOf'[i]
    BY <1>3, <1>7, <1>9, <1>12
  <2>2. \A j \in Invoice : j # i => PendingOf'[j] = PendingOf[j]
    BY <1>8
  <2>3. Account!Raises(PendingOf, PendingOf', i)
    BY <1>2, <1>10, <2>1, <2>2, AccountTables, RaisesAt
  <2>4. QED BY <1>8, <1>12, <2>3, SameTables
<1>13. ASSUME row.kind = "refund", row.verified
       PROVE  /\ Account!Raises(ReturnedOf, ReturnedOf', i)
              /\ GrossOf' = GrossOf /\ PendingOf' = PendingOf
  <2>1. ReturnedOf[i] < ReturnedOf'[i]
    BY <1>3, <1>7, <1>9, <1>13
  <2>2. \A j \in Invoice : j # i => ReturnedOf'[j] = ReturnedOf[j]
    BY <1>8
  <2>3. Account!Raises(ReturnedOf, ReturnedOf', i)
    BY <1>2, <1>10, <2>1, <2>2, AccountTables, RaisesAt
  <2>4. QED BY <1>8, <1>13, <2>3, SameTables
<1>14. ASSUME row.kind = "refund", ~ row.verified
       PROVE  GrossOf' = GrossOf /\ PendingOf' = PendingOf /\ ReturnedOf' = ReturnedOf
  BY <1>8, <1>14, SameTables
<1>15. QED BY <1>2, <1>3, <1>9, <1>11, <1>12, <1>13, <1>14 DEF i

-----------------------------------------------------------------------------
(* The statements, one by one.                                             *)

LedgerStep == [Account!Next]_(Account!vars)

LEMMA NoLedgerStep ==
  ASSUME UNCHANGED <<status, payments>>
  PROVE  LedgerStep
<1>1. GrossOf' = GrossOf /\ PendingOf' = PendingOf /\ ReturnedOf' = ReturnedOf
  BY SameAccount
<1>2. QED BY <1>1 DEF LedgerStep, Account!vars

LEMMA OneLedgerStep ==
  ASSUME NEW i \in Invoice,
         \/ Account!Issue(i) \/ Account!Take(i) \/ Account!Verify(i)
         \/ Account!GiveBack(i) \/ Account!Settle(i)
  PROVE  LedgerStep
  BY DEF LedgerStep, Account!Next

(* A payment or a refund is inserted, by recordPayment, collectPayment or  *)
(* refundPayment.                                                          *)
LEMMA InsertedPayment ==
  ASSUME TypeInv, TypeInv', PositiveRows', NEW row \in Row,
         payments' = Append(payments, row), UNCHANGED status,
         row.kind = "payment", status[row.invoice] # "absent"
  PROVE  LedgerStep
<1> DEFINE i == row.invoice
<1>1. payments \in Seq(Row) /\ payments' \in Seq(Row)
  BY DEF TypeInv, LedgerType
<1>2. i \in Invoice
  BY <1>1, AppendRaises
<1>3. row.verified \in BOOLEAN
  BY DEF Row
<1>4. Account!Take(i)
  BY <1>1, <1>3, AppendRaises DEF Account!Take, Account!Issued
<1>5. QED BY <1>2, <1>4, OneLedgerStep

LEMMA InsertedRefund ==
  ASSUME TypeInv, TypeInv', PositiveRows', NEW row \in Row,
         payments' = Append(payments, row), UNCHANGED status,
         row.kind = "refund", status[row.invoice] # "absent",
         row.amount <= GrossOf[row.invoice]
  PROVE  LedgerStep
<1> DEFINE i == row.invoice
<1>1. payments \in Seq(Row) /\ payments' \in Seq(Row)
  BY DEF TypeInv, LedgerType
<1>2. i \in Invoice /\ row.amount \in Nat
  BY <1>1, AppendRaises
<1>3. CASE row.verified
  <2>1. /\ Account!Raises(ReturnedOf, ReturnedOf', i)
        /\ ReturnedOf'[i] = ReturnedOf[i] + row.amount
        /\ GrossOf' = GrossOf /\ PendingOf' = PendingOf
    BY <1>1, <1>3, AppendRaises
  <2>2. ReturnedOf[i] \in Int /\ GrossOf[i] \in Int
    <3>1. IsFiniteSet(VerifiedRefunds(i)) /\ VerifiedRefunds(i) \in SUBSET DOMAIN payments
      BY <1>1, RowsFinite, FS_Subset DEF VerifiedRefunds
    <3>2. \A k \in VerifiedRefunds(i) : AmountOf[k] \in Int
      BY <1>1, <3>1, AmountOfType
    <3>3. SumFunctionOnSet(AmountOf, VerifiedRefunds(i)) \in Int
      BY <3>1, <3>2, SumType
    <3>4. QED BY <1>1, <1>2, <3>3, AccountTables, GrossType
  <2>3. ReturnedOf'[i] - ReturnedOf[i] <= GrossOf[i]
    BY <1>2, <2>1, <2>2
  <2>4. Account!GiveBack(i)
    BY <2>1, <2>3 DEF Account!GiveBack, Account!Issued
  <2>5. QED BY <1>2, <2>4, OneLedgerStep
<1>4. CASE ~ row.verified
  <2>1. GrossOf' = GrossOf /\ PendingOf' = PendingOf /\ ReturnedOf' = ReturnedOf
    BY <1>1, <1>4, AppendRaises
  <2>2. QED BY <2>1 DEF LedgerStep, Account!vars
<1>5. QED BY <1>3, <1>4

(* What a row that is backed says of its invoice.                          *)
LEMMA BackedByCollected ==
  ASSUME TypeInv, PositiveRows, IssuedPayments, NEW f, f.amount \in Int,
         Backed(f, payments)
  PROVE  f.invoice \in Invoice /\ status[f.invoice] # "absent"
         /\ f.amount <= GrossOf[f.invoice] /\ GrossOf[f.invoice] \in Nat
         /\ GrossOf[f.invoice] > 0
<1> DEFINE p == f.of
<1>1. /\ p \in DOMAIN payments /\ payments[p].kind = "payment" /\ payments[p].verified
      /\ payments[p].invoice = f.invoice /\ 0 < f.amount /\ f.amount <= payments[p].amount
  BY DEF Backed
<1>2. payments \in Seq(Row)
  BY DEF TypeInv, LedgerType
<1> HIDE DEF p
<1>3. f.invoice \in Invoice /\ payments[p].amount <= GrossOf[f.invoice]
  BY <1>1, <1>2, PaymentIsCollected
<1>4. GrossOf[f.invoice] \in Nat
  BY <1>2, <1>3, SumsAreNatural
<1>5. payments[p].amount \in Int /\ payments[p].amount > 0 /\ status[f.invoice] # "absent"
  <2>1. payments[p] \in Row
    BY <1>1, <1>2
  <2>2. QED BY <1>1, <2>1 DEF Row, PositiveRows, IssuedPayments
<1> DEFINE a == payments[p].amount   g == GrossOf[f.invoice]
<1>6. f.amount <= a /\ a <= g /\ a > 0 /\ a \in Int /\ g \in Nat
  BY <1>1, <1>3, <1>4, <1>5
<1> HIDE DEF a, g
<1>7. g > 0
  BY <1>6
<1>8. f.amount <= g
  BY <1>6, <1>3, <1>1 DEF a, g
<1>9. QED BY <1>3, <1>4, <1>5, <1>7, <1>8 DEF g

LEMMA RecordPaymentInLedger ==
  ASSUME TypeInv, TypeInv', IssuedInv, PositiveRows', NEW r \in Request, RecordInsert(r)
  PROVE  LedgerStep
<1> DEFINE q == req[r]   row == PaymentRow(q.inv, q.left, q.method)
<1>1. /\ q \in Locals /\ q.inv \in Invoice /\ q.pc = "recordInsert"
  BY AtStep DEF RecordInsert, OnInvoice
<1>2. q.left \in Int /\ q.method \in {"cash", "transfer"}
  BY <1>1 DEF Locals
<1>3. row \in Row
  BY <1>1, <1>2, PaymentRowType
<1>4. row.kind = "payment" /\ row.invoice = q.inv
  BY DEF PaymentRow
<1>5. status[q.inv] # "absent"
  BY <1>1 DEF IssuedInv, IssuedLocal, OnInvoice
<1>6. payments' = Append(payments, row) /\ UNCHANGED status
  BY DEF RecordInsert
<1> HIDE DEF row
<1>7. QED BY <1>3, <1>4, <1>5, <1>6, InsertedPayment

LEMMA CollectPaymentInLedger ==
  ASSUME TypeInv, TypeInv', IssuedInv, PositiveRows', NEW r \in Request, CollectInsert(r)
  PROVE  LedgerStep
<1> DEFINE q == req[r]
           i == Oldest({j \in Invoice : q.quota[j] > 0})
           a == Min({q.left, q.quota[i]})
           row == PaymentRow(i, a, q.method)
<1>1. q \in Locals /\ q.pc = "spread" /\ LocalOK(q, DOMAIN payments) /\ IssuedLocal(q, status)
  BY AtStep DEF CollectInsert, IssuedInv
<1>2. i \in Invoice /\ q.quota[i] > 0
  <2>1. {j \in Invoice : q.quota[j] > 0} # {}
    BY <1>1 DEF LocalOK
  <2>2. i \in {j \in Invoice : q.quota[j] > 0}
    BY <2>1, OldestIsMember
  <2>3. QED BY <2>2
<1>3. payments' = Append(payments, row) /\ UNCHANGED status
  BY DEF CollectInsert
<1>4. status[i] # "absent"
  BY <1>1, <1>2 DEF IssuedLocal
<1> HIDE DEF i
<1>5. a \in Int /\ q.method \in {"cash", "transfer"}
  <2>1. q.left \in Int /\ q.quota[i] \in Int /\ q.method \in {"cash", "transfer"}
    BY <1>1, <1>2 DEF Locals
  <2>2. QED BY <2>1, MinOfTwo
<1> HIDE DEF a
<1>6. row \in Row
  BY <1>2, <1>5, PaymentRowType
<1>7. row.kind = "payment" /\ row.invoice = i
  BY DEF PaymentRow
<1> HIDE DEF row
<1>8. QED BY <1>3, <1>4, <1>6, <1>7, InsertedPayment

LEMMA RefundPaymentInLedger ==
  ASSUME TypeInv, TypeInv', RefundInv, IssuedInv, PositiveRows, PositiveRows',
         NEW r \in Request, RefundInsert(r)
  PROVE  LedgerStep
<1> DEFINE q == req[r]   p == q.pay   row == RefundRow(p, q.left, payments[p].method)
<1>1. /\ q \in Locals /\ p \in DOMAIN payments /\ payments \in Seq(Row)
      /\ q.pc = "refundInsert" /\ RefundLocal(q, payments)
  BY AtStep DEF RefundInsert, OnPayment, RefundInv
<1>2. /\ payments[p].kind = "payment" /\ payments[p].verified
      /\ 0 < q.left /\ q.left <= payments[p].amount
  BY <1>1 DEF RefundLocal
<1>3. q.left \in Int /\ payments[p].method \in {"cash", "transfer"}
  <2>1. payments[p] \in Row
    BY <1>1
  <2>2. QED BY <1>1, <2>1 DEF Locals, Row
<1>4. row \in Row
  BY <1>1, <1>3, RefundRowType
<1>5. /\ row.kind = "refund" /\ row.invoice = payments[p].invoice /\ row.amount = q.left
      /\ row.of = p
  BY DEF RefundRow
<1>6. payments' = Append(payments, row) /\ UNCHANGED status
  BY DEF RefundInsert
<1> HIDE DEF row
<1>7. Backed(row, payments)
  BY <1>1, <1>2, <1>5 DEF Backed
<1>8. status[row.invoice] # "absent" /\ row.amount <= GrossOf[row.invoice]
  <2>1. row.amount \in Int
    BY <1>3, <1>5
  <2>2. QED BY <1>7, <2>1, BackedByCollected DEF IssuedInv
<1>9. QED BY <1>4, <1>5, <1>6, <1>8, InsertedRefund

(* The verification of a row.                                              *)
LEMMA VerifiedRow ==
  ASSUME TypeInv, NEW r \in Request, VerifyWrite(r)
  PROVE  \E p \in DOMAIN payments :
           /\ DOMAIN payments' = DOMAIN payments /\ Grows
           /\ payments'[p].verified
           /\ payments'[p].kind = payments[p].kind
           /\ payments'[p].invoice = payments[p].invoice
           /\ \A k \in DOMAIN payments \ {p} : payments'[k] = payments[k]
<1> DEFINE p == req[r].pay
<1>1. p \in DOMAIN payments /\ payments \in Seq(Row)
  BY AtStep DEF VerifyWrite, OnPayment
<1>2. Grows /\ DOMAIN payments' = DOMAIN payments /\ payments'[p].verified
  BY VerifyGrows
<1>3. payments' = [payments EXCEPT ![p] = [payments[p] EXCEPT !.verified = TRUE]]
  BY DEF VerifyWrite
<1> HIDE DEF p
<1>4. \A k \in DOMAIN payments \ {p} : payments'[k] = payments[k]
  BY <1>1, <1>3
<1>5. payments'[p].kind = payments[p].kind /\ payments'[p].invoice = payments[p].invoice
  BY <1>1, <1>2 DEF Grows
<1>6. QED BY <1>1, <1>2, <1>4, <1>5

LEMMA VerifyPaymentInLedger ==
  ASSUME TypeInv, TypeInv', RefundInv, IssuedInv, PositiveRows, PositiveRows',
         NEW r \in Request, VerifyWrite(r)
  PROVE  LedgerStep
<1>1. payments \in Seq(Row) /\ payments' \in Seq(Row) /\ UNCHANGED status
  BY DEF TypeInv, LedgerType, VerifyWrite
<1>2. PICK p \in DOMAIN payments :
        /\ DOMAIN payments' = DOMAIN payments /\ Grows
        /\ payments'[p].verified
        /\ payments'[p].kind = payments[p].kind
        /\ payments'[p].invoice = payments[p].invoice
        /\ \A k \in DOMAIN payments \ {p} : payments'[k] = payments[k]
  BY VerifiedRow
<1> DEFINE a == payments'[p].amount
<1>3. payments[p] \in Row
  BY <1>1
<1>15. PICK i \in Invoice : i = payments[p].invoice
  BY <1>3 DEF Row
<1>4. i \in Invoice /\ payments[p].kind \in {"payment", "refund"} /\ payments[p].verified \in BOOLEAN
  BY <1>3 DEF Row
<1>5. \A j :
        /\ VerifiedPayments(j)' = IF payments[p].kind = "payment" /\ i = j
                                  THEN VerifiedPayments(j) \cup {p} ELSE VerifiedPayments(j)
        /\ UnverifiedPayments(j)' = UnverifiedPayments(j) \ {p}
        /\ VerifiedRefunds(j)' = IF payments[p].kind = "refund" /\ i = j
                                 THEN VerifiedRefunds(j) \cup {p} ELSE VerifiedRefunds(j)
  <2>1. TAKE j
  <2>2. VerifiedPayments(j)' = IF payments[p].kind = "payment" /\ i = j
                               THEN VerifiedPayments(j) \cup {p} ELSE VerifiedPayments(j)
    BY <1>2, <1>15 DEF VerifiedPayments
  <2>3. UnverifiedPayments(j)' = UnverifiedPayments(j) \ {p}
    BY <1>2 DEF UnverifiedPayments
  <2>4. VerifiedRefunds(j)' = IF payments[p].kind = "refund" /\ i = j
                              THEN VerifiedRefunds(j) \cup {p} ELSE VerifiedRefunds(j)
    BY <1>2, <1>15 DEF VerifiedRefunds
  <2>5. QED BY <2>2, <2>3, <2>4
<1>6. \A S \in SUBSET DOMAIN payments : p \notin S =>
        /\ SumFunctionOnSet(AmountOf, S) \in Nat
        /\ SumFunctionOnSet(AmountOf', S \cup {p}) = SumFunctionOnSet(AmountOf, S) + a
        /\ a \in Nat /\ a > 0
  BY <1>1, <1>2, SumAdds
<1>7. a \in Nat /\ a > 0 /\ payments[p].amount = a
  <2>1. p \notin {} /\ {} \in SUBSET DOMAIN payments
    OBVIOUS
  <2>2. a \in Nat /\ a > 0
    BY <1>6, <2>1
  <2>3. QED BY <1>2, <2>2 DEF Grows
<1>8. /\ GrossOf'[i] = SumFunctionOnSet(AmountOf', VerifiedPayments(i)')
      /\ PendingOf'[i] = SumFunctionOnSet(AmountOf', UnverifiedPayments(i)')
      /\ ReturnedOf'[i] = SumFunctionOnSet(AmountOf', VerifiedRefunds(i)')
  BY <1>4 DEF GrossOf, PendingOf, ReturnedOf, Gross, Pending
<1>9. /\ DOMAIN GrossOf = Invoice /\ DOMAIN PendingOf' = Invoice /\ DOMAIN ReturnedOf = Invoice
      /\ GrossOf' = [j \in Invoice |-> GrossOf'[j]]
      /\ PendingOf' = [j \in Invoice |-> PendingOf'[j]]
      /\ ReturnedOf' = [j \in Invoice |-> ReturnedOf'[j]]
  BY DEF GrossOf, PendingOf, ReturnedOf
<1>10. GrossOf[i] \in Nat /\ PendingOf[i] \in Nat /\ ReturnedOf[i] \in Nat
  BY <1>1, <1>4, SumsAreNatural
<1> HIDE DEF a
<1>11. CASE payments[p].verified
  <2>1. \A j : /\ VerifiedPayments(j)' = VerifiedPayments(j)
               /\ UnverifiedPayments(j)' = UnverifiedPayments(j)
               /\ VerifiedRefunds(j)' = VerifiedRefunds(j)
    BY <1>5, <1>11 DEF VerifiedPayments, UnverifiedPayments, VerifiedRefunds
  <2>2. GrossOf' = GrossOf /\ PendingOf' = PendingOf /\ ReturnedOf' = ReturnedOf
    BY <1>1, <1>2, <2>1, SameSums, SameTables
  <2>3. QED BY <1>1, <2>2 DEF LedgerStep, Account!vars
<1>12. CASE payments[p].kind = "payment" /\ ~ payments[p].verified
  <2>1. /\ p \notin VerifiedPayments(i) /\ p \in UnverifiedPayments(i)
        /\ VerifiedPayments(i)' = VerifiedPayments(i) \cup {p}
        /\ UnverifiedPayments(i)' = UnverifiedPayments(i) \ {p}
        /\ \A j : VerifiedRefunds(j)' = VerifiedRefunds(j)
        /\ \A j : j # i => VerifiedPayments(j)' = VerifiedPayments(j)
        /\ \A j : j # i => UnverifiedPayments(j)' = UnverifiedPayments(j)
    <3>1. p \notin VerifiedPayments(i) /\ p \in UnverifiedPayments(i)
      BY <1>12, <1>15 DEF VerifiedPayments, UnverifiedPayments
    <3>2. \A j : j # i => p \notin UnverifiedPayments(j)
      BY <1>15 DEF UnverifiedPayments
    <3>3. QED BY <1>5, <1>12, <3>1, <3>2
  <2>2. GrossOf'[i] = GrossOf[i] + a
    <3>1. GrossOf[i] = SumFunctionOnSet(AmountOf, VerifiedPayments(i))
          /\ VerifiedPayments(i) \in SUBSET DOMAIN payments
      BY <1>4, AccountTables
    <3>2. SumFunctionOnSet(AmountOf', VerifiedPayments(i) \cup {p}) = GrossOf[i] + a
      BY <1>6, <2>1, <3>1
    <3>3. QED BY Zenon, <1>8, <2>1, <3>2
  <2>3. PendingOf[i] = PendingOf'[i] + a /\ PendingOf'[i] \in Nat
    <3> DEFINE U == UnverifiedPayments(i)   f == AmountOf
    <3>1. PendingOf[i] = SumFunctionOnSet(f, U) /\ U \in SUBSET DOMAIN payments
      BY <1>4, AccountTables
    <3>2. IsFiniteSet(U) /\ (\A x \in U : f[x] \in Int) /\ f[p] = a
      <4>1. IsFiniteSet(U)
        BY <1>1, <3>1, RowsFinite, FS_Subset
      <4>2. \A x \in U : f[x] \in Int
        BY <1>1, <3>1, AmountOfType
      <4>3. f[p] = a
        BY <1>7 DEF AmountOf
      <4>4. QED BY <4>1, <4>2, <4>3
    <3>3. SumFunctionOnSet(AmountOf', U \ {p}) = SumFunctionOnSet(f, U \ {p})
      BY <1>1, <1>2, <3>1, SumStays
    <3>4. SumFunctionOnSet(f, U \ {p}) \in Nat
      BY <1>6, <3>1
    <3>5. p \in U
      BY <2>1
    <3>6. PendingOf'[i] = SumFunctionOnSet(f, U \ {p})
      BY Zenon, <1>8, <2>1, <3>3
    <3> HIDE DEF U, f
    <3>7. SumFunctionOnSet(f, U) = f[p] + SumFunctionOnSet(f, U \ {p})
      BY <3>2, <3>5, SumRemove
    <3>8. PendingOf[i] = a + PendingOf'[i] /\ PendingOf'[i] \in Nat
      BY Zenon, <3>1, <3>2, <3>4, <3>6, <3>7
    <3>9. QED BY <1>7, <3>8
  <2>4. ReturnedOf' = ReturnedOf
    BY <1>1, <1>2, <2>1, SameSums, SameTables
  <2>5. (\A j \in Invoice : j # i => GrossOf'[j] = GrossOf[j])
        /\ \A j \in Invoice : j # i => PendingOf[j] = PendingOf'[j]
    BY <1>1, <1>2, <2>1, SameSums
  <2>6. GrossOf[i] < GrossOf'[i] /\ PendingOf'[i] < PendingOf[i]
        /\ GrossOf'[i] + PendingOf'[i] = GrossOf[i] + PendingOf[i]
    BY <1>7, <1>10, <2>2, <2>3
  <2>7. Account!Raises(GrossOf, GrossOf', i)
    BY <1>4, <1>9, <2>5, <2>6, AccountTables, RaisesAt
  <2>8. Account!Raises(PendingOf', PendingOf, i)
    BY <1>4, <1>9, <2>5, <2>6, AccountTables, RaisesAt
  <2>9. status[i] # "absent"
    BY <1>12, <1>15 DEF IssuedInv, IssuedPayments
  <2>10. Account!Verify(i)
    BY <1>1, <2>4, <2>6, <2>7, <2>8, <2>9 DEF Account!Verify, Account!Issued
  <2>11. QED BY <1>4, <2>10, OneLedgerStep
<1>13. CASE payments[p].kind = "refund" /\ ~ payments[p].verified
  <2>1. /\ p \notin VerifiedRefunds(i)
        /\ VerifiedRefunds(i)' = VerifiedRefunds(i) \cup {p}
        /\ \A j : j # i => VerifiedRefunds(j)' = VerifiedRefunds(j)
        /\ \A j : VerifiedPayments(j)' = VerifiedPayments(j)
        /\ \A j : UnverifiedPayments(j)' = UnverifiedPayments(j)
    <3>1. p \notin VerifiedRefunds(i) /\ \A j : p \notin UnverifiedPayments(j)
      BY <1>13, <1>15 DEF VerifiedRefunds, UnverifiedPayments
    <3>2. QED BY <1>5, <1>13, <3>1
  <2>2. ReturnedOf'[i] = ReturnedOf[i] + a
    <3>1. ReturnedOf[i] = SumFunctionOnSet(AmountOf, VerifiedRefunds(i))
          /\ VerifiedRefunds(i) \in SUBSET DOMAIN payments
      BY <1>4, AccountTables
    <3>2. SumFunctionOnSet(AmountOf', VerifiedRefunds(i) \cup {p}) = ReturnedOf[i] + a
      BY <1>6, <2>1, <3>1
    <3>3. QED BY Zenon, <1>8, <2>1, <3>2
  <2>3. GrossOf' = GrossOf /\ PendingOf' = PendingOf
    BY <1>1, <1>2, <2>1, SameSums, SameTables
  <2>4. \A j \in Invoice : j # i => ReturnedOf'[j] = ReturnedOf[j]
    BY <1>1, <1>2, <2>1, SameSums
  <2>5. Backed(payments[p], payments)
    BY <1>13 DEF RefundInv, RefundsMatchPayments
  <2>6. status[i] # "absent" /\ a <= GrossOf[i]
    BY <1>7, <1>15, <2>5, BackedByCollected DEF IssuedInv
  <2>7. ReturnedOf[i] < ReturnedOf'[i] /\ ReturnedOf'[i] - ReturnedOf[i] <= GrossOf[i]
    BY <1>7, <1>10, <2>2, <2>6
  <2>8. Account!Raises(ReturnedOf, ReturnedOf', i)
    BY <1>4, <1>9, <2>4, <2>7, AccountTables, RaisesAt
  <2>9. Account!GiveBack(i)
    BY <1>1, <2>3, <2>6, <2>7, <2>8 DEF Account!GiveBack, Account!Issued
  <2>10. QED BY <1>4, <2>9, OneLedgerStep
<1>14. QED BY <1>4, <1>11, <1>12, <1>13

LEMMA CancelEnrollmentInLedger ==
  ASSUME TypeInv, TypeInv', RefundInv, IssuedInv, PositiveRows, PositiveRows',
         NEW r \in Request, CancelCommit(r)
  PROVE  LedgerStep
<1> DEFINE q == req[r]   S == q.todo   plan == q.plan
<1>1. /\ q \in Locals /\ q.pc = "cancelCommit" /\ payments \in Seq(Row) /\ payments' \in Seq(Row)
      /\ RefundLocal(q, payments) /\ IssuedLocal(q, status)
  BY AtStep DEF CancelCommit, RefundInv, IssuedInv, TypeInv, LedgerType
<1>2. S \in SUBSET Invoice /\ plan \in Seq(Row)
  BY Zenon, <1>1 DEF Locals
<1>3. /\ \A k \in DOMAIN plan : /\ plan[k].kind = "refund" /\ Backed(plan[k], payments)
                                /\ plan[k].invoice \in S
      /\ \A i \in S : status[i] # "absent"
  BY <1>1 DEF RefundLocal, IssuedLocal
<1>4. /\ payments' = payments \o plan
      /\ status' = [i \in Invoice |-> IF i \in S THEN "cancelled" ELSE status[i]]
  BY DEF CancelCommit
<1> HIDE DEF S, plan
<1>5. /\ Grows
      /\ \A k \in DOMAIN payments : k \in DOMAIN payments' /\ payments'[k] = payments[k]
      /\ \A k \in DOMAIN payments' \ DOMAIN payments : \E j \in DOMAIN plan : payments'[k] = plan[j]
  BY <1>1, <1>2, <1>4, ConcatGrows
<1>6. \A k \in DOMAIN payments' \ DOMAIN payments :
        /\ payments'[k].kind = "refund" /\ Backed(payments'[k], payments)
        /\ payments'[k].invoice \in S
  BY <1>3, <1>5
<1>7. \A i : /\ VerifiedPayments(i)' = VerifiedPayments(i)
             /\ UnverifiedPayments(i)' = UnverifiedPayments(i)
             /\ VerifiedRefunds(i) \subseteq VerifiedRefunds(i)'
  <2>1. TAKE i
  <2>2. VerifiedPayments(i)' = VerifiedPayments(i)
    BY <1>5, <1>6 DEF VerifiedPayments
  <2>3. UnverifiedPayments(i)' = UnverifiedPayments(i)
    BY <1>5, <1>6 DEF UnverifiedPayments
  <2>4. VerifiedRefunds(i) \subseteq VerifiedRefunds(i)'
    BY <1>5 DEF VerifiedRefunds
  <2>5. QED BY <2>2, <2>3, <2>4
<1>8. GrossOf' = GrossOf /\ PendingOf' = PendingOf
  BY <1>1, <1>5, <1>7, SameSums, SameTables
<1>9. ASSUME NEW i \in Invoice, ReturnedOf'[i] # ReturnedOf[i]
      PROVE  i \in S /\ GrossOf[i] > 0 /\ ReturnedOf[i] < ReturnedOf'[i]
  <2>1. VerifiedRefunds(i)' # VerifiedRefunds(i)
    BY <1>1, <1>5, <1>9, SameSums
  <2>2. PICK k \in VerifiedRefunds(i)' : k \notin VerifiedRefunds(i)
    BY <1>7, <2>1
  <2>3. k \in DOMAIN payments' \ DOMAIN payments /\ payments'[k].invoice = i
    BY <1>5, <2>2 DEF VerifiedRefunds
  <2>4. payments'[k].amount \in Int
    <3>1. payments'[k] \in Row
      BY <1>1, <2>3
    <3>2. QED BY <3>1 DEF Row
  <2>5. i \in S /\ GrossOf[i] > 0
    <3>1. Backed(payments'[k], payments) /\ i \in S
      BY <1>6, <2>3
    <3>2. QED BY <2>3, <2>4, <3>1, BackedByCollected DEF IssuedInv
  <2>6. /\ VerifiedRefunds(i) \in SUBSET DOMAIN payments
        /\ VerifiedRefunds(i)' \in SUBSET DOMAIN payments'
    BY DEF VerifiedRefunds
  <2>7. SumFunctionOnSet(AmountOf, VerifiedRefunds(i))
          < SumFunctionOnSet(AmountOf', VerifiedRefunds(i)')
    BY <1>1, <1>5, <1>7, <2>1, <2>6, SumRises
  <2>8. ReturnedOf[i] < ReturnedOf'[i]
    BY <2>7 DEF ReturnedOf
  <2>9. QED BY <2>5, <2>8
<1>10. ReturnedOf' = [i \in Invoice |-> ReturnedOf'[i]]
  BY DEF ReturnedOf
<1>11. Account!Cancel(S)
  BY <1>3, <1>4, <1>8, <1>9, <1>10 DEF Account!Cancel, Account!Issued
<1>12. QED BY <1>2, <1>11 DEF LedgerStep, Account!Next

LEMMA RefundedIsReturned ==
  ASSUME payments \in Seq(Row), PositiveRows, NEW i \in RefundedOf
  PROVE  ReturnedOf[i] > 0
<1> DEFINE S == VerifiedRefunds(i)   f == AmountOf
<1>1. i \in Invoice /\ S # {}
  BY DEF RefundedOf
<1>2. PICK k \in S : TRUE
  BY <1>1
<1>3. S \in SUBSET DOMAIN payments /\ ReturnedOf[i] = SumFunctionOnSet(f, S)
  BY <1>1, AccountTables
<1>4. IsFiniteSet(S)
  BY <1>3, RowsFinite, FS_Subset
<1>5. (\A x \in S : f[x] \in Nat) /\ f[k] > 0
  BY <1>2, <1>3, RowAmounts
<1> HIDE DEF S, f
<1>6. f[k] <= SumFunctionOnSet(f, S) /\ SumFunctionOnSet(f, S) \in Nat
  BY <1>2, <1>4, <1>5, SumMember, SumNonNegative
<1>7. QED BY <1>2, <1>3, <1>5, <1>6

LEMMA RecalculateInLedger ==
  ASSUME TypeInv, IssuedInv, EarnedInv, NEW r \in Request, RecalcWrite(r)
  PROVE  LedgerStep
<1> DEFINE q == req[r]
<1>1. /\ q.pc = "recalcWrite" /\ q.inv \in Invoice /\ payments \in Seq(Row)
      /\ status \in [Invoice -> Statuses] /\ IssuedLocal(q, status)
      /\ EarnedLocal(q, GrossOf, RefundedOf) /\ PositiveRows
  BY AtStep DEF RecalcWrite, OnInvoice, IssuedInv, EarnedInv
<1>2. PICK i \in Invoice : i = q.inv
  BY <1>1
<1>3. status' = [status EXCEPT ![i] = q.next] /\ payments' = payments
  BY <1>2 DEF RecalcWrite
<1>4. /\ q.next \in {"unpaid", "partial", "paid", "refunded"} /\ status[i] # "absent"
      /\ EarnedBy(q.next, i, GrossOf, RefundedOf)
  BY <1>1, <1>2 DEF IssuedLocal, EarnedLocal, OnInvoice
<1>5. GrossOf' = GrossOf /\ PendingOf' = PendingOf /\ ReturnedOf' = ReturnedOf
  BY <1>3, SameAccount
<1> HIDE DEF q
<1>6. status'[i] = q.next
  BY <1>1, <1>3
<1>7. q.next = "refunded" => ReturnedOf[i] > 0
  BY <1>1, <1>4, RefundedIsReturned DEF EarnedBy
<1>8. Account!Justified(status'[i], i)
  BY <1>4, <1>6, <1>7 DEF Account!Justified, EarnedBy
<1>9. Account!Settle(i)
  BY <1>3, <1>4, <1>5, <1>6, <1>8 DEF Account!Settle, Account!Issued
<1>10. QED BY <1>9, OneLedgerStep

-----------------------------------------------------------------------------
(* Issuing an invoice.                                                     *)

LEMMA AbsentHasNothing ==
  ASSUME IssuedPayments, NEW i \in Invoice, status[i] = "absent"
  PROVE  GrossOf[i] = 0 /\ PendingOf[i] = 0
<1>1. VerifiedPayments(i) = {} /\ UnverifiedPayments(i) = {}
  BY DEF IssuedPayments, VerifiedPayments, UnverifiedPayments
<1>2. SumFunctionOnSet(AmountOf, {}) = 0
  BY FS_EmptySet, SumUnfold
<1>3. QED BY <1>1, <1>2, AccountTables

LEMMA IssueInLedger ==
  ASSUME TypeInv, TypeInv', IssuedInv, PositiveRows', NEW i \in Invoice, Issue(i)
  PROVE  LedgerStep
<1>1. /\ payments \in Seq(Row) /\ payments' \in Seq(Row) /\ status \in [Invoice -> Statuses]
      /\ status[i] = "absent" /\ Total[i] \in Nat
  BY IssueEffect, InvoiceAssumption DEF TypeInv, LedgerType
<1>2. GrossOf[i] = 0 /\ PendingOf[i] = 0
  BY <1>1, AbsentHasNothing DEF IssuedInv
<1>3. CASE payments' = payments /\ status' = [status EXCEPT ![i] = "unpaid"]
  <2>1. GrossOf' = GrossOf /\ PendingOf' = PendingOf /\ ReturnedOf' = ReturnedOf
    BY <1>3, SameAccount
  <2>2. Account!Issue(i)
    BY <1>1, <1>3, <2>1 DEF Account!Issue, Account!Issued
  <2>3. QED BY <2>2, OneLedgerStep
<1>4. ASSUME NEW a \in Amounts \cup {Total[i]}, NEW m \in Method, 0 < a, a <= Total[i],
             payments' = Append(payments, PaymentRow(i, a, m)),
             status' = [status EXCEPT ![i] = IF m # "cash" THEN "unpaid"
                          ELSE IF a >= Total[i] THEN "paid" ELSE "partial"]
      PROVE  LedgerStep
  <2> DEFINE row == PaymentRow(i, a, m)
  <2>1. a \in Int /\ m \in {"cash", "transfer"}
    BY <1>1, RequestAssumption
  <2>2. row \in Row
    BY <2>1, PaymentRowType
  <2>3. row.kind = "payment" /\ row.invoice = i /\ row.amount = a /\ row.verified = (m = "cash")
    BY DEF PaymentRow
  <2>4. payments' = Append(payments, row)
    BY <1>4
  <2> HIDE DEF row
  <2>5. CASE m = "cash"
    <3>1. row.verified
      BY <2>3, <2>5
    <3>2. /\ Account!Raises(GrossOf, GrossOf', i) /\ GrossOf'[i] = GrossOf[i] + a
          /\ PendingOf' = PendingOf /\ ReturnedOf' = ReturnedOf
      BY <1>1, <2>2, <2>3, <2>4, <3>1, AppendRaises
    <3>3. GrossOf'[i] = a
      BY <1>2, <2>1, <3>2
    <3>4. status' = [status EXCEPT ![i] = IF a = Total[i] THEN "paid" ELSE "partial"]
      <4>1. (a >= Total[i]) <=> (a = Total[i])
        BY <1>1, <1>4, <2>1
      <4>2. CASE a = Total[i]
        BY <1>4, <2>5, <4>1, <4>2
      <4>3. CASE a # Total[i]
        BY <1>4, <2>5, <4>1, <4>3
      <4>4. QED BY <4>2, <4>3
    <3>5. Account!Issue(i)
      BY <1>1, <1>4, <3>2, <3>3, <3>4 DEF Account!Issue, Account!Issued
    <3>6. QED BY <3>5, OneLedgerStep
  <2>6. CASE m # "cash"
    <3>1. ~ row.verified
      BY <2>3, <2>6
    <3>2. /\ Account!Raises(PendingOf, PendingOf', i) /\ PendingOf'[i] = PendingOf[i] + a
          /\ GrossOf' = GrossOf /\ ReturnedOf' = ReturnedOf
      BY <1>1, <2>2, <2>3, <2>4, <3>1, AppendRaises
    <3>3. PendingOf'[i] = a
      BY <1>2, <2>1, <3>2
    <3>4. status' = [status EXCEPT ![i] = "unpaid"]
      BY <1>4, <2>6
    <3>5. Account!Issue(i)
      BY <1>1, <1>4, <3>2, <3>3, <3>4 DEF Account!Issue, Account!Issued
    <3>6. QED BY <3>5, OneLedgerStep
  <2>7. QED BY <2>5, <2>6
<1>5. QED BY <1>3, <1>4, IssueEffect

(* collectPayment may insert the month's invoice first.                    *)
LEMMA CollectStartInLedger ==
  ASSUME TypeInv, NEW r \in Request, CollectStart(r)
  PROVE  LedgerStep
<1>1. CASE UNCHANGED status
  BY <1>1, NoLedgerStep DEF CollectStart
<1>2. CASE \E i \in RecurringInvoice : IssueRecurring(i)
  <2>1. PICK i \in RecurringInvoice : IssueRecurring(i)
    BY <1>2
  <2>2. i \in Invoice /\ payments' = payments
    BY InvoiceAssumption DEF CollectStart
  <2>3. GrossOf' = GrossOf /\ PendingOf' = PendingOf /\ ReturnedOf' = ReturnedOf
    BY <2>2, SameAccount
  <2>4. Account!Issue(i)
    BY <2>1, <2>3 DEF IssueRecurring, Account!Issue, Account!Issued
  <2>5. QED BY <2>2, <2>4, OneLedgerStep
<1>3. QED BY <1>1, <1>2 DEF CollectStart

-----------------------------------------------------------------------------
LEMMA NextInLedger ==
  ASSUME TypeInv, TypeInv', RefundInv, IssuedInv, EarnedInv, EarnedInv', [Next]_vars
  PROVE  LedgerStep
<1>1. PositiveRows /\ PositiveRows'
  BY DEF EarnedInv
<1>2. CASE UNCHANGED <<status, payments>>
  BY <1>2, NoLedgerStep
<1>3. ASSUME NEW i \in Invoice, Issue(i)
      PROVE  LedgerStep
  BY <1>1, <1>3, IssueInLedger
<1>4. ASSUME NEW r \in Request, Serve(r)
      PROVE  LedgerStep
  <2>1. CASE RecordInsert(r) \/ CollectInsert(r)
    BY <1>1, <2>1, RecordPaymentInLedger, CollectPaymentInLedger
  <2>2. CASE VerifyWrite(r) \/ RefundInsert(r)
    BY <1>1, <2>2, VerifyPaymentInLedger, RefundPaymentInLedger
  <2>3. CASE CancelCommit(r)
    BY <1>1, <2>3, CancelEnrollmentInLedger
  <2>4. CASE RecalcWrite(r) \/ CollectStart(r)
    BY <2>4, RecalculateInLedger, CollectStartInLedger
  <2>5. QED
    BY <1>2, <1>4, <2>1, <2>2, <2>3, <2>4
       DEF Serve, Recalculate, RecalcInvoice, RecalcGross, RecalcNet,
           RecordPayment, RecordStart, RecordGross, RecordAccept, RecordReject,
           CollectPayment, CollectOpen, CollectGross, CollectPending,
           CollectAccept, CollectReject, VerifyPayment, VerifyStart,
           RefundPayment, RefundStart, RefundAccept, RefundReject,
           CancelEnrollment, CancelRead, CancelPlan, CancelReject, Refuse, vars
<1>5. ASSUME NEW r \in Request, Fail(r)
      PROVE  LedgerStep
  BY <1>2, <1>5 DEF Fail
<1>6. QED BY <1>2, <1>3, <1>4, <1>5, WorkCases DEF Next, vars

LEMMA InitInLedger == Init => Account!Init
<1>1. SUFFICES ASSUME Init PROVE Account!Init
  OBVIOUS
<1>2. payments = <<>> /\ status = [i \in Invoice |-> "absent"]
  BY <1>1 DEF Init
<1>3. \A i : VerifiedPayments(i) = {} /\ UnverifiedPayments(i) = {} /\ VerifiedRefunds(i) = {}
  BY <1>2 DEF VerifiedPayments, UnverifiedPayments, VerifiedRefunds
<1>4. SumFunctionOnSet(AmountOf, {}) = 0
  BY FS_EmptySet, SumUnfold
<1>5. /\ GrossOf = [i \in Invoice |-> 0] /\ PendingOf = [i \in Invoice |-> 0]
      /\ ReturnedOf = [i \in Invoice |-> 0]
  BY <1>3, <1>4 DEF GrossOf, PendingOf, ReturnedOf, Gross, Pending
<1>6. QED BY <1>2, <1>5 DEF Account!Init

(* Whatever the handlers do at once and wherever one fails, the account    *)
(* keeps the promise of Ledger, when every amount a request carries is     *)
(* positive: each statement is one step of Ledger or changes nothing of    *)
(* the account.                                                            *)
THEOREM KeepsLedger == PositiveAmounts => (Spec => ImplementsLedger)
<1>1. SUFFICES ASSUME PositiveAmounts PROVE Spec => ImplementsLedger
  OBVIOUS
<1>2. TypeInv /\ TypeInv' /\ RefundInv /\ IssuedInv /\ EarnedInv /\ EarnedInv' /\ [Next]_vars
        => [Account!Next]_(Account!vars)
  BY NextInLedger DEF LedgerStep
<1>3. Spec => []EarnedInv
  BY <1>1, EarnedInvariant
<1>4. QED
  BY <1>2, <1>3, TypeInvariant, RefundInvariant, IssuedInvariant, InitInLedger, PTL
     DEF Spec, ImplementsLedger, Account!Spec

(* The payments table is append-only: no statement, of whichever handlers, *)
(* takes a row back or changes whose it is, what it is or its amount, or   *)
(* withdraws a verification.                                               *)
THEOREM PaymentsAreKept == Spec => [][Grows]_vars
<1>1. TypeInv /\ [Next]_vars => [Grows]_vars
  BY NextGrows
<1>2. QED BY <1>1, TypeInvariant, PTL DEF Spec

-----------------------------------------------------------------------------
(* When requests are served one at a time and each to its end, statuses    *)
(* are what recalculation makes of the rows, except while a handler is     *)
(* about to recalculate.                                                   *)

WorkSpec == Init /\ [][Work]_vars

Recalculating == {"recalc", "recalcGross", "recalcNet", "recalcWrite"}

CurrentAt(i) ==
  \/ status[i] \in {"absent", "cancelled"}
  \/ status[i] = RecalculatedStatus(GrossOf[i], NetOf[i], Total[i])

Due(q, i) == q.pc \in Recalculating /\ q.inv = i

CurrentInv ==
  \A i \in Invoice : CurrentAt(i) \/ \E r \in Request : Due(req[r], i)

LEMMA NetIsDifference ==
  ASSUME NEW i \in Invoice
  PROVE  NetOf[i] = GrossOf[i] - ReturnedOf[i]
  BY DEF NetOf, Net, GrossOf, ReturnedOf

LEMMA SameCurrent ==
  ASSUME payments \in Seq(Row), Grows, NEW i \in Invoice, CurrentAt(i),
         status'[i] = status[i] \/ status'[i] = "cancelled",
         VerifiedPayments(i)' = VerifiedPayments(i), VerifiedRefunds(i)' = VerifiedRefunds(i)
  PROVE  CurrentAt(i)'
<1>1. GrossOf'[i] = GrossOf[i] /\ ReturnedOf'[i] = ReturnedOf[i]
  BY SameSums
<1>2. NetOf[i] = GrossOf[i] - ReturnedOf[i] /\ NetOf'[i] = GrossOf'[i] - ReturnedOf'[i]
  BY NetIsDifference DEF NetOf, Net, GrossOf, ReturnedOf
<1>3. NetOf'[i] = NetOf[i]
  BY <1>1, <1>2
<1>4. QED BY <1>1, <1>3 DEF CurrentAt

(* What a step of handler r has to establish.                              *)
LEMMA CurrentStep ==
  ASSUME OneAtATime, TypeInv, CurrentInv, NEW r \in Request, NEW l, Goto(r, l),
         \A i \in Invoice :
           CurrentAt(i) \/ Due(req[r], i) => CurrentAt(i)' \/ Due(l, i)
  PROVE  CurrentInv'
<1>1. req'[r] = l
  BY GotoReaches
<1>2. \A s \in Request : s = r
  BY DEF OneAtATime
<1>3. \A i \in Invoice : CurrentAt(i) \/ Due(req[r], i)
  BY <1>2 DEF CurrentInv
<1>4. \A i \in Invoice : CurrentAt(i)' \/ Due(req'[r], i)
  BY <1>1, <1>3
<1>5. QED BY <1>4 DEF CurrentInv, Due

(* A step that reads on behalf of a handler with nothing to recalculate.   *)
LEMMA ReadKeepsCurrent ==
  ASSUME OneAtATime, TypeInv, CurrentInv, NEW r \in Request, \E l : Goto(r, l),
         UNCHANGED <<status, payments>>, req[r].pc \notin Recalculating
  PROVE  CurrentInv'
<1>1. PICK l : Goto(r, l)
  OBVIOUS
<1>2. payments \in Seq(Row) /\ Grows
  BY SameGrows DEF TypeInv, LedgerType
<1>3. \A i : VerifiedPayments(i)' = VerifiedPayments(i) /\ VerifiedRefunds(i)' = VerifiedRefunds(i)
  BY DEF VerifiedPayments, VerifiedRefunds
<1>4. \A i \in Invoice : CurrentAt(i) \/ Due(req[r], i) => CurrentAt(i)' \/ Due(l, i)
  BY <1>2, <1>3, SameCurrent DEF Due
<1>5. QED BY <1>1, <1>4, CurrentStep

(* A row is inserted for an invoice that is recalculated next.             *)
LEMMA InsertKeepsCurrent ==
  ASSUME OneAtATime, TypeInv, CurrentInv, NEW r \in Request, NEW l, Goto(r, l),
         req[r].pc \notin Recalculating, status' = status,
         NEW row \in Row, payments' = Append(payments, row), Due(l, row.invoice)
  PROVE  CurrentInv'
<1>1. payments \in Seq(Row)
  BY DEF TypeInv, LedgerType
<1>2. Grows
  BY <1>1, AnyAppendGrows
<1>3. ASSUME NEW i \in Invoice, CurrentAt(i) \/ Due(req[r], i)
      PROVE  CurrentAt(i)' \/ Due(l, i)
  <2>1. CASE i = row.invoice
    BY <2>1
  <2>2. CASE i # row.invoice
    <3>1. VerifiedPayments(i)' = VerifiedPayments(i) /\ VerifiedRefunds(i)' = VerifiedRefunds(i)
      BY <1>1, <2>2, AppendedRows
    <3>2. CurrentAt(i)
      BY <1>3 DEF Due
    <3>3. QED BY <1>1, <1>2, <3>1, <3>2, SameCurrent
  <2>3. QED BY <2>1, <2>2
<1>4. QED BY <1>3, CurrentStep

LEMMA RecordPaymentCurrent ==
  ASSUME OneAtATime, TypeInv, CurrentInv, NEW r \in Request, RecordInsert(r)
  PROVE  CurrentInv'
<1> DEFINE q == req[r]   row == PaymentRow(q.inv, q.left, q.method)
           l == [q EXCEPT !.pc = "recalc", !.left = 0, !.method = "cash"]
<1>1. /\ q \in Locals /\ q.inv \in Invoice /\ q.pc = "recordInsert"
  BY AtStep DEF RecordInsert, OnInvoice
<1>2. q.left \in Int /\ q.method \in {"cash", "transfer"}
  BY <1>1 DEF Locals
<1>3. row \in Row
  BY <1>1, <1>2, PaymentRowType
<1>4. row.invoice = q.inv
  BY DEF PaymentRow
<1>5. l.pc = "recalc" /\ l.inv = q.inv
  BY <1>1 DEF Locals
<1>6. payments' = Append(payments, row) /\ status' = status /\ Goto(r, l)
  BY DEF RecordInsert
<1>7. q.pc \notin Recalculating
  BY <1>1 DEF Recalculating
<1> HIDE DEF row, l
<1>8. Due(l, row.invoice)
  BY <1>4, <1>5 DEF Due, Recalculating
<1>9. QED BY <1>3, <1>6, <1>7, <1>8, InsertKeepsCurrent

LEMMA CollectPaymentCurrent ==
  ASSUME OneAtATime, TypeInv, CurrentInv, NEW r \in Request, CollectInsert(r)
  PROVE  CurrentInv'
<1> DEFINE q == req[r]
           i == Oldest({j \in Invoice : q.quota[j] > 0})
           a == Min({q.left, q.quota[i]})
           row == PaymentRow(i, a, q.method)
           l == [q EXCEPT !.pc = "recalc", !.inv = i, !.quota[i] = 0, !.left = q.left - a]
<1>1. q \in Locals /\ q.pc = "spread" /\ LocalOK(q, DOMAIN payments)
  BY AtStep DEF CollectInsert
<1>2. i \in Invoice /\ q.quota[i] > 0
  <2>1. {j \in Invoice : q.quota[j] > 0} # {}
    BY <1>1 DEF LocalOK
  <2>2. i \in {j \in Invoice : q.quota[j] > 0}
    BY <2>1, OldestIsMember
  <2>3. QED BY <2>2
<1>3. payments' = Append(payments, row) /\ status' = status /\ Goto(r, l)
  BY DEF CollectInsert
<1> HIDE DEF i
<1>4. a \in Int /\ q.method \in {"cash", "transfer"}
  <2>1. q.left \in Int /\ q.quota[i] \in Int /\ q.method \in {"cash", "transfer"}
    BY <1>1, <1>2 DEF Locals
  <2>2. QED BY <2>1, MinOfTwo
<1> HIDE DEF a
<1>5. row \in Row /\ row.invoice = i
  BY <1>2, <1>4, PaymentRowType DEF PaymentRow
<1>6. l.pc = "recalc" /\ l.inv = i
  BY <1>1 DEF Locals
<1>7. q.pc \notin Recalculating
  BY <1>1 DEF Recalculating
<1> HIDE DEF row, l
<1>8. Due(l, row.invoice)
  BY <1>5, <1>6 DEF Due, Recalculating
<1>9. QED BY <1>3, <1>5, <1>7, <1>8, InsertKeepsCurrent

LEMMA RefundPaymentCurrent ==
  ASSUME OneAtATime, TypeInv, CurrentInv, NEW r \in Request, RefundInsert(r)
  PROVE  CurrentInv'
<1> DEFINE q == req[r]   p == q.pay   row == RefundRow(p, q.left, payments[p].method)
           l == [q EXCEPT !.pc = "recalc", !.inv = payments[p].invoice, !.pay = 0, !.left = 0]
<1>1. q \in Locals /\ p \in DOMAIN payments /\ payments \in Seq(Row) /\ q.pc = "refundInsert"
  BY AtStep DEF RefundInsert, OnPayment
<1>2. q.left \in Int /\ payments[p].method \in {"cash", "transfer"}
  <2>1. payments[p] \in Row
    BY <1>1
  <2>2. QED BY <1>1, <2>1 DEF Locals, Row
<1>3. row \in Row /\ row.invoice = payments[p].invoice
  BY <1>1, <1>2, RefundRowType DEF RefundRow
<1>4. payments' = Append(payments, row) /\ status' = status /\ Goto(r, l)
  BY DEF RefundInsert
<1>5. l.pc = "recalc" /\ l.inv = payments[p].invoice
  BY <1>1 DEF Locals
<1>6. q.pc \notin Recalculating
  BY <1>1 DEF Recalculating
<1> HIDE DEF row, l
<1>7. Due(l, row.invoice)
  BY <1>3, <1>5 DEF Due, Recalculating
<1>8. QED BY <1>3, <1>4, <1>6, <1>7, InsertKeepsCurrent

LEMMA VerifyPaymentCurrent ==
  ASSUME OneAtATime, TypeInv, CurrentInv, NEW r \in Request, VerifyWrite(r)
  PROVE  CurrentInv'
<1> DEFINE q == req[r]
           l == [q EXCEPT !.pc = "recalc", !.inv = payments[q.pay].invoice, !.pay = 0]
<1>1. /\ q \in Locals /\ q.pay \in DOMAIN payments /\ payments \in Seq(Row)
      /\ q.pc = "verifyWrite"
  BY AtStep DEF VerifyWrite, OnPayment
<1>2. status' = status /\ Goto(r, l)
      /\ payments' = [payments EXCEPT ![q.pay] = [payments[q.pay] EXCEPT !.verified = TRUE]]
  BY DEF VerifyWrite
<1>3. l.pc = "recalc" /\ l.inv = payments[q.pay].invoice /\ q.pc \notin Recalculating
  BY <1>1 DEF Locals, Recalculating
<1>4. Grows /\ DOMAIN payments' = DOMAIN payments
  BY VerifyGrows
<1> HIDE DEF l
<1>5. PICK p \in DOMAIN payments : p = q.pay
  BY <1>1
<1>6. \A k \in DOMAIN payments \ {p} : payments'[k] = payments[k]
  BY <1>1, <1>2, <1>5
<1>7. ASSUME NEW i \in Invoice, CurrentAt(i) \/ Due(req[r], i)
      PROVE  CurrentAt(i)' \/ Due(l, i)
  <2>1. CASE i = payments[p].invoice
    BY <1>3, <1>5, <2>1 DEF Due, Recalculating
  <2>2. CASE i # payments[p].invoice
    <3>1. payments'[p].invoice # i
      BY <1>4, <2>2 DEF Grows
    <3>2. VerifiedPayments(i)' = VerifiedPayments(i) /\ VerifiedRefunds(i)' = VerifiedRefunds(i)
      <4>1. VerifiedPayments(i)' = VerifiedPayments(i)
        BY <1>4, <1>6, <2>2, <3>1 DEF VerifiedPayments
      <4>2. VerifiedRefunds(i)' = VerifiedRefunds(i)
        BY <1>4, <1>6, <2>2, <3>1 DEF VerifiedRefunds
      <4>3. QED BY <4>1, <4>2
    <3>3. CurrentAt(i)
      BY <1>3, <1>7 DEF Due
    <3>4. QED BY <1>1, <1>2, <1>4, <3>2, <3>3, SameCurrent
  <2>3. QED BY <2>1, <2>2
<1>8. QED BY <1>2, <1>7, CurrentStep

LEMMA CancelEnrollmentCurrent ==
  ASSUME OneAtATime, TypeInv, TypeInv', RefundInv, IssuedInv, CurrentInv,
         NEW r \in Request, CancelCommit(r)
  PROVE  CurrentInv'
<1> DEFINE q == req[r]   plan == q.plan   todo == q.todo
<1>1. /\ q \in Locals /\ q.pc = "cancelCommit" /\ payments \in Seq(Row)
      /\ RefundLocal(q, payments) /\ IssuedLocal(q, status)
  BY AtStep DEF CancelCommit, RefundInv, IssuedInv
<1>2. plan \in Seq(Row)
  BY Zenon, <1>1 DEF Locals
<1>3. \A k \in DOMAIN plan : plan[k].kind = "refund" /\ plan[k].invoice \in todo
  BY <1>1 DEF RefundLocal, IssuedLocal
<1>4. /\ payments' = payments \o plan /\ Goto(r, Idle)
      /\ status' = [i \in Invoice |-> IF i \in todo THEN "cancelled" ELSE status[i]]
  BY DEF CancelCommit
<1>5. q.pc \notin Recalculating
  BY <1>1 DEF Recalculating
<1> HIDE DEF plan, todo
<1>6. /\ Grows
      /\ \A k \in DOMAIN payments : k \in DOMAIN payments' /\ payments'[k] = payments[k]
      /\ \A k \in DOMAIN payments' \ DOMAIN payments : \E j \in DOMAIN plan : payments'[k] = plan[j]
  BY <1>1, <1>2, <1>4, ConcatGrows
<1>7. \A k \in DOMAIN payments' \ DOMAIN payments :
        payments'[k].kind = "refund" /\ payments'[k].invoice \in todo
  BY <1>3, <1>6
<1>8. ASSUME NEW i \in Invoice, CurrentAt(i) \/ Due(req[r], i)
      PROVE  CurrentAt(i)'
  <2>1. CASE i \in todo
    BY <1>4, <2>1 DEF CurrentAt
  <2>2. CASE i \notin todo
    <3>1. VerifiedPayments(i)' = VerifiedPayments(i)
      BY <1>6, <1>7 DEF VerifiedPayments
    <3>2. VerifiedRefunds(i)' = VerifiedRefunds(i)
      BY <1>6, <1>7, <2>2 DEF VerifiedRefunds
    <3>3. CurrentAt(i) /\ status'[i] = status[i]
      BY <1>4, <1>5, <1>8, <2>2 DEF Due
    <3>4. QED BY <1>1, <1>6, <3>1, <3>2, <3>3, SameCurrent
  <2>3. QED BY <2>1, <2>2
<1>9. QED BY <1>4, <1>8, CurrentStep

LEMMA RecalculateCurrent ==
  ASSUME OneAtATime, TypeInv, AloneInv, CurrentInv, NEW r \in Request, Recalculate(r)
  PROVE  CurrentInv'
<1> DEFINE q == req[r]
<1>1. /\ q \in Locals /\ payments \in Seq(Row) /\ status \in [Invoice -> Statuses]
      /\ payments' = payments /\ Grows /\ q.inv \in Invoice
  <2>1. payments' = payments /\ q.pc \in OnInvoice
    BY DEF Recalculate, RecalcInvoice, RecalcGross, RecalcNet, RecalcWrite, At, OnInvoice
  <2>2. QED BY <2>1, SameGrows DEF TypeInv, LedgerType, LocalOK
<1>2. \A i : VerifiedPayments(i)' = VerifiedPayments(i) /\ VerifiedRefunds(i)' = VerifiedRefunds(i)
  BY <1>1 DEF VerifiedPayments, VerifiedRefunds
<1>3. \A i \in Invoice : status'[i] = status[i] /\ CurrentAt(i) => CurrentAt(i)'
  BY <1>1, <1>2, SameCurrent
<1>4. \A i \in Invoice : Due(q, i) => i = q.inv
  BY DEF Due
<1>5. ASSUME NEW l, Goto(r, l), status' = status, l.pc \in Recalculating, l.inv = q.inv
      PROVE  CurrentInv'
  <2>1. \A i \in Invoice : CurrentAt(i) \/ Due(q, i) => CurrentAt(i)' \/ Due(l, i)
    BY <1>3, <1>4, <1>5 DEF Due
  <2>2. QED BY <1>5, <2>1, CurrentStep
<1>6. CASE RecalcInvoice(r) /\ status[q.inv] = "cancelled"
  <2>1. Goto(r, AfterRecalc(q)) /\ status' = status
    BY <1>6 DEF RecalcInvoice
  <2>2. CurrentAt(q.inv)
    BY <1>6 DEF CurrentAt
  <2>3. \A i \in Invoice : CurrentAt(i) \/ Due(q, i) => CurrentAt(i)'
    <3> HIDE DEF q
    <3>1. TAKE i \in Invoice
    <3>2. CurrentAt(i) \/ Due(q, i) => CurrentAt(i)
      BY <1>4, <2>2
    <3>3. QED BY <1>3, <2>1, <3>2
  <2>4. QED BY <2>1, <2>3, CurrentStep
<1>7. CASE RecalcInvoice(r) /\ status[q.inv] # "cancelled"
  <2> DEFINE l == [q EXCEPT !.pc = "recalcGross"]
  <2>1. l.pc = "recalcGross" /\ l.inv = q.inv
    BY <1>1 DEF Locals
  <2>2. Goto(r, l) /\ status' = status
    BY <1>7 DEF RecalcInvoice
  <2> HIDE DEF l
  <2>3. QED BY <1>5, <2>1, <2>2 DEF Recalculating
<1>8. CASE RecalcGross(r)
  <2> DEFINE l == [q EXCEPT !.pc = "recalcNet", !.gross = Gross(q.inv)]
  <2>1. l.pc = "recalcNet" /\ l.inv = q.inv
    BY <1>1 DEF Locals
  <2>2. Goto(r, l) /\ status' = status
    BY <1>8 DEF RecalcGross
  <2> HIDE DEF l
  <2>3. QED BY <1>5, <2>1, <2>2 DEF Recalculating
<1>9. CASE RecalcNet(r)
  <2> DEFINE nx == RecalculatedStatus(q.gross, Net(q.inv), Total[q.inv])
             l == [q EXCEPT !.pc = "recalcWrite", !.gross = 0, !.next = nx]
  <2>1. l.pc = "recalcWrite" /\ l.inv = q.inv
    <3> HIDE DEF nx
    <3>1. QED BY <1>1 DEF Locals
  <2>2. Goto(r, l) /\ status' = status
    BY <1>9 DEF RecalcNet
  <2> HIDE DEF l
  <2>3. QED BY <1>5, <2>1, <2>2 DEF Recalculating
<1>10. CASE RecalcWrite(r)
  <2> DEFINE l == AfterRecalc([q EXCEPT !.next = "absent"])
  <2>1. Goto(r, l) /\ status' = [status EXCEPT ![q.inv] = q.next]
    BY <1>10 DEF RecalcWrite
  <2>2. q.pc = "recalcWrite" /\ AloneLocal(q, status, CommittedOf, GrossOf, NetOf)
    BY <1>10 DEF RecalcWrite, At, AloneInv
  <2>3. q.next = RecalculatedStatus(GrossOf[q.inv], NetOf[q.inv], Total[q.inv])
    BY <2>2 DEF AloneLocal
  <2>4. GrossOf' = GrossOf /\ NetOf' = NetOf
    <3>1. GrossOf' = GrossOf
      BY <1>1, SameAccount
    <3>2. AmountOf' = AmountOf
      BY <1>1 DEF AmountOf
    <3>3. QED BY <1>2, <3>1, <3>2 DEF NetOf, Net, Gross
  <2> HIDE DEF l
  <2>5. \A i \in Invoice : CurrentAt(i) \/ Due(q, i) => CurrentAt(i)'
    <3>1. TAKE i \in Invoice
    <3>2. PICK j \in Invoice : j = q.inv
      BY <1>1
    <3>3. status'[j] = RecalculatedStatus(GrossOf'[j], NetOf'[j], Total[j])
      BY <1>1, <2>1, <2>3, <2>4, <3>2
    <3>4. CASE i = j
      BY <3>3, <3>4 DEF CurrentAt
    <3>5. CASE i # j
      <4>1. status'[i] = status[i] /\ ~ Due(q, i)
        BY <1>1, <1>4, <2>1, <3>2, <3>5
      <4>2. QED BY <1>3, <4>1
    <3>6. QED BY <3>4, <3>5
  <2>6. QED BY <2>1, <2>5, CurrentStep
<1>11. QED BY <1>6, <1>7, <1>8, <1>9, <1>10 DEF Recalculate

(* An invoice is issued with the status its rows give it.                  *)
LEMMA IssuedIsCurrent ==
  ASSUME TypeInv, TypeInv', IssuedInv, NEW i \in Invoice, status[i] = "absent",
         payments' = payments, status' = [status EXCEPT ![i] = "unpaid"]
  PROVE  \A j \in Invoice : j = i \/ CurrentAt(j) => CurrentAt(j)'
<1>1. payments \in Seq(Row) /\ status \in [Invoice -> Statuses] /\ Grows
  BY SameGrows DEF TypeInv, LedgerType
<1>2. \A j : VerifiedPayments(j)' = VerifiedPayments(j) /\ VerifiedRefunds(j)' = VerifiedRefunds(j)
  BY DEF VerifiedPayments, VerifiedRefunds
<1>3. GrossOf[i] = 0
  BY AbsentHasNothing DEF IssuedInv
<1>4. CurrentAt(i)'
  <2>1. GrossOf'[i] = 0
    BY <1>3, SameAccount
  <2>2. RecalculatedStatus(GrossOf'[i], NetOf'[i], Total[i]) = "unpaid"
    BY <2>1 DEF RecalculatedStatus
  <2>3. status'[i] = "unpaid"
    BY <1>1
  <2>4. QED BY <2>2, <2>3 DEF CurrentAt
<1>5. \A j \in Invoice : j # i => status'[j] = status[j]
  BY <1>1
<1>6. QED BY <1>1, <1>2, <1>4, <1>5, SameCurrent

LEMMA IssueCurrent ==
  ASSUME TypeInv, TypeInv', IssuedInv, RefundInv, CurrentInv, NEW i \in Invoice, Issue(i)
  PROVE  CurrentInv'
<1>1. /\ payments \in Seq(Row) /\ payments' \in Seq(Row) /\ status \in [Invoice -> Statuses]
      /\ status[i] = "absent" /\ Total[i] \in Nat /\ req' = req
  BY IssueEffect, InvoiceAssumption DEF TypeInv, LedgerType
<1>2. GrossOf[i] = 0 /\ PendingOf[i] = 0
  BY <1>1, AbsentHasNothing DEF IssuedInv
<1>3. \A j \in Invoice : j = i \/ CurrentAt(j) => CurrentAt(j)'
  <2>1. CASE payments' = payments /\ status' = [status EXCEPT ![i] = "unpaid"]
    BY <1>1, <2>1, IssuedIsCurrent
  <2>2. ASSUME NEW a \in Amounts \cup {Total[i]}, NEW m \in Method, 0 < a, a <= Total[i],
               payments' = Append(payments, PaymentRow(i, a, m)),
               status' = [status EXCEPT ![i] = IF m # "cash" THEN "unpaid"
                            ELSE IF a >= Total[i] THEN "paid" ELSE "partial"]
        PROVE  \A j \in Invoice : j = i \/ CurrentAt(j) => CurrentAt(j)'
    <3> DEFINE row == PaymentRow(i, a, m)
    <3>1. a \in Int /\ m \in {"cash", "transfer"}
      BY <1>1, RequestAssumption
    <3>2. row \in Row
      BY <3>1, PaymentRowType
    <3>3. row.kind = "payment" /\ row.invoice = i /\ row.amount = a /\ row.verified = (m = "cash")
      BY DEF PaymentRow
    <3>4. payments' = Append(payments, row)
      BY <2>2
    <3> HIDE DEF row
    <3>5. Grows
      BY <1>1, <3>4, AnyAppendGrows
    <3>6. \A j \in Invoice : j # i /\ CurrentAt(j) => CurrentAt(j)'
      <4>1. ASSUME NEW j \in Invoice, j # i, CurrentAt(j) PROVE CurrentAt(j)'
        <5>1. status'[j] = status[j]
          BY <1>1, <2>2, <4>1
        <5>2. VerifiedPayments(j)' = VerifiedPayments(j) /\ VerifiedRefunds(j)' = VerifiedRefunds(j)
          BY <1>1, <3>2, <3>3, <3>4, <4>1, AppendedRows
        <5>3. QED BY <1>1, <3>5, <4>1, <5>1, <5>2, SameCurrent
      <4>2. QED BY <4>1
    <3>7. CurrentAt(i)'
      <4>1. VerifiedRefunds(i) = {}
        <5>1. SUFFICES ASSUME NEW k \in VerifiedRefunds(i) PROVE FALSE
          OBVIOUS
        <5>2. k \in DOMAIN payments /\ payments[k].kind = "refund" /\ payments[k].invoice = i
          BY DEF VerifiedRefunds
        <5>3. Backed(payments[k], payments)
          BY <5>2 DEF RefundInv, RefundsMatchPayments
        <5>4. QED BY <1>1, <5>2, <5>3 DEF Backed, IssuedInv, IssuedPayments
      <4>2. VerifiedRefunds(i)' = {}
        BY <1>1, <3>2, <3>3, <3>4, <4>1, AppendedRows
      <4>3. ReturnedOf'[i] = 0
        <5>1. SumFunctionOnSet(AmountOf', {}) = 0
          BY FS_EmptySet, SumUnfold
        <5>2. QED BY <4>2, <5>1 DEF ReturnedOf
      <4>4. GrossOf'[i] = IF m = "cash" THEN a ELSE 0
        <5>1. VerifiedPayments(i) = {}
          BY <1>1 DEF IssuedInv, IssuedPayments, VerifiedPayments
        <5>2. VerifiedPayments(i)' = IF m = "cash" THEN {Len(payments) + 1} ELSE {}
          BY <1>1, <3>2, <3>3, <3>4, <5>1, AppendedRows
        <5>3. GrossOf'[i] = SumFunctionOnSet(AmountOf', VerifiedPayments(i)')
          BY DEF GrossOf, Gross
        <5>4. SumFunctionOnSet(AmountOf', {}) = 0
          BY FS_EmptySet, SumUnfold
        <5>5. ASSUME NEW n, n = Len(payments) + 1
              PROVE  SumFunctionOnSet(AmountOf', {n}) = a
          <6> DEFINE g == AmountOf'
          <6>1. n \in DOMAIN payments' /\ payments'[n] = row
            BY <1>1, <3>4, <5>5, AnyAppendGrows
          <6>2. g[n] = a
            BY <3>3, <6>1 DEF AmountOf
          <6>3. SumFunctionOnSet(g, {}) = 0
            BY FS_EmptySet, SumUnfold
          <6>4. IsFiniteSet({n}) /\ {n} \ {n} = {}
            BY FS_Singleton
          <6> HIDE DEF g
          <6>5. SumFunctionOnSet(g, {n}) = g[n] + SumFunctionOnSet(g, {n} \ {n})
            BY <3>1, <6>2, <6>4, SumRemove
          <6>6. SumFunctionOnSet(g, {n}) = a + 0
            BY Zenon, <6>2, <6>3, <6>4, <6>5
          <6>7. QED BY <3>1, <6>6 DEF g
        <5>6. CASE m = "cash"
          BY Zenon, <5>2, <5>3, <5>5, <5>6
        <5>7. CASE m # "cash"
          BY Zenon, <5>2, <5>3, <5>4, <5>7
        <5>8. QED BY <5>6, <5>7
      <4>5. NetOf'[i] = GrossOf'[i] - ReturnedOf'[i]
        BY DEF NetOf, Net, GrossOf, ReturnedOf
      <4>6. NetOf'[i] = GrossOf'[i]
        BY <3>1, <4>3, <4>4, <4>5
      <4>7. status'[i] = IF m # "cash" THEN "unpaid"
                         ELSE IF a >= Total[i] THEN "paid" ELSE "partial"
        BY <1>1, <2>2
      <4>8. status'[i] = RecalculatedStatus(GrossOf'[i], NetOf'[i], Total[i])
        BY <2>2, <3>1, <4>4, <4>6, <4>7 DEF RecalculatedStatus
      <4>9. QED BY <4>8 DEF CurrentAt
    <3>8. QED BY <3>6, <3>7
  <2>3. QED BY <2>1, <2>2, IssueEffect
<1>4. \A j \in Invoice : CurrentAt(j)' \/ \E r \in Request : Due(req[r], j)
  BY <1>3 DEF CurrentInv
<1>5. QED BY <1>1, <1>4 DEF CurrentInv, Due

LEMMA CollectStartCurrent ==
  ASSUME OneAtATime, TypeInv, TypeInv', IssuedInv, CurrentInv, NEW r \in Request, CollectStart(r)
  PROVE  CurrentInv'
<1>1. PICK l : Goto(r, l)
  BY Zenon DEF CollectStart
<1>2. payments' = payments /\ req[r].pc \notin Recalculating
  BY DEF CollectStart, At, Recalculating
<1>3. CASE status' = status
  BY <1>1, <1>2, <1>3, ReadKeepsCurrent
<1>4. CASE \E i \in RecurringInvoice : IssueRecurring(i)
  <2>1. PICK i \in RecurringInvoice : IssueRecurring(i)
    BY <1>4
  <2>2. i \in Invoice /\ status[i] = "absent" /\ status' = [status EXCEPT ![i] = "unpaid"]
    BY <2>1, InvoiceAssumption DEF IssueRecurring
  <2>3. \A j \in Invoice : CurrentAt(j) => CurrentAt(j)'
    BY <1>2, <2>2, IssuedIsCurrent
  <2>4. \A j \in Invoice : CurrentAt(j) \/ Due(req[r], j) => CurrentAt(j)' \/ Due(l, j)
    BY <1>2, <2>3 DEF Due
  <2>5. QED BY <1>1, <2>4, CurrentStep
<1>5. QED BY <1>3, <1>4 DEF CollectStart

LEMMA WorkKeepsCurrent ==
  ASSUME OneAtATime, TypeInv, TypeInv', RefundInv, IssuedInv, AloneInv, CurrentInv, [Work]_vars
  PROVE  CurrentInv'
<1>1. CASE UNCHANGED vars
  <2>1. GrossOf' = GrossOf /\ ReturnedOf' = ReturnedOf
    BY <1>1, SameAccount DEF vars
  <2>2. \A i : VerifiedPayments(i)' = VerifiedPayments(i) /\ VerifiedRefunds(i)' = VerifiedRefunds(i)
    BY <1>1 DEF vars, VerifiedPayments, VerifiedRefunds
  <2>3. \A i \in Invoice : CurrentAt(i) => CurrentAt(i)'
    <3>1. payments \in Seq(Row) /\ Grows
      BY <1>1, SameGrows DEF vars, TypeInv, LedgerType
    <3>2. QED BY <1>1, <2>2, <3>1, SameCurrent DEF vars
  <2>4. \A i \in Invoice : CurrentAt(i)' \/ \E r \in Request : Due(req[r], i)
    BY <2>3 DEF CurrentInv
  <2>5. QED BY <1>1, <2>4 DEF CurrentInv, Due, vars
<1>2. ASSUME NEW i \in Invoice, Issue(i)
      PROVE  CurrentInv'
  BY <1>2, IssueCurrent
<1>3. ASSUME NEW r \in Request, Serve(r)
      PROVE  CurrentInv'
  <2>1. CASE Refuse(r)
    BY <1>1, <2>1 DEF Refuse
  <2>2. CASE Recalculate(r)
    BY <2>2, RecalculateCurrent
  <2>3. CASE RecordInsert(r) \/ CollectInsert(r) \/ CollectStart(r)
    BY <2>3, RecordPaymentCurrent, CollectPaymentCurrent, CollectStartCurrent
  <2>4. CASE VerifyWrite(r) \/ RefundInsert(r) \/ CancelCommit(r)
    BY <2>4, VerifyPaymentCurrent, RefundPaymentCurrent, CancelEnrollmentCurrent
  <2>5. CASE \/ \E i \in Invoice : RecordStart(r, i)
             \/ RecordGross(r) \/ RecordAccept(r) \/ RecordReject(r)
             \/ CollectOpen(r) \/ CollectGross(r) \/ CollectPending(r)
             \/ CollectAccept(r) \/ CollectReject(r)
             \/ \E p \in DOMAIN payments : VerifyStart(r, p)
             \/ \E p \in DOMAIN payments : RefundStart(r, p)
             \/ RefundAccept(r) \/ RefundReject(r)
             \/ CancelRead(r) \/ CancelPlan(r) \/ CancelReject(r)
    <3>1. UNCHANGED <<status, payments>> /\ \E l : Goto(r, l)
      BY <2>5, Zenon
         DEF RecordStart, RecordGross, RecordAccept, RecordReject, CollectOpen, CollectGross,
             CollectPending, CollectAccept, CollectReject, VerifyStart, RefundStart,
             RefundAccept, RefundReject, CancelRead, CancelPlan, CancelReject
    <3>2. req[r].pc \notin Recalculating
      BY <2>5
         DEF RecordStart, RecordGross, RecordAccept, RecordReject, CollectOpen, CollectGross,
             CollectPending, CollectAccept, CollectReject, VerifyStart, RefundStart,
             RefundAccept, RefundReject, CancelRead, CancelPlan, CancelReject, At, Recalculating
    <3>3. QED BY <3>1, <3>2, ReadKeepsCurrent
  <2>6. QED
    BY <1>3, <2>1, <2>2, <2>3, <2>4, <2>5
       DEF Serve, RecordPayment, CollectPayment, VerifyPayment, RefundPayment, CancelEnrollment
<1>4. QED BY <1>1, <1>2, <1>3, WorkCases

(* With one request at a time, each served to its end, an invoice that is  *)
(* not cancelled has the status its verified payments and refunds give it  *)
(* whenever nobody is at work: no order of partial payments, late          *)
(* verifications, refunds, months added and cancellations leaves a status  *)
(* behind.                                                                 *)
StatusCurrent ==
  (\A r \in Request : At(r, "idle")) =>
    \A i \in Invoice :
      \/ status[i] \in {"absent", "cancelled"}
      \/ status[i] = RecalculatedStatus(Gross(i), Net(i), Total[i])

THEOREM SeriallyStatusCurrent == OneAtATime => (WorkSpec => []StatusCurrent)
<1>1. SUFFICES ASSUME OneAtATime PROVE WorkSpec => []StatusCurrent
  OBVIOUS
<1>2. WorkSpec => Spec
  <2>1. [Work]_vars => [Next]_vars
    BY DEF Next
  <2>2. QED BY <2>1, PTL DEF WorkSpec, Spec
<1>3. Init => CurrentInv
  BY DEF Init, CurrentInv, CurrentAt
<1>4. TypeInv /\ TypeInv' /\ RefundInv /\ IssuedInv /\ AloneInv /\ CurrentInv /\ [Work]_vars
        => CurrentInv'
  BY <1>1, WorkKeepsCurrent
<1>5. CurrentInv => StatusCurrent
  BY DEF CurrentInv, CurrentAt, Due, Recalculating, StatusCurrent, At, GrossOf, NetOf
<1>6. QED
  BY <1>1, <1>2, <1>3, <1>4, <1>5, TypeInvariant, RefundInvariant, IssuedInvariant,
     AloneInvariant, PTL DEF WorkSpec

=============================================================================
