SPECIFICATION Spec
CONSTANTS
  enrol = enrol
  month = month
  other = other
  NoInvoice = NoInvoice
  Invoice = {enrol, month}
  EnrollmentInvoice = {enrol, month}
  RecurringInvoice = {month}
  ServiceInvoice = {}
  Total <- MCTotalOfTwo
  IssueDate <- MCIssueDateOfTwo
  Request = {r1, r2}
  Amounts = {1}
  Method = {"cash", "transfer"}
  MaxPayments = 2
SYMMETRY Symmetry
INVARIANTS
  StatusEarned
  RefundsMatchPayments
PROPERTIES
  ImplementsLedger
