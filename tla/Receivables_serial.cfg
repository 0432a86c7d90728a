SPECIFICATION SerialSpec
CONSTANTS
  enrol = enrol
  month = month
  other = other
  NoInvoice = NoInvoice
  Invoice = {enrol, month, other}
  EnrollmentInvoice = {enrol, month}
  RecurringInvoice = {month}
  ServiceInvoice = {month}
  Total <- MCTotal
  IssueDate <- MCIssueDate
  Request = {r1}
  Amounts = {1, 2}
  Method = {"cash", "transfer"}
  MaxPayments = 3
INVARIANTS
  TypeOK
  NoOvercollection
PROPERTIES
  PaidNeverReopens
  CancelledIsFinal
  SettlesWhenResumed
