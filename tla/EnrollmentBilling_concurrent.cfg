SPECIFICATION Spec
CONSTANTS
  tuition = tuition
  bus = bus
  trip = trip
  NoEnrollment = NoEnrollment
  Enrollment = {e1}
  Item = {tuition, bus}
  Mandatory = {tuition}
  Recurring = {tuition, bus}
  Monthly = {tuition, bus}
  LastMonth = 2
  Request = {r1, r2}
  MaxInvoices = 3
SYMMETRY Symmetry
INVARIANTS
  InvoiceLinks
  BilledAfterStart
  DoubleBillingIsBounded
