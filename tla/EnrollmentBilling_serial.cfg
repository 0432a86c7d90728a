SPECIFICATION Spec
CONSTANTS
  tuition = tuition
  bus = bus
  trip = trip
  NoEnrollment = NoEnrollment
  Enrollment = {e1, e2}
  Item = {tuition, bus, trip}
  Mandatory = {tuition}
  Recurring = {tuition, bus}
  Monthly = {tuition, bus}
  LastMonth = 2
  Request = {r1}
  MaxInvoices = 3
SYMMETRY Symmetry
INVARIANTS
  ConfirmedOnce
  OneRunPerMonth
PROPERTY
  ConfirmedIsFrozen
