SPECIFICATION Spec
CONSTANTS
  allowance = allowance
  bonus = bonus
  adjustment = adjustment
  Staff = {s1}
  NoStaff = NoStaff
  Source = {allowance}
  Program = {}
  Package = {}
  Deduction = {}
  Percent = {}
  Manual = {adjustment}
  Base = {1}
  Amount = {1}
  Request = {h1, h2}
  MaxLines = 1
  MaxEdits = 0
SYMMETRY Symmetry
INVARIANTS
  TypeOK
  PayslipIsFaithful
PROPERTIES
  SettledIsFinal
  ImplementsPayRecord
