SPECIFICATION ServedSpec
CONSTANTS
  allowance = allowance
  bonus = bonus
  adjustment = adjustment
  Staff = {s1, s2}
  NoStaff = NoStaff
  Source = {allowance, bonus}
  Program = {bonus}
  Package = {allowance}
  Deduction = {bonus}
  Percent = {}
  Manual = {adjustment}
  Base = {2}
  Amount = {1}
  Request = {h1}
  MaxLines = 1
  MaxEdits = 2
SYMMETRY StaffSymmetry
INVARIANTS
  NetIsSumOfLines
  TotalIsSumOfRecords
