SPECIFICATION FairSpec
CONSTANTS
  allowance = allowance
  bonus = bonus
  adjustment = adjustment
  Staff = {s1, s2}
  NoStaff = NoStaff
  Source = {}
  Program = {}
  Package = {}
  Deduction = {}
  Percent = {}
  Manual = {}
  Base = {0}
  Amount = {1}
  Request = {h1, h2}
  MaxLines = 0
  MaxEdits = 0
INVARIANT
  GenerationCovers
PROPERTY
  PaidGetsPayslip
