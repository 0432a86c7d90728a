SPECIFICATION Spec
CONSTANTS
  ann = ann
  bo = bo
  north = north
  south = south
  None = None
  Student = {}
  Staff = {bo}
  Tenant = {south}
  TenantOf <- MCTenantOfOne
  LeaveType = {sick}
  Days = {1, 2}
  Quotas = {0, 2}
  Request = {r1, r2}
  Desk = {d1}
  Nightly = {}
  Manual = {now}
  MaxEdits = 0
SYMMETRY RequestSymmetry
INVARIANTS
  OverdraftIsBounded
  UsedTypeIsKept
