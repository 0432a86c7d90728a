SPECIFICATION FairSpec
CONSTANTS
  ann = ann
  bo = bo
  north = north
  south = south
  None = None
  Student = {ann}
  Staff = {bo}
  Tenant = {north, south}
  TenantOf <- MCTenantOf
  LeaveType = {sick}
  Days = {1}
  Quotas = {1}
  Request = {r1}
  Desk = {d1}
  Nightly = {nightly}
  Manual = {}
  MaxEdits = 1
INVARIANT
  NobodyGoneIsOnFile
PROPERTY
  DueIsPurged
