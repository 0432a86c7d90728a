SPECIFICATION MCSpec
CONSTANTS
  None = None
  User = {u}
  Role = {r}
  Session = {s}
  Token = {k}
  IdleTTL = 2
  LifeTTL = 3
  SlideThreshold = 1
  ResetTTL = 1
  ActivationTTL = 1
  CacheTTL = 2
  Request = {h1, h2}
  MaxLost = 1
INVARIANTS
  TypeOK
  TokenIsSpent
  ResetLocksOut
  
PROPERTY
  PermissionsConverge
