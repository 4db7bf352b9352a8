SPECIFICATION RecoverySpec
CONSTANTS
  Owners = {alice}
  Partners = {bob, carol}
  Witnesses = {carol}
  Authorities = {k1, k2}
  Impossible = impossible
  Deleted = deleted
  NoPartner = nobody
  NoReset = null
  RecoveryPeriod = 4
  RequestPeriod = 2
  UpdateLimit = 1
  Start = 2
  MaxHeadTime = 8
  MaxHistory = 2
INVARIANTS
  EndorserIsRecent
  OwnerCanReturn
PROPERTY
  ChangeIsDelayed
SYMMETRY
  AuthoritySymmetry
