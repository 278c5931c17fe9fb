SPECIFICATION MaintenanceSpec
CONSTANTS
  o1 = o1  o2 = o2  o3 = o3
  k1 = k1  k2 = k2  k3 = k3
  NoOp = NoOp  NoClaim = NoClaim  NoContent = NoContent  NoRow = NoRow
  NoKey = NoKey  NoZone = NoZone  NoRun = NoRun
  Op = {o1}
  Repo = {"a"}
  Zone = {"z1", "z2"}
  RecordSet = {"s1", "s3"}
  Key = {k1, k3}
  Content = {"c0", "c1"}
  Token = {"t1"}
  Req = {"q1"}
  RepoOf <- OneRepo
  OwnerOf <- OneOwner
  ZoneOf <- TwoZones
  SetOf <- OwnSet
  Desired <- CreateSecond
  InitialKeys = {k1}
  InitialContent <- OldContent
  OpOf <- ZonesOpOf
  TokenOf <- OwnToken
  PruneZones <- NoPrune
  MultiValued = {}
  Faults = {"crash", "read", "write", "d1", "drift"}
  MaxFaults = 1
  Decisions = {"confirm-provider", "confirm-no-change"}
  OperatorWaits = TRUE
  OperatorCompares = TRUE
  MaxPolicy = 1
  MaxRevision = 1
  d1 = d1  d2 = d2
  Delivery = {d1, d2}
  Slot = {"daily"}
  SlotOf <- SameSlot
  ExpiredAt <- TokensExpired
SYMMETRY Deliveries
INVARIANTS MaintenanceTypeOK ReportsStoredRun AuditIsExact
CHECK_DEADLOCK FALSE
