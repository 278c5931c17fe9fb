SPECIFICATION FairAdoptionSpec
CONSTANTS
  o1 = o1  o2 = o2  o3 = o3
  k1 = k1  k2 = k2  k3 = k3  u1 = u1  u2 = u2
  NoOp = NoOp  NoClaim = NoClaim  NoContent = NoContent  NoRow = NoRow
  NoKey = NoKey  NoZone = NoZone
  Op = {o1}
  Repo = {"a", "nobody"}
  Zone = {"z1"}
  RecordSet = {"s1"}
  Key = {k1, k2, u1, u2}
  Content = {"c0", "c1"}
  Token = {"t1"}
  Req = {"q1"}
  RepoOf <- OneRepo
  OwnerOf <- Owners
  ZoneOf <- OneZone
  SetOf <- OneSet
  Desired <- Updates
  InitialKeys = {}
  InitialContent <- OldContent
  OpOf <- OwnOp
  TokenOf <- OwnToken
  PruneZones <- NoPrune
  MultiValued = {"s1"}
  Unmanaged = {u1, u2}
  Targets <- KeyForEach
  Faults = {}
  MaxFaults = 0
  Decisions = {"confirm-provider", "confirm-no-change"}
  OperatorWaits = TRUE
  OperatorCompares = TRUE
  MaxPolicy = 0
  MaxRevision = 0
PROPERTIES EachIsAdopted
CHECK_DEADLOCK FALSE
