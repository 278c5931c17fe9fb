SPECIFICATION Spec
CONSTANTS
  o1 = o1  o2 = o2  o3 = o3
  k1 = k1  k2 = k2  k3 = k3
  NoOp = NoOp  NoClaim = NoClaim  NoContent = NoContent  NoRow = NoRow
  NoKey = NoKey  NoZone = NoZone
  Op = {o1, o2}
  Repo = {"a"}
  Zone = {"z1"}
  RecordSet = {"s1"}
  Key = {k1, k2}
  Content = {"c0", "c1", "c2"}
  Token = {"t1", "t2"}
  Req = {"q1", "q2"}
  RepoOf <- OneRepo
  OwnerOf <- OneOwner
  ZoneOf <- OneZone
  SetOf <- OneSet
  Desired <- TwinsDesired
  InitialKeys = {k1}
  InitialContent <- OldContent
  OpOf <- RaceOpOf
  TokenOf <- OwnToken
  PruneZones <- NoPrune
  MultiValued = {"s1"}
  Faults = {}
  MaxFaults = 0
  Decisions = {"confirm-provider", "confirm-no-change"}
  OperatorWaits = TRUE
  OperatorCompares = TRUE
  MaxPolicy = 0
  MaxRevision = 0
INVARIANTS OneRecordPerKey
CHECK_DEADLOCK FALSE
