SPECIFICATION FairSpec
CONSTANTS
  o1 = o1  o2 = o2  o3 = o3
  k1 = k1  k2 = k2  k3 = k3
  NoOp = NoOp  NoClaim = NoClaim  NoContent = NoContent  NoRow = NoRow
  NoKey = NoKey  NoZone = NoZone
  Op = {o1}
  Repo = {"a"}
  Zone = {"z1"}
  RecordSet = {"s1"}
  Key = {k1}
  Content = {"c0", "c1"}
  Token = {"t1"}
  Req = {"q1"}
  RepoOf <- OneRepo
  OwnerOf <- OneOwner
  ZoneOf <- OneZone
  SetOf <- OneSet
  Desired <- ZonesDesired
  InitialKeys = {}
  InitialContent <- OldContent
  OpOf <- ZonesOpOf
  TokenOf <- OwnToken
  PruneZones <- NoPrune
  MultiValued = {}
  Faults = {"crash"}
  MaxFaults = 1
  Decisions = {"confirm-provider", "confirm-no-change"}
  OperatorWaits = TRUE
  OperatorCompares = TRUE
  MaxPolicy = 1
  MaxRevision = 1
PROPERTIES SentIsSettled
CHECK_DEADLOCK FALSE
