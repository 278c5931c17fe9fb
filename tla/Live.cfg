SPECIFICATION FairSpec
CONSTANTS
  o1 = o1  o2 = o2  o3 = o3
  k1 = k1  k2 = k2  k3 = k3
  NoOp = NoOp  NoClaim = NoClaim  NoContent = NoContent  NoRow = NoRow
  NoKey = NoKey  NoZone = NoZone
  Op = {o1, o2}
  Repo = {"a"}
  Zone = {"z1"}
  RecordSet = {"s1", "s2", "s3"}
  Key = {k1, k2, k3}
  Content = {"c0", "c1"}
  Token = {"t1", "t2"}
  Req = {"q1", "q2"}
  RepoOf <- OneRepo
  OwnerOf <- OneOwner
  ZoneOf <- OneZone
  SetOf <- OwnSet
  Desired <- LiveDesired
  InitialKeys = {k2}
  InitialContent <- OldContent
  OpOf <- LiveOpOf
  TokenOf <- OwnToken
  PruneZones <- NoPrune
  MultiValued = {}
  Faults = {"write"}
  MaxFaults = 2
  Decisions = {"confirm-provider", "confirm-no-change"}
  OperatorWaits = TRUE
  OperatorCompares = TRUE
  MaxPolicy = 2
  MaxRevision = 2
PROPERTIES LocksReleased
CHECK_DEADLOCK FALSE
