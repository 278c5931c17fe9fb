SPECIFICATION Spec
CONSTANTS
  o1 = o1  o2 = o2  o3 = o3
  k1 = k1  k2 = k2  k3 = k3
  NoOp = NoOp  NoClaim = NoClaim  NoContent = NoContent  NoRow = NoRow
  NoKey = NoKey  NoZone = NoZone
  Op = {o1, o2, o3}
  Repo = {"a", "b"}
  Zone = {"z1"}
  RecordSet = {"s1"}
  Key = {k1, k2}
  Content = {"c0", "c1"}
  Token = {"t1", "t2", "t3"}
  Req = {"q1", "q2", "q3"}
  RepoOf <- OwnersRepoOf
  OwnerOf <- OwnersOwnerOf
  ZoneOf <- OneZone
  SetOf <- OneSet
  Desired <- OwnersDesired
  InitialKeys = {}
  InitialContent <- OldContent
  OpOf <- OwnersOpOf
  TokenOf <- OwnToken
  PruneZones <- OwnersPrune
  MultiValued = {"s1"}
  Faults = {"crash", "write", "d1", "drift"}
  MaxFaults = 2
  Decisions = {"confirm-provider", "confirm-no-change"}
  OperatorWaits = TRUE
  OperatorCompares = FALSE
  MaxPolicy = 2
  MaxRevision = 2
INVARIANTS SingleOwner ConfirmedWasApplied NoOrphan FinishDeletesAll
CHECK_DEADLOCK FALSE
