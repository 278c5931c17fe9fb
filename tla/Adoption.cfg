SPECIFICATION AdoptionSpec
CONSTANTS
  o1 = o1  o2 = o2  o3 = o3
  k1 = k1  k2 = k2  k3 = k3  u1 = u1  u2 = u2
  NoOp = NoOp  NoClaim = NoClaim  NoContent = NoContent  NoRow = NoRow
  NoKey = NoKey  NoZone = NoZone
  Op = {o1, o2, o3}
  Repo = {"a", "nobody"}
  Zone = {"z1", "z2"}
  RecordSet = {"s1", "s2"}
  Key = {k1, k2, k3, u1, u2}
  Content = {"c0", "c1"}
  Token = {"t1", "t2", "t3"}
  Req = {"q1", "q2", "q3"}
  RepoOf <- OneRepo
  OwnerOf <- Owners
  ZoneOf <- ZoneOfEach
  SetOf <- SetOfEach
  Desired <- Updates
  InitialKeys = {k3}
  InitialContent <- OldContent
  OpOf <- OwnOp
  TokenOf <- OwnToken
  PruneZones <- Prunes
  MultiValued = {"s1", "s2"}
  Unmanaged = {u1, u2}
  Targets <- KeysForOne
  Faults = {"crash", "write", "d1"}
  MaxFaults = 1
  Decisions = {"confirm-provider", "confirm-no-change"}
  OperatorWaits = TRUE
  OperatorCompares = TRUE
  MaxPolicy = 1
  MaxRevision = 1
INVARIANTS AdoptionTypeOK RowsAreMarked MarkedIsAdoptable NothingBesideUnmanaged
PROPERTIES MarkStays
CHECK_DEADLOCK FALSE
