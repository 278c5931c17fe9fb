SPECIFICATION PlansSpec
CONSTANTS
  o1 = o1  o2 = o2  o3 = o3
  k1 = k1  k2 = k2  k3 = k3
  NoOp = NoOp  NoClaim = NoClaim  NoContent = NoContent  NoRow = NoRow
  NoKey = NoKey  NoZone = NoZone  NoPlan = NoPlan
  c1 = c1  c2 = c2  p1 = p1  p2 = p2  a1 = a1  a2 = a2  r1 = r1  r2 = r2
  t1 = t1  t2 = t2  t3 = t3  t4 = t4  t5 = t5  t6 = t6
  Op = {o1, o2}
  Repo = {"a"}
  Zone = {"z1"}
  RecordSet = {"s1"}
  Key = {k1, k2}
  Content = {"c0", "c1"}
  Token = {t1, t2, t3, t4, t5, t6}
  Req = {p1, p2, a1, a2, r1, r2}
  RepoOf <- OneRepo
  OwnerOf <- OneOwner
  ZoneOf <- OneZone
  SetOf <- OneSet
  Desired <- KeepDesired
  InitialKeys = {k1, k2}
  InitialContent <- OldContent
  OpOf <- JobOpOf
  TokenOf <- JobToken
  PruneZones <- SetPrune
  MultiValued = {"s1"}
  Faults = {"read", "drift", "sync"}
  MaxFaults = 1
  Decisions = {"confirm-provider", "confirm-no-change"}
  OperatorWaits = TRUE
  OperatorCompares = TRUE
  MaxPolicy = 1
  MaxRevision = 1
  Client = {c1, c2}
  PlanReq <- PlanReqs
  ApplyReq <- ApplyReqs
  RetryReq <- RetryReqs
  Preview = {o2}
  PlanTime = 1
  MaxTime = 2
SYMMETRY Twin
INVARIANTS PlansTypeOK DeletionsWereShown EvidenceKept SuccessDeletesAll
PROPERTIES RetryKeepsItsPlan
CHECK_DEADLOCK FALSE
