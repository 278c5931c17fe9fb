SPECIFICATION OidcSpec
CONSTANTS
  v1 = v1  v2 = v2
  NoCache = NoCache  NoFlight = NoFlight  NoKid = NoKid
  Verifier = {v1, v2}
  Kid = {"old", "new"}
  FirstKeys = {"old"}
  CacheTime = 4
  RotationTime = 2
  FetchTime = 1
  MaxTime = 7
SYMMETRY Callers
INVARIANTS OidcTypeOK
PROPERTIES CacheNeverOlder LoadsApart NoStaleKey RotationNoticed
CHECK_DEADLOCK FALSE
