SPECIFICATION Spec
CONSTANTS
  Nonce = {n1, n2}
  Proof = {p1}
  Grant = {g1}
  Session = {s1, s2}
  Lease = {l1}
  Secret = {a, b}
  MaxCode = 3
  MaxFailures = 2
  MaxSaves = 3
  Scenarios <- AllScenarios
INVARIANTS
  UsedOnce
  RevokedStays
  SecretsKept
  CodeEnds
CHECK_DEADLOCK FALSE
