\* Two devices, two sessions, two connections at a time.
SPECIFICATION FairSpec
CONSTANTS
  Node = {n1, n2}
  Homes <- Homes2
  Session = {s1, s2}
  MaxSockets = 2
  Scenarios <- AllScenarios
INVARIANTS
  Settings
  OwnDevice
PROPERTIES
  Recovers
CHECK_DEADLOCK FALSE
