\* Two zones, a home with or without an account, two bounded events of any kind.
SPECIFICATION HiveFairSpec
CONSTANTS
  Zone = {z1, z2}
  Area = {a1}
  MaxAttempts = 2
  MaxEvents = 2
INVARIANTS
  DisconnectedStaysEmpty
PROPERTIES
  PollKeepsEdits
  WantedComes
\* Without an account the bridge waits for its users, whose calls are bounded.
CHECK_DEADLOCK FALSE
