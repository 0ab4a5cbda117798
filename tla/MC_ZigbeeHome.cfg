\* Two devices, one friendly name to give, four bounded events of any kind.
SPECIFICATION ZigbeeSpec
CONSTANTS
  Phys = {d1, d2}
  Name = {n1}
  Area = {a1}
  MaxHandlers = 2
  MaxRemovals = 1
  MaxEvents = 4
INVARIANTS
  OneRecord
PROPERTIES
  SetupKept
\* With its events used up the home rests.
CHECK_DEADLOCK FALSE
