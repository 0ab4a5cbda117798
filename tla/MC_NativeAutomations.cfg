\* One automation with two actions, one API client and one other subsystem.
SPECIFICATION Spec
CONSTANTS
  Owner = {sched, c, o}
  Guarded = {sched, c, o}
  Awaited = {sched, c}
  Sched = sched
  Clients = {c}
  Others = {o}
  Automation = {a}
  NumSteps = 2
  Ticks = {1, 2, 3, 4}
  PerMinute = 2
  LocalTime <- RepeatedHour
  Grace = 3
  MaxOccurrences = 2
  MaxHistory = 3
  MaxRevision = 2
  Scenarios <- AllScenarios
INVARIANTS
  AtMostOnce
  TruthfulRecords
  DisabledStaysQuiet
  NoneLeftOpen
PROPERTIES
  NoMinuteSkipped
CHECK_DEADLOCK FALSE
