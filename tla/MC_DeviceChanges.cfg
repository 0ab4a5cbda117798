SPECIFICATION FairSpec
CONSTANTS
  Endpoint <- TheEndpoints
  Message <- TheMessages
  Asked <- TheAsked
  MaxFlushes = 2
  Rule <- TheRules
  Trigger <- TheTriggers
  MaxMinute = 2
  Runner = {k1, k2}
  Scenarios <- AllScenarios
INVARIANTS
  ExecutedOnce
  NoReportLost
  OncePerMinute
PROPERTIES
  Arrival
CHECK_DEADLOCK FALSE
