\* One lamp, one boiler, one device and its integration; two calls of syncNow.
SPECIFICATION FairSpec
CONSTANTS
  UnknownGap = 2
  MaxInterval = 3
  MaxTracked = 1
  MaxOutbox = 3
  MaxJobs = 2
  MaxHours = 3
  MaxSyncs = 2
  Lamps = {lamp}
  Boiler = boiler
  Areas = {1, 2}
  Seen = {"on"}
  Elapsed = {0, 1, 4}
  MaxEpochs = 4
  Scenarios <- AllScenarios
INVARIANTS
  UsageAccounted
  CredentialAgrees
  ToldAgrees
PROPERTIES
  AlarmsClear
CHECK_DEADLOCK FALSE
