SPECIFICATION Spec
CONSTANTS
  Other = other
  Owner = {r1, r2, other}
  Guarded = {r1, r2, other}
  Awaited = {r1, r2}
  Automation = {1, 2, 3}
  Native = {1}
  Legacy = {1, 7}
  Key = {"k1", "k2"}
  Automatable <- AllAutomatable
  Forbidden <- AllForbidden
  TypeOf <- Types
  Wish <- Wishes
  Subject = "lamp"
  Device = {"lamp", "scene"}
  Managed = {"lamp"}
  Area = {"hall"}
  Label = {"light", "radiator"}
  First <- TheFirst
  Found <- TheFound
  Ask <- TheAsk
  Call = {c1, c2}
  MaxAutomations = 2
  MaxKeys = 1
  MaxRevision = 4
  Scenarios <- AllScenarios
INVARIANTS
  CreatedOnce
  EditsKept
  SendsOnlyOffered
  CallsOnTarget
PROPERTIES
  RoutesKept
VIEW Relevant
SYMMETRY Symmetry
CHECK_DEADLOCK FALSE
