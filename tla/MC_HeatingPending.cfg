\* Nothing fails and nobody interferes: the demand turns stale while a command is pending.
SPECIFICATION FairSpec
CONSTANTS
  r1 = r1
  r2 = r2
  Radiator = {r1, r2}
  Boiler = boiler1
  Fresh = 1
  Grace = 1
  Cooldown = 1
  BaseDelay = 1
  MaxDelay = 2
  AsksTemperature = TRUE
  MaxElapsed = 1
  MaxEvents = 0
  Homes <- CalmHome
PROPERTY PendingIsTransient
