\* Three thermostats of one model, whose names change once.
SPECIFICATION NestSpec
CONSTANTS
  Thermostat = {t1, t2, t3}
  MaxGrants = 2
  Scenarios <- AllScenarios
SYMMETRY ThermostatSymmetry
INVARIANTS
  OwnRecords
PROPERTIES
  SettingsMove
CHECK_DEADLOCK FALSE
