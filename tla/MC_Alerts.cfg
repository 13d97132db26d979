SPECIFICATION IncidentsSpec
CONSTANTS
  Prints = {f1, f2}
  Alertable = {f1, f2}
  Severities = {1, 2}
  Syncers = {p}
  AlertFloor = 2
  AlertEvery = 2
  MaxEvents = 2
  MaxLosses = 0
INVARIANTS MarkedIsTold
