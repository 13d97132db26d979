SPECIFICATION WatermarksSpec
CONSTANTS
  Temps = {1, 2}
  Ceiling = 2
  MaxDays = 2
  MaxReports = 2
  MaxDeaths = 1
INVARIANTS BustsAreOfToday
