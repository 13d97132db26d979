SPECIFICATION Spec
CONSTANTS
  Tickers = {kx}
  MaxLots = 2
  MaxOrders = 2
  MaxElsewhere = 1
  Temps = {1, 2}
  Ceiling = 2
  MaxDays = 2
  MaxReports = 2
  MaxDeaths = 1
  Markets = {1, 2, 3}
  Family <- MCFamily
  Slot <- MCSlot
  Region <- MCRegion
  Axis <- MCAxis
  MaxQty = 2
  PositionUsd = 80
  KellyPct = 12
  EventPct = 8
  DeployedPct = 10
  RegionMin = 0
  RegionPct = 7
  FamilyCap = 2
  Slippage = 2
  Prices = {40, 42}
  Balances = {1200, 1600}
  MaxMoves = 1
  Bottom = 2
  Bins = 2
  Readings = {3, 4, 5, 8, 11, 12}
  MaxRises = 2
  Unseen = Unseen
  Runners = {daemon, cron}
  Legs = {kx}
  AccountSize = 100
  Quotes = {30, 45}
  MaxDepth = 2
  MaxTrades = 2
INVARIANTS
  SourcesTypeOK CacheGrounded WatermarksAreObserved
  EntriesSound OneRungWins BalanceFollowsTrades
PROPERTIES
  ImplementsOrderDesk
