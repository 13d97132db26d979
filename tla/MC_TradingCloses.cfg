SPECIFICATION TradingSpec
CONSTANTS
  Tickers = {kx, ky}
  MaxLots = 1
  MaxOrders = 2
  MaxElsewhere = 1
  Cap = 1
  Bonus = 1
  Ultra = {}
  MaxCrashes = 0
  NoTicker = NoTicker
INVARIANTS ClosesAreRecorded
VIEW WithoutPast
