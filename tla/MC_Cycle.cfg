SPECIFICATION CycleSpec
CONSTANTS
  Tickers = {kx, ky, kz}
  MaxLots = 2
  MaxOrders = 3
  MaxElsewhere = 1
  Cap = 1
  Bonus = 1
  Ultra = {kz}
  MaxCrashes = 1
  NoTicker = NoTicker
INVARIANTS TradingTypeOK RowsMirrorBook CapOverrunOnlyByStrays
PROPERTIES NeverDoublesDown EntriesHaveRoom RowsCloseOnFlat
VIEW WithoutPast
SYMMETRY Symmetry
