SPECIFICATION Spec
CONSTANTS
  Traders = {daemon}
  Watchers = {}
  Daemon = daemon
  Tickers = {kx}
  Expiry <- MCExpiryUnknown
  DayLength = 2
  Window = 1
  TripLimit = 2
  EdgeWindow = 4
  BankrollLimit = 1
  Amounts <- MCAmounts
  MaxTime = 3
  MaxOrders = 2
  NoRow = NoRow
PROPERTIES LossExitLocksTicker
