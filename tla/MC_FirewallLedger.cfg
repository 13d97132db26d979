SPECIFICATION FairSpec
CONSTANTS
  Traders = {daemon, cron}
  Watchers = {}
  Daemon = daemon
  Tickers = {kx}
  Expiry <- MCExpirySoon
  DayLength = 2
  Window = 1
  TripLimit = 1
  EdgeWindow = 4
  BankrollLimit = 1
  Amounts <- MCLoss
  MaxTime = 1
  MaxOrders = 1
  NoRow = NoRow
PROPERTIES OfficialReplacesProvisional
