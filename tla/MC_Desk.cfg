SPECIFICATION DeskSpec
CONSTANTS
  daemon = daemon  hourly = hourly  daily = daily
  Traders = {daemon}
  Watchers = {watchdog}
  Daemon = daemon
  Tickers = {kx}
  Expiry <- MCExpiry
  DayLength = 2
  Window = 1
  TripLimit = 2
  EdgeWindow = 4
  BankrollLimit = 1
  Amounts <- MCAmounts
  MaxTime = 3
  MaxOrders = 2
  NoRow = NoRow
  Loops = {daemon}
  Series = {hourly, daily}
  Limit <- MCLimit
  StaleAfter = 1
  SampleLimit = 2
  Deposit = 2
  Cost = 2
  MaxWorldMoves = 1
  MaxAudits = 1
  Optimizers = {o1, o2}
  Keys = {floor, size}
  Bounded = {size}
  Low = 1
  High = 60
  Proposals = {40, 70}
  Default = 50
  MaxMutations = 2
  Markets <- MCMarkets
  Turns <- MCTurns
  Kellies = {10, 50}
  Floors = {90}
  Bankroll = 8000
INVARIANTS
  DeskTypeOK StandingBarVetoes DayBucketsExact MarketChoicesAreSound
PROPERTIES
  HaltsArePermanent LaneIsShownAsItIs TuningIsLogged
