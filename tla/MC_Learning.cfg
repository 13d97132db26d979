SPECIFICATION Spec
CONSTANTS
  p1 = p1  p2 = p2  t1 = t1  t2 = t2  m2 = m2
  Tickers = {t1, t2}
  Void = {t2}
  CloseOrder <- VoidClosesFirst
  Procs = {p1, p2}
  MaxMarkets = 2
  MaxPayloads = 2
  MaxFaults = 1
  Challengers = {m1}
  FirstChampion = baseline
  Reviews = {r1}
  Cyclers = {p1, p2}
  MaxPending = 1
  MaxThreadDeaths = 1
  Artifacts = {m1, m2}
  Baseline = baseline
  Resolvers = {p1, p2}
  MaxRequests = 2
  MaxEpochs = 1
  MaxDeaths = 1
  Scanners = {p1, p2}
  Listings = {1, 2, 3}
  EventOf <- MCEventOf
  SeriesOf <- MCEventOf
  MinLead = 1
  MaxLead = 1
  LastHour = 2
  MaxMoved = 1
  MaxSlips = 2
INVARIANTS
  LearningTypeOK NoAnswerTwice LegacyFollowsRecord
  OperatorDecides InUseIsGoverned ActsOnce ClosedIsDropped
PROPERTIES
  ImplementsRegister ImplementsWeights FinalizedIsRecorded OldestIsHeard OpenIsEvaluated
