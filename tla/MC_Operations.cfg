SPECIFICATION Spec
CONSTANTS
  p1 = p1  p2 = p2  f1 = f1  f2 = f2
  Builds = {b1, b2}
  FirstBuild = b1
  Auditors = {p1, p2}
  Conditions = {"broker", "provider", "incident"}
  MaxDeploys = 1
  Prints = {f1, f2}
  Alertable = {f1, f2}
  Severities = {1, 2}
  Syncers = {p1, p2}
  AlertFloor = 2
  AlertEvery = 2
  MaxEvents = 2
  MaxLosses = 1
  Checks <- TwoChecks
  Cooldown = 1
  MaxMishaps = 1
  Expiry = 1
  FetchCooldown = 2
  Ttl = 3
  MaxRestarts = 1
INVARIANTS
  OperationsTypeOK PostsAreAudited BlockersStopPosts
  CountsAreExact
PROPERTIES
  EscalationIsMarked TellsOnce FetchesRecover
