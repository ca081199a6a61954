\* Two bulk requests of one principal at the same time.
SPECIFICATION ServerSpec
SYMMETRY Symmetry
CONSTANTS
  alice = alice
  bob = bob
  quota = 1
  budget = 9
  Handler = {h1, h2}
  Principal = {alice}
  Everyone = everyone
  Fingerprint = {f1}
  May <- RaceMay
  MaxRunners <- MCMaxRunners
  Budget <- MCBudget
  Limit <- RaceLimit
  Width <- MCWidth
  LeaseTime = 1
  Targets = {1}
  Midnight = 1
  MaxTime = 1
  MaxRuns = 3
  MaxRestarts = 1
  None = None
  SsProc = {}
  SsPrincipal = {alice}
  SsCap = 1
  SsTTL = 1
  SsMaxIds = 0
  SsMaxTime = 0
CHECK_DEADLOCK FALSE
INVARIANTS
  BulkFits
