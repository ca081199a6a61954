\* Two requests at a time of two principals, a lost reply, a restart, a midnight; or
\* two threads on the session file, two logins that may be of one principal.
SPECIFICATION ServerSpec
SYMMETRY Symmetry
CONSTANTS
  alice = alice
  bob = bob
  quota = 1
  budget = 1
  Handler = {h1, h2}
  Principal = {alice, bob}
  Everyone = everyone
  Fingerprint = {f1}
  May <- MCMay
  MaxRunners <- MCMaxRunners
  Budget <- MCBudget
  Limit <- MCLimit
  Width <- MCWidth
  LeaseTime = 1
  Targets = {2}
  Midnight = 1
  MaxTime = 1
  MaxRuns = 3
  MaxRestarts = 1
  None = None
  SsProc = {s1, s2}
  SsPrincipal = {alice, bob}
  SsCap = 1
  SsTTL = 1
  SsMaxIds = 2
  SsMaxTime = 1
CHECK_DEADLOCK FALSE
INVARIANTS
  TypeOK
  RateBound
  LeaseQuota
  NoPhantom
  OverrunBounded
  CapHolds
  EndedStaysEnded
