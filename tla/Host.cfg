\* Two workers that contend for the lock for ever, or a pool of three units: the first
\* has no drain contract, the last is leased.
SPECIFICATION HostSpec
CONSTANTS
  Proc = {w1, w2}
  alice = alice
  bob = bob
  quota = 1
  Principal = {alice}
  Runner = {r1}
  Issue = {}
  LinearBot = linearbot
  Anyone = anyone
  Perm = perm
  MaxRunners <- MCMaxRunners
  Duration = {1}
  ReadFaults = FALSE
  MaxInode = 4
  MaxTime = 0
  AsUnits = 3
  AsLeasable = {3}
  AsSafe = {2, 3}
  AsBroken = {}
  AsMin = 1
  AsMax = 3
  AsSchedule = {0, 3}
  AsStep = 2
  AsSpacing = 1
  AsCooldown = 1
  AsHistory = 2
INVARIANTS
  AsTypeOK
PROPERTIES
  OperationsEnd
  StopsAreSafe
  PoolSettles
